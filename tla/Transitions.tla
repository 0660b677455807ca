----------------------------- MODULE Transitions -----------------------------
(***************************************************************************)
(* The CSS transitions of one property of one element, in Servo: Transition *)
(* in style/servo/animation.rs and how one is started, replaced, reversed   *)
(* and cancelled. Times are relative to the clock: a tick brings start      *)
(* times closer. The timing function is linear. A set is [transitions,      *)
(* animations, dirty], the ElementAnimationSet of the element.              *)
(***************************************************************************)
EXTENDS Fractions, Sequences, SequencesExt

CONSTANT NotANumber \* a value between which and any other nothing can be interpolated

Active(a) == a.state \notin {"Finished", "Canceled"}

WithState(a, state) == [a EXCEPT !.state = state]

-----------------------------------------------------------------------------
(* A transition.                                                            *)

NewTransition(s, from, to) ==
  [start |-> Whole(s.delay), duration |-> Whole(s.duration), from |-> from, to |-> to,
   state |-> "Pending", reversingAdjustedStartValue |-> from,
   reversingShorteningFactor |-> Whole(1)]

Progress(t) ==
  IF Below(Whole(0), t.start) THEN Whole(0)
  ELSE IF t.duration = Whole(0) THEN Whole(1)
  ELSE ToUnit(Over(Minus(Whole(0), t.start), t.duration))

Interpolable(v, w) == v # NotANumber /\ w # NotANumber

Interpolate(from, to, progress) == Plus(from, Times(progress, Minus(to, from)))

\* calculate_value.
ValueOf(t) == Interpolate(t.from, t.to, Progress(t))

HasEnded(t) == AtMost(Plus(t.start, t.duration), Whole(0))

\* Mutant: the new factor is the progress of the old transition.
ShorteningFactor_ProgressOnly(old) == Progress(old)

ShorteningFactor(old) ==
  LET f == old.reversingShorteningFactor
  IN ToUnit(Plus(Times(Progress(old), f), Minus(Whole(1), f)))

\* update_for_possibly_reversed_transition: back over the part of the way
\* that is done, in that part of the time.
Reversed(new, old, s) ==
  LET factor == ShorteningFactor(old)
  IN IF old.reversingAdjustedStartValue # new.to THEN new
     ELSE [new EXCEPT
             !.reversingAdjustedStartValue = old.to,
             !.reversingShorteningFactor = factor,
             !.start = IF s.delay >= 0 THEN Whole(s.delay) ELSE Times(factor, Whole(s.delay)),
             !.duration = Times(@, factor),
             !.from = ValueOf(old)]

-----------------------------------------------------------------------------
(* The transitions of a set.                                                *)

Canceled(set, i) ==
  [set EXCEPT !.transitions[i] = WithState(@, "Canceled"), !.dirty = TRUE]

Pushed(set, t) == [set EXCEPT !.transitions = Append(@, t), !.dirty = TRUE]

\* cancel_active_transitions: all that are not finished.
CancelActiveTransitions(set) ==
  [set EXCEPT
     !.transitions = [i \in DOMAIN @ |-> IF @[i].state = "Finished" THEN @[i] ELSE WithState(@[i], "Canceled")],
     !.dirty = @ \/ \E i \in DOMAIN set.transitions : set.transitions[i].state # "Finished"]

HasActiveTransition(set) == \E i \in DOMAIN set.transitions : set.transitions[i].state # "Canceled"

\* get_value_map_for_transitions: the last that is in none of the ignored states gives the value.
ShownByTransitions(set, ignored, value) ==
  FoldLeft(LAMBDA v, t : IF t.state \in ignored THEN v ELSE ValueOf(t), value, set.transitions)

SpecifiesTransitions(s) == s.duration + s.delay > 0

\* The transition i is cancelled and t takes its place.
StartTransition(set, i, t) == Pushed(Canceled(set, i), t)

\* The running transition i goes elsewhere than the after-change value, to.
ReplaceTransition(set, i, s, from, to) ==
  LET existing == set.transitions[i]
      current == ValueOf(existing)
  IN IF current = to \/ ~ Interpolable(from, to) \/ s.duration + s.delay <= 0
     THEN Canceled(set, i)
     ELSE StartTransition(set, i,
            IF existing.reversingAdjustedStartValue = to
            THEN Reversed(NewTransition(s, from, to), existing, s)
            ELSE NewTransition(s, current, to))

\* Mutant: a transition also begins where it ends.
CanStart_SameValue(s, from, to) == Interpolable(from, to) /\ s.duration + s.delay > 0

CanStart(s, from, to) == from # to /\ Interpolable(from, to) /\ s.duration + s.delay > 0

\* start_transition_if_applicable, from the before-change value to the after-change one.
StartTransitionIfApplicable(set, s, from, to) ==
  LET existing == SelectInSeq(set.transitions, LAMBDA t : TRUE)
      running == existing # 0 /\ Active(set.transitions[existing])
      completedAtEnd == /\ existing # 0
                        /\ set.transitions[existing].state = "Finished"
                        /\ set.transitions[existing].to = to
  IN CASE ~ running /\ CanStart(s, from, to) /\ ~ completedAtEnd
            -> Pushed(set, NewTransition(s, from, to))
       [] running /\ set.transitions[existing].to # to
            -> ReplaceTransition(set, existing, s, from, to)
       [] OTHER -> set

\* Mutant: the cancellation is not noted.
CancelUnlisted_Unnoted(set) ==
  [set EXCEPT !.transitions =
     [i \in DOMAIN @ |-> IF Active(@[i]) THEN WithState(@[i], "Canceled") ELSE @[i]]]

\* A property that transitions no longer: its running transitions end.
CancelUnlisted(set) ==
  [set EXCEPT
     !.transitions = [i \in DOMAIN @ |-> IF Active(@[i]) THEN WithState(@[i], "Canceled") ELSE @[i]],
     !.dirty = @ \/ \E i \in DOMAIN set.transitions : Active(set.transitions[i])]
=============================================================================
