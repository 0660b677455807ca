------------------------- MODULE KeyframesAnimations -------------------------
(***************************************************************************)
(* The CSS animations of an element, in Servo: Animation in                 *)
(* style/servo/animation.rs, its iterations, what it shows of one property, *)
(* and how a new style starts, updates and cancels it. A style's            *)
(* description of an animation is [name, duration, delay, infinite, count,  *)
(* direction, fill, paused]. Nothing depends on how often an infinite one   *)
(* has iterated.                                                            *)
(***************************************************************************)
EXTENDS Transitions

CONSTANTS
  Keyframes, \* [names of @keyframes -> Seq([at, defined, value])]: "from" to "to"
  NoValue

ASSUME KeyframesAssumption ==
  \A name \in DOMAIN Keyframes :
    LET k == Keyframes[name]
    IN /\ Len(k) >= 2 /\ k[1].at = Whole(0) /\ k[Len(k)].at = Whole(1)
       /\ \A i \in DOMAIN k : k[i].at[2] > 0 /\ (i > 1 => Below(k[i - 1].at, k[i].at))
       /\ k[1].defined /\ k[Len(k)].defined

Lesser(x, y) == IF AtMost(x, y) THEN x ELSE y

Alternates(d) == d \in {"alternate", "alternate-reverse"}
StartsReversed(d) == d \in {"reverse", "alternate-reverse"}

-----------------------------------------------------------------------------
(* Iterations.                                                              *)

RemainingIterations(a) == Minus(a.count, a.current)

CurrentIterationEndProgress(a) ==
  IF a.infinite THEN Whole(1) ELSE Lesser(RemainingIterations(a), Whole(1))

IterationOver(a) ==
  Below(Plus(a.start, Times(CurrentIterationEndProgress(a), a.duration)), Whole(0))

OnLastIteration(a) == ~ a.infinite /\ AtMost(RemainingIterations(a), Whole(1))

\* Progress within the iteration.
RunningProgress(a) == Over(Minus(Whole(0), a.start), a.duration)
ProgressOf(a) == IF a.state = "Paused" THEN a.progress ELSE RunningProgress(a)

AnimationHasEnded(a) ==
  OnLastIteration(a) /\
  CASE a.state = "Finished" -> TRUE
    [] a.state \in {"Running", "Paused"} -> AtMost(CurrentIterationEndProgress(a), ProgressOf(a))
    [] a.state \in {"Pending", "Canceled"} -> FALSE

\* How many whole iterations lie in n of them, short of the last one. A fraction's numerator has the sign.
WholeIterations(a, n) ==
  LET whole == IF n[1] < 0 THEN 0 ELSE n[1] \div n[2]
      most == -((-RemainingIterations(a)[1]) \div RemainingIterations(a)[2]) - 1
  IN IF a.infinite \/ whole < most THEN whole ELSE IF most < 1 THEN 0 ELSE most

\* iterate_by.
IterateBy(a, n) ==
  LET by == WholeIterations(a, n)
  IN [a EXCEPT
        !.current = IF a.infinite THEN @ ELSE Plus(@, Whole(by)),
        !.progress = IF a.state = "Paused" THEN Minus(@, Whole(by)) ELSE @,
        !.start = Plus(@, Times(a.duration, Whole(by))),
        !.reversed = IF Alternates(a.direction) /\ by % 2 = 1 THEN ~ @ ELSE @]

IterateIfNecessary(a) ==
  IF IterationOver(a) /\ a.state = "Running" THEN IterateBy(a, Whole(1)) ELSE a

-----------------------------------------------------------------------------
(* What an animation shows: get_property_declaration_at_time.               *)

\* The keyframe that counts for the property at keyframe i, looking forward or backward.
Defining(k, i, forward) ==
  IF k[i].defined THEN k[i]
  ELSE LET there == {j \in DOMAIN k : k[j].defined /\ IF forward THEN j > i ELSE j < i}
       IN k[IF forward THEN Min(there) ELSE Max(there)]

At(step, reversed) == IF reversed THEN Minus(Whole(1), step.at) ELSE step.at

ValueBetween(from, to, total, reversed) ==
  Interpolate(from.value, to.value,
    Over(Minus(total, At(from, reversed)), Minus(At(to, reversed), At(from, reversed))))

\* The keyframe the animation is on its way to.
NextKeyframe(k, total, reversed) ==
  IF reversed THEN Max({i \in DOMAIN k : AtMost(total, At(k[i], reversed))})
              ELSE Min({i \in DOMAIN k : Below(total, At(k[i], reversed))})

ValueToKeyframe(k, next, total, reversed) ==
  IF reversed /\ next = Len(k) THEN k[next].value
  ELSE ValueBetween(Defining(k, IF reversed THEN next + 1 ELSE next - 1, reversed),
                    Defining(k, next, ~ reversed), total, reversed)

ValueAt(k, total, reversed) ==
  IF total = Whole(1) THEN k[IF reversed THEN 1 ELSE Len(k)].value
  ELSE ValueToKeyframe(k, NextKeyframe(k, total, reversed), total, reversed)

ShowsNothing(a) ==
  \/ a.state = "Canceled"
  \/ Below(ProgressOf(a), Whole(0)) /\ a.fill \notin {"backwards", "both"}
  \/ AnimationHasEnded(a) /\ a.fill \notin {"forwards", "both"}

AnimatedValue(a) ==
  LET k == Keyframes[a.name]
  IN IF ShowsNothing(a) THEN NoValue
     ELSE IF Below(ProgressOf(a), Whole(0)) THEN k[IF a.reversed THEN Len(k) ELSE 1].value
     ELSE ValueAt(k, ToUnit(Lesser(ProgressOf(a), CurrentIterationEndProgress(a))), a.reversed)

-----------------------------------------------------------------------------
(* A new style: maybe_start_animations, update_from_other.                  *)

NewAnimation(d) ==
  LET startingProgress == Over(Whole(-d.delay), Whole(d.duration))
  IN IterateBy(
       [name |-> d.name, start |-> Whole(d.delay), duration |-> Whole(d.duration), delay |-> Whole(d.delay),
        fill |-> d.fill, infinite |-> d.infinite, current |-> Whole(0), count |-> d.count,
        state |-> IF d.paused THEN "Paused" ELSE "Pending",
        progress |-> IF d.paused THEN startingProgress ELSE Whole(0),
        direction |-> d.direction, reversed |-> StartsReversed(d.direction)],
       startingProgress)

Paused(a, progress) == [a EXCEPT !.state = "Paused", !.progress = progress]

\* Straight to running, without a second animationstart event.
StartedIfDue(a) ==
  IF a.state = "Pending" /\ AtMost(a.start, Whole(0)) THEN WithState(a, "Running") ELSE a

\* The delay changed, and the start with it.
WithOtherDelay(a, old) ==
  LET moved == [a EXCEPT !.reversed = old.reversed, !.start = Plus(old.start, Minus(a.delay, old.delay))]
      pausedAt == Plus(old.progress, Over(Minus(old.delay, a.delay), a.duration))
      anew == [moved EXCEPT !.current = Whole(0),
                            !.progress = IF a.state = "Paused" THEN RunningProgress(moved) ELSE @]
  IN StartedIfDue(
       CASE old.state = "Paused" ->
              Paused(IterateBy(moved, pausedAt), Minus(pausedAt, Whole(WholeIterations(moved, pausedAt))))
         [] old.state = "Finished" ->
              WithState(moved, IF AnimationHasEnded(moved) THEN "Finished"
                               ELSE IF AtMost(moved.start, Whole(0)) THEN "Running" ELSE "Pending")
         [] OTHER -> IterateBy(anew, RunningProgress(anew)))

\* Mutant: an animation that is resumed has run on while it was paused.
Resumed_RunOn(a, old) ==
  CASE a.state = "Paused" /\ old.state = "Paused" -> Paused(a, old.progress)
    [] a.state = "Paused" /\ old.state = "Running" -> Paused(a, RunningProgress(old))
    [] OTHER -> a

\* Pausing keeps the progress, resuming moves the start so that it goes on from there.
Resumed(a, old) ==
  CASE a.state = "Pending" /\ old.state = "Paused" ->
         [a EXCEPT !.start = Times(a.duration, Minus(Whole(0), old.progress))]
    [] a.state = "Paused" /\ old.state = "Paused" -> Paused(a, old.progress)
    [] a.state = "Paused" /\ old.state = "Running" -> Paused(a, RunningProgress(old))
    [] OTHER -> a

WithSameDelay(a, old) ==
  LET kept == [a EXCEPT !.reversed = old.reversed, !.start = old.start,
                        !.current = IF a.infinite \/ old.infinite THEN @ ELSE old.current]
      stays == old.state = "Finished" /\ AnimationHasEnded(WithState(kept, "Running"))
      resumed == Resumed(IF stays THEN WithState(kept, "Finished") ELSE kept, old)
  IN IF old.state = "Pending" THEN resumed ELSE StartedIfDue(resumed)

UpdateFromOther(old, a) == IF a.delay # old.delay THEN WithOtherDelay(a, old) ELSE WithSameDelay(a, old)

IsCancelledInNewStyle(a, s) ==
  LET index == SelectInSeq(s.animations, LAMBDA d : d.name = a.name)
  IN index = 0 \/ s.animations[index].duration = 0

\* The first that is there already is updated, and the rest of the style's animations are not looked at.
MaybeStartAnimations(set, s) ==
  FoldLeft(LAMBDA found, d :
             LET existing == SelectInSeq(found.set.animations,
                               LAMBDA a : a.state # "Canceled" /\ a.name = d.name)
             IN IF found.updated \/ d.duration = 0 \/ d.name \notin DOMAIN Keyframes THEN found
                ELSE IF existing = 0
                THEN [found EXCEPT !.set.animations = Append(@, NewAnimation(d)), !.set.dirty = TRUE]
                ELSE [updated |-> TRUE,
                      set |-> [found.set EXCEPT
                                 !.animations = [i \in DOMAIN @ |->
                                   IF i = existing THEN UpdateFromOther(@[i], NewAnimation(d)) ELSE @[i]],
                                 !.dirty = TRUE]],
           [set |-> set, updated |-> FALSE], s.animations).set

\* Those that the style does not list any more are cancelled, which does not make the set dirty.
UpdateAnimationsForNewStyle(set, s) ==
  MaybeStartAnimations(
    [set EXCEPT !.animations =
       [i \in DOMAIN @ |-> IF IsCancelledInNewStyle(@[i], s) THEN WithState(@[i], "Canceled") ELSE @[i]]],
    s)

HasActiveAnimation(set) == \E i \in DOMAIN set.animations : set.animations[i].state # "Canceled"

ValueOver(under, value) == IF value = NoValue THEN under ELSE value

\* get_value_map_for_active_animations.
ShownByAnimations(set, value) ==
  FoldLeft(LAMBDA v, a : ValueOver(v, AnimatedValue(a)), value, set.animations)
=============================================================================
