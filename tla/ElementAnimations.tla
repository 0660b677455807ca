-------------------------- MODULE ElementAnimations --------------------------
(***************************************************************************)
(* The animations and transitions of an element, in Servo, and what a       *)
(* restyle does with them: ElementAnimationSet in style/servo/animation.rs  *)
(* and process_animations_for_style in matching.rs. Styles change while     *)
(* they run; the embedder's clock starts, iterates and finishes them        *)
(* between restyles.                                                        *)
(***************************************************************************)
EXTENDS KeyframesAnimations

CONSTANTS
  Scenarios, \* sets of styles; a style is [value, listed, duration, delay, displayed, animations]
  NoStyle,
  ChangeMax  \* how often the style changes

ASSUME ScenariosAssumption ==
  /\ ChangeMax \in Nat
  /\ \A s \in UNION Scenarios :
       /\ s.value = NotANumber \/ IsFraction(s.value)
       /\ s.duration \in Nat /\ s.delay \in Int
       /\ s.listed \in BOOLEAN /\ s.displayed \in BOOLEAN
       /\ \A i \in DOMAIN s.animations : s.animations[i].duration \in Nat /\ s.animations[i].delay \in Int

VARIABLES
  styles,       \* the styles the element may be given
  style,        \* the element's style, without animations
  computed,     \* the value in its computed style, or NoStyle
  transitions,  \* ElementAnimationSet
  animations,
  dirty,
  phase,        \* where the embedder is: clean, ticked (a frame to render), restyled
  changes

vars == <<styles, style, computed, transitions, animations, dirty, phase, changes>>

TheSet == [transitions |-> transitions, animations |-> animations, dirty |-> dirty]

\* An element that is to be styled for the first time if its style has animations.
Init ==
  /\ styles \in Scenarios
  /\ style \in styles
  /\ computed = IF style.animations = <<>> THEN style.value ELSE NoStyle
  /\ transitions = <<>> /\ animations = <<>> /\ dirty = FALSE
  /\ phase = "clean"
  /\ changes = 0

-----------------------------------------------------------------------------
(* A restyle.                                                               *)

\* cancel_all_animations.
CancelAllAnimations(set) ==
  CancelActiveTransitions(
    [set EXCEPT !.animations = [i \in DOMAIN @ |-> WithState(@[i], "Canceled")],
                !.dirty = set.animations # <<>>])

\* get_all_declarations, in the cascade: those of transitions win.
Shown(set, value) ==
  ShownByTransitions(set, {"Canceled", "Finished"}, ShownByAnimations(set, value))

\* apply_active_animations, over the old style: the before-change style.
BeforeChange(set, value) == ShownByTransitions(set, {"Canceled"}, ShownByAnimations(set, value))

NeedsAnimationsUpdate(s) ==
  CASE s.animations = <<>> /\ ~ HasActiveAnimation(TheSet) -> FALSE
    [] computed = NoStyle -> s.animations # <<>>
    [] s.animations # style.animations -> TRUE
    [] s.displayed /\ ~ style.displayed -> s.animations # <<>>
    [] ~ s.displayed /\ style.displayed -> HasActiveAnimation(TheSet)
    [] OTHER -> FALSE

MightNeedTransitionsUpdate(s) ==
  /\ computed # NoStyle /\ style.displayed
  /\ HasActiveTransition(TheSet) \/ SpecifiesTransitions(s)

\* update_transitions_for_new_style, to the after-change value.
UpdateTransitionsForNewStyle(set, s, to) ==
  CASE computed = NoStyle -> set
    [] computed # NoStyle /\ ~ s.displayed -> CancelActiveTransitions(set)
    [] computed # NoStyle /\ s.displayed /\ ~ MightNeedTransitionsUpdate(s) -> set
    [] OTHER -> IF s.listed THEN StartTransitionIfApplicable(set, s, BeforeChange(set, computed), to)
                            ELSE CancelUnlisted(set)

WithoutFinished(set) ==
  [set EXCEPT !.transitions = SelectSeq(@, LAMBDA t : t.state # "Finished"),
              !.animations = SelectSeq(@, LAMBDA a : a.state # "Finished")]

\* process_animations_for_style.
UpdatedSet(s) ==
  LET animated == IF NeedsAnimationsUpdate(s) THEN UpdateAnimationsForNewStyle(TheSet, s) ELSE TheSet
  IN WithoutFinished(UpdateTransitionsForNewStyle(animated, s, ShownByAnimations(TheSet, s.value)))

\* The cascade, with the declarations that the set gives before the update, then
\* process_animations_for_style, and the cascade again if that changed the set.
RestyleWith(s, updated) ==
  /\ style' = s
  /\ computed' = Shown(IF updated.dirty THEN updated ELSE TheSet, s.value)
  /\ transitions' = updated.transitions /\ animations' = updated.animations
  /\ dirty' = FALSE
  /\ phase' = "restyled"
  /\ UNCHANGED styles

Restyle(s) ==
  /\ phase \in {"clean", "ticked"}
  /\ RestyleWith(s, UpdatedSet(s))

RestyleChanged ==
  /\ changes < ChangeMax
  /\ \E s \in styles \ {style} : Restyle(s)
  /\ changes' = changes + 1

\* For another reason, or because the element is inserted.
RestyleUnchanged == Restyle(style) /\ UNCHANGED changes

\* The element leaves the document: the embedder cancels its animations, and its style is dropped.
Disconnect ==
  /\ phase # "restyled" /\ computed # NoStyle
  /\ changes < ChangeMax
  /\ transitions' = CancelAllAnimations(TheSet).transitions
  /\ animations' = CancelAllAnimations(TheSet).animations
  /\ dirty' = CancelAllAnimations(TheSet).dirty
  /\ computed' = NoStyle
  /\ phase' = "restyled"
  /\ changes' = changes + 1
  /\ UNCHANGED <<styles, style>>

\* The embedder goes over the sets after each reflow, and has the cancelled ones cleared.
PostReflow ==
  /\ phase = "restyled"
  /\ transitions' = SelectSeq(transitions, LAMBDA t : t.state # "Canceled")
  /\ animations' = SelectSeq(animations, LAMBDA a : a.state # "Canceled")
  /\ phase' = "clean"
  /\ UNCHANGED <<styles, style, computed, dirty, changes>>

-----------------------------------------------------------------------------
(* The clock.                                                               *)

NeedsToBeTicked(a) == a.state \in {"Pending", "Running"}

NeedsAnimationTicks == \E a \in ToSet(transitions) \cup ToSet(animations) : NeedsToBeTicked(a)

Ticked(t, time) ==
  LET moved == [t EXCEPT !.start = Minus(@, Whole(time))]
  IN IF moved.state = "Finished" THEN moved
     ELSE WithState(moved, IF HasEnded(moved) THEN "Finished"
                           ELSE IF AtMost(moved.start, Whole(0)) THEN "Running" ELSE moved.state)

\* Started, iterated at most once, finished. The start of a paused one is set
\* anew before it is read: it goes back no further than about a duration.
TickedAnimation(a, time) ==
  LET iterated == IterateIfNecessary(StartedIfDue([a EXCEPT !.start = Minus(@, Whole(time))]))
  IN IF a.state = "Paused" /\ Below(Plus(a.start, a.duration), Whole(0)) THEN a
     ELSE IF iterated.state = "Running" /\ AnimationHasEnded(iterated) THEN WithState(iterated, "Finished")
     ELSE iterated

\* The clock goes on, late at times, and a frame has to be rendered.
Tick(time) ==
  /\ phase = "clean" /\ NeedsAnimationTicks
  /\ transitions' = [i \in DOMAIN transitions |-> Ticked(transitions[i], time)]
  /\ animations' = [i \in DOMAIN animations |-> TickedAnimation(animations[i], time)]
  /\ phase' = "ticked"
  /\ UNCHANGED <<styles, style, computed, dirty, changes>>

Next ==
  \/ RestyleChanged \/ RestyleUnchanged
  \/ Disconnect
  \/ PostReflow
  \/ \E time \in 1..2 : Tick(time)

\* The display goes on to show frames as long as an animation needs them,
\* whatever reflows scripts ask for in between; a frame and a reflow end.
Frame  == phase = "clean" /\ NeedsAnimationTicks /\ phase' = "ticked"
Render == phase = "ticked" /\ phase' = "restyled"
Finish == phase = "restyled" /\ phase' = "clean"
Fairness == SF_phase(Frame) /\ WF_phase(Render) /\ WF_phase(Finish)

Spec == Init /\ [][Next]_vars /\ Fairness

-----------------------------------------------------------------------------
(* Properties.                                                              *)

State == {"Pending", "Running", "Paused", "Finished", "Canceled"}

TypeOK ==
  /\ style \in styles
  /\ computed = NoStyle \/ computed = NotANumber \/ IsFraction(computed)
  /\ \A t \in ToSet(transitions) :
       /\ t.state \in State \ {"Paused"}
       /\ \A x \in {t.start, t.duration, t.from, t.to, t.reversingShorteningFactor} : IsFraction(x)
  /\ \A a \in ToSet(animations) :
       a.state \in State /\ \A x \in {a.start, a.duration, a.progress, a.current} : IsFraction(x)
  /\ dirty \in BOOLEAN
  /\ phase \in {"clean", "ticked", "restyled"}
  /\ changes \in 0..ChangeMax

\* At most one transition runs, however often it is replaced between two
\* frames; and the shortening factor of a transition is exactly the part of
\* the way between its adjusted start and its end that it goes, so that a
\* transition that is reversed again and again keeps its speed ("used to
\* help produce better reversed transitions").
TransitionsSound ==
  /\ \A i, j \in DOMAIN transitions : Active(transitions[i]) /\ Active(transitions[j]) => i = j
  /\ \A t \in ToSet(transitions) :
       Minus(t.to, t.from) = Times(t.reversingShorteningFactor, Minus(t.to, t.reversingAdjustedStartValue))

\* A name is animated once, as the style has it, and paused exactly when the style says so; a finite
\* animation has iterations left and goes in the direction that its iteration has, however it was
\* created in the middle, paused, resumed or cut short.
KeyframesSound ==
  /\ \A i, j \in DOMAIN animations :
       animations[i].name = animations[j].name /\ animations[i].state # "Canceled"
         /\ animations[j].state # "Canceled" => i = j
  /\ \A a \in ToSet(animations) : phase = "restyled" /\ Active(a) =>
       \E d \in ToSet(style.animations) : d.name = a.name /\ (a.state = "Paused" <=> d.paused)
  /\ \A a \in ToSet(animations) : ~ a.infinite /\ a.state # "Canceled" =>
       /\ Below(a.current, a.count) \/ AnimationHasEnded(WithState(a, "Running"))
       /\ a.reversed <=> (StartsReversed(a.direction) # (Alternates(a.direction) /\ a.current[1] % 2 = 1))

\* The state has its type, and both kinds of animation are sound.
AnimationsSound == TypeOK /\ TransitionsSound /\ KeyframesSound

\* After a restyle the computed style has what the animations give at that
\* time: the style is cascaded again whenever they changed (dirty). It does not
\* when an animation is cancelled and none is started, nor when one that fills
\* forwards is over: the main run has no such styles.
ComputedUpToDate ==
  phase = "restyled" /\ computed # NoStyle => computed = Shown(TheSet, style.value)

\* Whether an animation has begun and has not come to its end.
InEffect(a) ==
  a.state \in {"Running", "Paused"} /\ AtMost(Whole(0), ProgressOf(a)) /\ ~ AnimationHasEnded(a)

\* A style change never makes a value jump that has a transition after it,
\* unless the transition is to begin in its middle: it starts with what was
\* shown before, also if it replaces or reverses one that was not done. Nor
\* does the value of an animation that goes on jump when it is paused or
\* resumed or may iterate more or less often; but with another duration it does.
NoJump ==
  [][phase' = "restyled" /\ computed # NoStyle /\ computed' # NoStyle =>
       /\ style'.delay >= 0 /\ (\E t \in ToSet(transitions') : Active(t))
            => computed' = BeforeChange(TheSet, computed)
       /\ \A a \in ToSet(animations), b \in ToSet(animations') :
            a.name = b.name /\ a.delay = b.delay /\ InEffect(a) /\ InEffect(b)
              /\ (a.duration = b.duration \/ "Paused" \in {a.state, b.state})
            => AnimatedValue(a) = AnimatedValue(b)]_vars

\* When the style changes no more, the element comes to have it: nothing is animated on but what the style
\* lets go on for ever.
Settles ==
  <>[](/\ NeedsAnimationTicks => \E a \in ToSet(animations) : a.infinite
       /\ computed \in {NoStyle, style.value} \/ HasActiveAnimation(TheSet))
=============================================================================
