------------------------- MODULE MCElementAnimations -------------------------
(* Styles for TLC.                                                           *)
EXTENDS ElementAnimations

-----------------------------------------------------------------------------
(* Transitions: three numbers and a value that is none, with transitions of  *)
(* different lengths, one after a delay, one that begins in its middle, none *)
(* in no time, none at all.                                                  *)

Plain == [value |-> Whole(0), listed |-> TRUE, duration |-> 4, delay |-> 0, displayed |-> TRUE,
          animations |-> <<>>]

Timings == {<<4, 0>>, <<2, 1>>, <<4, -1>>, <<0, 0>>}

NumberStyles ==
  {[Plain EXCEPT !.value = Whole(v), !.duration = t[1], !.delay = t[2]] :
     v \in {0, 4, 8}, t \in Timings}

OtherStyles ==
  {[Plain EXCEPT !.value = NotANumber], [Plain EXCEPT !.displayed = FALSE],
   [Plain EXCEPT !.listed = FALSE], [Plain EXCEPT !.value = Whole(4), !.listed = FALSE]}

-----------------------------------------------------------------------------
(* Animations.                                                               *)

Frames(steps) == [i \in DOMAIN steps |-> [at |-> steps[i][1], defined |-> steps[i][2], value |-> Whole(steps[i][3])]]

\* Keyframes in the middle, of which one does not define the property.
SomeKeyframes ==
  [grow |-> Frames(<<<<Whole(0), TRUE, 0>>, <<<<1, 4>>, FALSE, 0>>, <<<<1, 2>>, TRUE, 8>>, <<Whole(1), TRUE, 12>>>>),
   blink |-> Frames(<<<<Whole(0), TRUE, 2>>, <<Whole(1), TRUE, 6>>>>)]

Grow == [name |-> "grow", duration |-> 4, delay |-> 0, infinite |-> FALSE, count |-> Whole(2),
         direction |-> "alternate", fill |-> "none", paused |-> FALSE]

Blink == [Grow EXCEPT !.name = "blink", !.direction = "reverse", !.infinite = TRUE, !.duration = 2]

Animated(a) == [Plain EXCEPT !.duration = 0, !.value = Whole(1), !.animations = <<a>>]

\* Paused and resumed, shorter and longer, at a fraction of an iteration; not displayed.
PausedStyles ==
  {Animated([Grow EXCEPT !.paused = p, !.count = n]) : p \in BOOLEAN, n \in {Whole(1), Whole(3), <<3, 2>>}}
  \cup {Animated([Grow EXCEPT !.paused = p, !.duration = 2]) : p \in BOOLEAN}
  \cup {Animated([Blink EXCEPT !.paused = p]) : p \in BOOLEAN}
  \cup {[Animated(Grow) EXCEPT !.displayed = FALSE]}

\* One iteration, with other delays, and one that begins in its second.
DelayedStyles ==
  {Animated([Grow EXCEPT !.delay = d, !.count = Whole(1), !.fill = f]) : d \in {0, 2, -1}, f \in {"none", "backwards"}}
  \cup {Animated([Blink EXCEPT !.infinite = FALSE, !.delay = -3, !.direction = "alternate-reverse"])}

\* Two at a time, of which the first is paused and resumed.
BothStyles ==
  {[Animated([Grow EXCEPT !.paused = p]) EXCEPT !.animations = Append(@, Blink), !.value = Whole(v)] :
     p \in BOOLEAN, v \in {1, 5}}

SomeScenarios == {NumberStyles \cup OtherStyles, PausedStyles, DelayedStyles, BothStyles}

\* An animation, and none.
RemovedStyles == {Animated(Grow), [Animated(Grow) EXCEPT !.animations = <<>>]}

RemovedScenarios == {RemovedStyles}
=============================================================================
