--------------------------- MODULE TraversalOrder ---------------------------
(***************************************************************************)
(* What a traversal of the tree promises, whoever does the work: it goes    *)
(* down from where it starts, to each element at most once and after the    *)
(* element's parent has asked for it; and on the way up it comes to an      *)
(* element once, after all the children that were asked for.                *)
(***************************************************************************)
CONSTANTS Element

VARIABLES
  asked,  \* the elements that are to be visited
  down,   \* those visited before their children
  noted,  \* [Element -> the children each has asked for]
  up      \* those visited after their children

ovars == <<asked, down, noted, up>>

OrderInit ==
  /\ \E e \in Element : asked = {e}
  /\ down = {} /\ up = {}
  /\ noted = [e \in Element |-> {}]

\* Visit e, which asks for some children, all for the first time.
GoDown(e) ==
  /\ e \in asked \ down
  /\ asked \subseteq asked' /\ asked' \subseteq Element
  /\ down' = down \cup {e}
  /\ noted' = [noted EXCEPT ![e] = asked' \ asked]
  /\ UNCHANGED up

ComeUp(e) ==
  /\ e \in down \ up
  /\ noted[e] \subseteq up
  /\ up' = up \cup {e}
  /\ UNCHANGED <<asked, down, noted>>

OrderNext == \E e \in Element : GoDown(e) \/ ComeUp(e)

OrderSpec == OrderInit /\ [][OrderNext]_ovars
=============================================================================
