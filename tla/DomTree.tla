------------------------------- MODULE DomTree -------------------------------
(* The tree of elements that a traversal sees: traversal_parent and          *)
(* traversal_children of TElement. It does not change during a traversal.    *)
EXTENDS Integers, Sequences, FiniteSets

CONSTANTS
  Element,
  Root,
  Children   \* [Element -> the elements below it, in order]

Kids(e) == {Children[e][i] : i \in DOMAIN Children[e]}

\* Every element but the root is a child once, and has the root above it.
ASSUME TreeAssumption ==
  /\ IsFiniteSet(Element)
  /\ Root \in Element
  /\ Children \in [Element -> Seq(Element)]
  /\ \A e \in Element : \A i, j \in DOMAIN Children[e] :
       Children[e][i] = Children[e][j] => i = j
  /\ \A e \in Element \ {Root} : \E p \in Element : e \in Kids(p)
  /\ \A p, q \in Element : Kids(p) \cap Kids(q) # {} => p = q
  /\ \A p \in Element : Root \notin Kids(p)
  /\ \A s \in SUBSET Element : (s # {} /\ \A e \in s : \E p \in s : e \in Kids(p)) => s = {}

TraversalParent(e) == CHOOSE p \in Element : e \in Kids(p)

\* The elements above one, from the root down.
Chain[e \in Element] ==
  IF e = Root THEN <<>> ELSE Append(Chain[TraversalParent(e)], TraversalParent(e))

\* The elements below one: they are in every set with its children and with the children of its elements.
DescendantSets ==
  [a \in Element |->
     {d \in Element : \A s \in SUBSET Element :
        Kids(a) \subseteq s /\ (\A x \in s : Kids(x) \subseteq s) => d \in s}]
Descendants(a) == DescendantSets[a]

AncestorSets == [e \in Element |-> {a \in Element : e \in Descendants(a)}]
Ancestors(e) == AncestorSets[e]

Depth(e) == Cardinality(Ancestors(e))

\* The siblings after an element.
LaterSiblings(e) ==
  IF e = Root THEN {}
  ELSE LET all == Children[TraversalParent(e)]
       IN {all[j] : j \in {k \in DOMAIN all : \E i \in 1..(k - 1) : all[i] = e}}
=============================================================================
