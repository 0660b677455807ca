------------------------ MODULE MCElementInvalidation ------------------------
EXTENDS ElementInvalidation

\* r has a, b, c; b has d, e; e has f.
MCElement == {"r", "a", "b", "c", "d", "e", "f"}
MCChildren ==
  [x \in MCElement |-> CASE x = "r" -> <<"a", "b", "c">> [] x = "b" -> <<"d", "e">>
                         [] x = "e" -> <<"f">> [] OTHER -> <<>>]

MCName == {"root", "x", "y", "z", "i", "p", "h", "t"}
MCKind == [n \in MCName |->
  CASE n = "root" -> "root" [] n \in {"x", "y", "z"} -> "class" [] n = "i" -> "id" [] n = "p" -> "type"
    [] n = "h" -> "state" [] n = "t" -> "rare"]

\* Selectors as they are read: s(left to right) of compounds and combinators.
C(ns) == [i \in DOMAIN ns |-> Simple(ns[i])]
One(c) == <<[has |-> c, comb |-> "none"]>>
Two(c, comb, d) == <<[has |-> d, comb |-> comb], [has |-> c, comb |-> "none"]>>
Three(c, k, d, l, e) == <<[has |-> e, comb |-> l]>> \o Two(c, k, d)

X == C(<<"x">>)
Y == C(<<"y">>)
Z == C(<<"z">>)
H == C(<<"h">>)

\* Chains of combinators.
Plain == {
  {Three(X, "descendant", Y, "descendant", Z)},
  {Three(X, "child", Y, "descendant", Z)},
  {Three(X, "later", Y, "descendant", Z)},
  {Three(X, "next", Y, "later", Z)},
  {Three(X, "descendant", Y, "child", Z), Two(X, "later", C(<<"z", "h">>))},
  {Three(X, "descendant", Y, "next", Z)},
  {Three(X, "later", Y, "later", Z)},
  {Three(X, "child", Y, "later", Z)},
  {Three(C(<<"root">>), "child", C(<<"y", "h">>), "descendant", C(<<"p">>)), Two(C(<<"i">>), "next", C(<<"t">>))}}

\* Selectors in lists, which may have combinators of their own.
Nested == {
  {Two(<<Is(<<Two(X, "descendant", Y)>>)>>, "descendant", Z)},
  {Two(<<Not(<<Two(X, "descendant", Y)>>)>>, "child", Z)},
  {One(Z \o <<Not(<<Two(X, "later", Y), One(H)>>)>>)},
  {One(<<Is(<<One(X), Two(Y, "child", Z)>>)>>)},
  {Two(<<Is(<<One(X), One(H)>>)>>, "later", <<Is(<<One(Z)>>)>>), Two(<<Is(<<One(X), One(Y)>>)>>, "descendant", Z)},
  {One(<<Is(<<Two(<<Not(<<Two(X, "child", Y)>>)>>, "later", Z)>>)>>)},
  {Two(<<Is(<<Three(X, "descendant", Y, "descendant", Z)>>)>>, "descendant", C(<<"p">>))}}

MCSheets == Plain \cup Nested

Named(r, a, b, c, d, e, f) ==
  [x \in MCElement |-> CASE x = "r" -> r \cup {"root"} [] x = "a" -> a [] x = "b" -> b [] x = "c" -> c \cup {"p"}
                         [] x = "d" -> d [] x = "e" -> e [] x = "f" -> f \cup {"p"}]

\* Most selectors match in the first, none in the second.
MCInitialNames == {
  Named({"x"}, {"x", "i"}, {"y", "t"}, {"z"}, {"x", "y"}, {"y", "h"}, {"z"}),
  Named({}, {}, {"h"}, {"z"}, {}, {"z"}, {"z", "h"})}
MCMayChange ==
  [x \in MCElement |-> CASE x = "r" -> {"x"} [] x = "a" -> {"x", "i"} [] x = "b" -> {"x", "y", "h"} [] x = "c" -> {"z"}
                         [] x = "d" -> {"y"} [] x = "e" -> {"y", "z"} [] x = "f" -> {"z", "h"}]
MCMayHint == {"b", "e"}
=============================================================================
