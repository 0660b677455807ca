------------------------------ MODULE Fractions ------------------------------
(* Exact arithmetic on fractions <<n, d>> in lowest terms, d > 0, for times, *)
(* progress and values that are floating point numbers in the code.          *)
EXTENDS Integers, FiniteSetsExt

IsFraction(x) == x \in Int \X (Nat \ {0})

DividedBy(n, d, k) == <<n \div k, d \div k>>

LowestTerms(n, d) == DividedBy(n, d, Max({k \in 1..d : n % k = 0 /\ d % k = 0}))

Whole(n) == <<n, 1>>
Plus(x, y)  == LowestTerms(x[1] * y[2] + y[1] * x[2], x[2] * y[2])
Minus(x, y) == LowestTerms(x[1] * y[2] - y[1] * x[2], x[2] * y[2])
Times(x, y) == LowestTerms(x[1] * y[1], x[2] * y[2])
Over(x, y)  == LET sign == IF y[1] > 0 THEN 1 ELSE -1
               IN LowestTerms(sign * x[1] * y[2], sign * x[2] * y[1])

AtMost(x, y) == x[1] * y[2] <= y[1] * x[2]
Below(x, y)  == x[1] * y[2] < y[1] * x[2]

ToUnit(x) == IF Below(x, Whole(0)) THEN Whole(0) ELSE IF Below(Whole(1), x) THEN Whole(1) ELSE x
=============================================================================
