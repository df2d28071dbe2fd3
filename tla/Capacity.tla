------------------------------- MODULE Capacity -------------------------------
(***************************************************************************)
(* Multi-dimensional amounts, include/capacity_fabric/capacity/capacity.hpp *)
(* and CapacityDelta of timeline/timeline.hpp.                             *)
(*                                                                         *)
(* A capacity is a function whose domain is the set of dimensions present  *)
(* in amounts_: a dimension may be present with amount 0 (add and          *)
(* subtractClamp leave it) or absent (setAmount erases a zero), and the    *)
(* code does not always treat the two alike.  Amounts are integers, finite *)
(* doubles small enough for exact sums: numbers of 1/Unit-ths of the       *)
(* dimension's natural unit, so that a conversion to uint64_t can lose a   *)
(* fraction.                                                               *)
(***************************************************************************)
EXTENDS Integers

\* One dimension of each kind the code tells apart: a count, bytes, a rate.
Dimensions == {"acc", "vram", "bw"}

CONSTANTS MaxAmount,    \* bound: the largest amount a published fact carries
          Unit          \* how many amounts make one byte or device
ASSUME MaxAmountNat == MaxAmount \in Nat
ASSUME UnitPositive == Unit \in Nat \ {0}

CapacitySpace == UNION {[S -> 0 .. MaxAmount] : S \in SUBSET Dimensions}

NoCapacity == [d \in {} |-> 0]

\* Capacity::amount and CapacityDelta::at
Amount(c, d) == IF d \in DOMAIN c THEN c[d] ELSE 0

\* Mutants of Whole: rounding up, and forgetting the unit.
WholeUp(v) == Unit * ((v + Unit - 1) \div Unit)
WholeUnscaled(v) == v \div Unit

\* static_cast<uint64_t> of a double: Capacity::vram, and save's counts.
Whole(v) == Unit * (v \div Unit)

NonNegative(x) == IF x > 0 THEN x ELSE 0

Lesser(x, y) == IF x < y THEN x ELSE y

\* Capacity::setAmount: a negative amount is refused, a zero erases.
setAmount(c, d, v) ==
    IF v < 0 THEN c
    ELSE [e \in (DOMAIN c \ {d}) \cup (IF v > 0 THEN {d} ELSE {}) |->
            IF e = d THEN v ELSE c[e]]

\* Capacity::add
Plus(c, o) == [d \in DOMAIN c \cup DOMAIN o |-> Amount(c, d) + Amount(o, d)]

subtractClamp(c, o) ==
    [d \in DOMAIN c \cup DOMAIN o |-> NonNegative(Amount(c, d) - Amount(o, d))]

satisfies(c, requirement) ==
    \A d \in DOMAIN requirement : Amount(c, d) >= requirement[d]

missingDimensions(c, requirement) ==
    {d \in DOMAIN requirement : Amount(c, d) < requirement[d]}

\* Capacity::min: a dimension only the second operand has keeps its amount.
MinCap(c, o) ==
    [d \in DOMAIN c \cup DOMAIN o |->
        IF d \in DOMAIN c THEN Lesser(c[d], Amount(o, d)) ELSE o[d]]

\* applyDelta of timeline.hpp: per dimension, clamp at zero, then setAmount.
applyDelta(c, delta) ==
    LET next(d) == NonNegative(Amount(c, d) + delta[d])
    IN  [d \in (DOMAIN c \ DOMAIN delta) \cup {e \in DOMAIN delta : next(e) > 0} |->
            IF d \in DOMAIN delta THEN next(d) ELSE c[d]]

negate(delta) == [d \in DOMAIN delta |-> -delta[d]]

=============================================================================
