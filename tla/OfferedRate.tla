---------------------------- MODULE OfferedRate ----------------------------
(***************************************************************************)
(* The arithmetic of the open-loop schedule of                             *)
(* instrumentation/reference/src/bin/sustained-corpus-probe.rs: an offered *)
(* rate is an exact rational numerator/denominator in lowest terms, slot k *)
(* is due at floor(k * 1e9 * denominator / numerator) nanoseconds, and a   *)
(* duration holds ceil(duration * numerator / denominator) slots.  A tick  *)
(* stands for the nanosecond, and a second has `ticks' of them.            *)
(***************************************************************************)
EXTENDS Naturals

\* gcd: what the loop of the code computes.
Gcd(left, right) ==
    LET common == {d \in 1 .. left : left % d = 0 /\ right % d = 0}
    IN  CHOOSE d \in common : \A e \in common : e <= d

\* parse, once the decimal is read as numerator / denominator: refused when it
\* is zero or beyond one request per tick, and else reduced to lowest terms.
Acceptable(numerator, denominator, ticks) ==
    numerator > 0 /\ numerator <= ticks * denominator

Reduced(numerator, denominator) ==
    LET divisor == Gcd(numerator, denominator)
    IN  [num |-> numerator \div divisor, den |-> denominator \div divisor]

\* Seeded fault: the slots of a duration are rounded down.
SlotsRoundedDown(rate, seconds) == (seconds * rate.num) \div rate.den

SlotsFor(rate, seconds) == (seconds * rate.num + rate.den - 1) \div rate.den

\* Seeded fault: the period is rounded before it is multiplied by the slot.
OffsetOfRoundedPeriod(rate, ticks, slot) == slot * ((ticks * rate.den) \div rate.num)

OffsetFor(rate, ticks, slot) == (slot * ticks * rate.den) \div rate.num
=============================================================================
