-------------------------------- MODULE Ticks --------------------------------
(***************************************************************************)
(* Arithmetic on integer ticks that the ledger and the candles share.      *)
(***************************************************************************)
EXTENDS Integers

Smaller(a, b) == IF a < b THEN a ELSE b
Larger(a, b) == IF a < b THEN b ELSE a
Abs(n) == IF n < 0 THEN -n ELSE n

\* Python's round() of n / d: to the nearest integer, a half to the even one.
Round(n, d) ==
  LET down == n \div d
      rest == 2 * (n % d)
  IN  IF rest < d \/ (rest = d /\ down % 2 = 0) THEN down ELSE down + 1
=============================================================================
