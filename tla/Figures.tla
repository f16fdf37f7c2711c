------------------------------ MODULE Figures ------------------------------
(***************************************************************************)
(* The arithmetic of the figures the program shows: Decimal rounding,      *)
(* quotients that are 0 where there is nothing to divide by, and the rows  *)
(* and totals of tables.  Money is in kuruş (1/100), a percentage in 1/100 *)
(* of a percent.                                                           *)
(***************************************************************************)
LOCAL INSTANCE Integers
LOCAL INSTANCE FiniteSets
LOCAL INSTANCE FiniteSetsExt

\* Decimal.quantize of n / d: the nearest integer, of two the even one.
HalfEven(n, d) ==
  LET q == n \div d  r == 2 * (n % d) IN
  IF r > d \/ (r = d /\ q % 2 = 1) THEN q + 1 ELSE q
\* The same away from zero at a tie, as reports are printed; d is positive.
HalfUp(n, d) == IF n >= 0 THEN (2 * n + d) \div (2 * d) ELSE -((d - 2 * n) \div (2 * d))

Quotient(n, d) == IF d = 0 THEN 0 ELSE HalfEven(n, d)
Percent(n, d)  == Quotient(10000 * n, d)

SumOf(rows, value(_)) == MapThenSumSet(value, rows)
Groups(rows, key(_))  == {{r \in rows : key(r) = k} : k \in {key(r) : r \in rows}}
One(rows) == CHOOSE r \in rows : TRUE
\* The first `limit` rows by falling value; which of equal ones is not said.
Top(rows, value(_), limit) ==
  CHOOSE T \in SUBSET rows :
    /\ Cardinality(T) = Min({limit, Cardinality(rows)})
    /\ \A r \in T, s \in rows \ T : value(r) >= value(s)
=============================================================================
