----------------------------- MODULE DayBuckets -----------------------------
(***************************************************************************)
(* _bucket_interval_by_day() of parsedmarc/__init__.py: an interval of     *)
(* time is cut at the midnights (UTC) in it, and a count is distributed    *)
(* over the pieces by the method of largest remainders.                    *)
(*                                                                         *)
(* Times are integers, Day of them to a day.  The quotas are exact here;   *)
(* the code has them as floats, and sorts their fractional parts.          *)
(***************************************************************************)
EXTENDS Integers, Sequences, FiniteSets

CONSTANT Day   \* length of a day in the units of time used

ASSUME DayAssumption == Day \in Nat \ {0}

\* The sum of the first n terms of f.
SumTo(f, n) ==
    LET upTo[k \in Nat] == IF k = 0 THEN 0 ELSE upTo[k - 1] + f[k]
    IN  upTo[n]

(***************************************************************************)
(* The number of days touched by [b, e), and how much of each is inside.   *)
(***************************************************************************)
Days(b, e) == IF b < e THEN (e - 1) \div Day - b \div Day + 1 ELSE 0

\* The midnight that ends the d-th of these days.
Midnight(b, d) == (b \div Day + d) * Day

From(b, d) == IF b > Midnight(b, d - 1) THEN b ELSE Midnight(b, d - 1)

Till(b, e, d) == IF e < Midnight(b, d) THEN e ELSE Midnight(b, d)

Overlap(b, e, d) == Till(b, e, d) - From(b, d)

(***************************************************************************)
(* The quota of a day is n * Overlap / (e - b).                            *)
(***************************************************************************)
Floor(b, e, n, d) == (n * Overlap(b, e, d)) \div (e - b)

Fraction(b, e, n, d) == (n * Overlap(b, e, d)) % (e - b)

Remainder(b, e, n) ==
    n - SumTo([d \in 1 .. Days(b, e) |-> Floor(b, e, n, d)], Days(b, e))

(***************************************************************************)
(* The place of a day when the days are sorted by descending fraction; the *)
(* sort is stable.                                                         *)
(***************************************************************************)
Before(b, e, n, d) ==
    {x \in 1 .. Days(b, e) :
        \/ Fraction(b, e, n, x) > Fraction(b, e, n, d)
        \/ Fraction(b, e, n, x) = Fraction(b, e, n, d) /\ x < d}

Place(b, e, n, d) == Cardinality(Before(b, e, n, d))

Mutant_FloorOnly(b, e, n, d) == Floor(b, e, n, d)

Share(b, e, n, d) ==
    Floor(b, e, n, d) + (IF Place(b, e, n, d) < Remainder(b, e, n) THEN 1 ELSE 0)

(***************************************************************************)
(* The buckets of an interval, day after day; empty ones are left out.     *)
(***************************************************************************)
Bucket(b, e, n, d) ==
    [begin |-> From(b, d), end |-> Till(b, e, d), count |-> Share(b, e, n, d)]

Buckets(b, e, n) ==
    LET upTo[d \in 0 .. Days(b, e)] ==
            IF d = 0 THEN <<>>
            ELSE IF Share(b, e, n, d) > 0 THEN Append(upTo[d - 1], Bucket(b, e, n, d))
            ELSE upTo[d - 1]
    IN  IF n = 0 THEN <<>> ELSE upTo[Days(b, e)]

=============================================================================
