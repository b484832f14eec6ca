---------------------------- MODULE MCRecurring ----------------------------
(* Instances of Recurring for TLC.                                         *)
EXTENDS Recurring, TLC

CONSTANTS w1, w2, c1

\* Months of 3, 2, 3, 3 and 3 days: the 3rd of the first month is clamped to
\* the 2nd of the second, as January 31 is to February 28.
MCMonthStart == [m \in 1 .. 6 |-> CASE m = 1 -> 1 [] m = 2 -> 4 [] m = 3 -> 6
                                    [] m = 4 -> 9 [] m = 5 -> 12 [] m = 6 -> 15]
=============================================================================
