----------------------------- MODULE MCServices -----------------------------
(* An instance of Services for TLC.                                        *)
EXTENDS Services, TLC

CONSTANTS x1, x2, x3,   \* requests, or instances of the server
          y1, y2,       \* rates, or transactions
          b1, b2, w

\* 1 and 2 are one category in different spelling, 3 is another one.
Spelling == <<2, 2, 3>>

ServicesSymmetry == Permutations({x1, x2}) \cup Permutations({y1, y2})
=============================================================================
