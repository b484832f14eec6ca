------------------------------- MODULE MCRates -------------------------------
(* An instance of Rates for TLC.                                           *)
EXTENDS Rates, TLC

CONSTANTS r1, w, low, high

\* The provider quotes both directions of one pair of currencies.
AllQuoted == Pair

ASSUME RatesConstants == RatesAssumption

\* No property and no fairness condition names a rate.
RateSymmetry == Permutations(Rate)
=============================================================================
