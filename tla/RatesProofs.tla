----------------------------- MODULE RatesProofs -----------------------------
(* The rate of a transfer, for any currencies, tables of overrides and     *)
(* cached rates, and any requests that write them.                         *)
EXTENDS Rates, TLAPS

\* Both read the pair and its inverse, and the overrides first, but in different
\* code: an override of the inverse is passed over for an online rate of the pair.
LEMMA ListedIsResolved == RatesAssumption => ListAgrees
<1> SUFFICES ASSUME RatesAssumption PROVE ListAgrees
  OBVIOUS
<1>1. ASSUME NEW p \in Pair
      PROVE  /\ Listed(p) # None => Resolved(p) = Listed(p)
             /\ Resolved(p) = None <=> Listed(p) = None /\ Listed(Inverse(p)) = None
  <2>1. Inverse(p) \in Pair
    BY DEF Inverse, Pair
  <2>2. \A q \in Pair, source \in {"manual", "provider"} : <<source, q>> # None
    BY DEF RatesAssumption
  <2>3. Inverse(Inverse(p)) = p
    BY DEF Inverse, Pair
  <2> DEFINE q == Inverse(p)
  <2>4. /\ <<"manual", p>> # None /\ <<"provider", p>> # None
        /\ <<"manual", q>> # None /\ <<"provider", q>> # None
    BY <2>1, <2>2
  <2> HIDE DEF q
  <2>5. /\ Listed(q) = IF manual[q] # None THEN <<"manual", q>>
                         ELSE IF provider[q] # None THEN <<"provider", q>> ELSE None
        /\ Resolved(p) = IF manual[p] # None THEN <<"manual", p>>
                           ELSE IF provider[p] # None THEN <<"provider", p>>
                           ELSE IF manual[q] # None THEN <<"manual", q>>
                           ELSE IF provider[q] # None THEN <<"provider", q>> ELSE None
    BY DEF Listed, Resolved, q
  <2> QED BY <2>4, <2>5 DEF Listed, q
<1> QED BY <1>1 DEF ListAgrees

\* A transfer converts at the rate the list shows for its direction, and finds one
\* exactly when the list has one for either direction (merge_exchange_rate_records,
\* resolve_effective_rate_from_records), whatever rows the saves and refreshes leave.
THEOREM TransfersUseTheList == ASSUME RatesAssumption PROVE Spec => []ListAgrees
<1>1. ListAgrees
  BY ListedIsResolved
<1> QED BY <1>1, PTL
=============================================================================
