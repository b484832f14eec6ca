--------------------------- MODULE ServicesProofs ---------------------------
(* The small services for any number of requests, rows and servers: the    *)
(* throttle, the exchange rates, the budgets and the seed, then the four   *)
(* of them together.                                                       *)
EXTENDS Services, FiniteSets, FiniteSetTheorems, WellFoundedInduction, TLAPS

-----------------------------------------------------------------------------
(* The throttle.                                                           *)

\* The row counts the guesses until it locks the address, and every sign-in that
\* may still guess has its place below the bound.
Counted ==
    /\ attempts = None \/ (attempts # None /\ attempts.locked = "over") => guesses = 0
    /\ attempts # None /\ attempts.locked = "no" => guesses = attempts.failed /\ guesses < MaxFailed
    /\ T!Locked => guesses >= MaxFailed

Late == guesses + Cardinality(T!Passed) < MaxFailed + Cardinality(SignIn)

ThrottleInv == T!TypeOK /\ Counted /\ Late

LEMMA SameCardinality ==
    ASSUME NEW s PROVE T!Cardinality(s) = Cardinality(s) /\ (T!IsFiniteSet(s) <=> IsFiniteSet(s))
<1>1. T!Cardinality(s) = Cardinality(s)
  BY DEF T!Cardinality, Cardinality
<1>2. T!IsFiniteSet(s) <=> IsFiniteSet(s)
  BY DEF T!IsFiniteSet, IsFiniteSet
<1> QED BY <1>1, <1>2

LEMMA Limits ==
    /\ IsFiniteSet(SignIn) /\ Cardinality(SignIn) \in Nat
    /\ MaxFailed \in Nat \ {0} /\ None \notin T!AttemptsRow
<1>1. IsFiniteSet(SignIn) /\ MaxFailed \in Nat \ {0} /\ None \notin T!AttemptsRow
  BY ServicesAssumption, SameCardinality DEF T!ThrottleAssumption, T!AttemptsRow
<1> QED BY <1>1, FS_CardinalityType

LEMMA PassedFinite ==
    /\ IsFiniteSet(T!Passed) /\ Cardinality(T!Passed) \in Nat
    /\ Cardinality(T!Passed) <= Cardinality(SignIn)
<1>1. T!Passed \subseteq SignIn
  BY DEF T!Passed
<1> QED BY <1>1, Limits, FS_Subset, FS_CardinalityType

LEMMA PassedFiniteNext ==
    /\ IsFiniteSet(T!Passed') /\ Cardinality(T!Passed') \in Nat
    /\ Cardinality(T!Passed') <= Cardinality(SignIn)
<1>1. T!Passed' \subseteq SignIn
  BY DEF T!Passed
<1> QED BY <1>1, Limits, FS_Subset, FS_CardinalityType

LEMMA ThrottleInit == ASSUME T!Init PROVE ThrottleInv
<1>1. T!TypeOK /\ Counted
  BY DEF T!Init, T!TypeOK, Counted, T!Locked
<1>2. Late
  BY Limits, PassedFinite DEF T!Init, Late
<1> QED BY <1>1, <1>2 DEF ThrottleInv

\* While the address is not locked the bound has room for all sign-ins.
LEMMA RoomForAll ==
    ASSUME guesses' \in Nat, guesses' < MaxFailed PROVE Late'
BY Limits, PassedFinite, PassedFiniteNext DEF Late

\* A step that guesses nothing and lets nobody pass.
LEMMA FewerPass ==
    ASSUME ThrottleInv, T!Passed' \subseteq T!Passed, guesses' = guesses
    PROVE  Late'
<1>1. Cardinality(T!Passed') <= Cardinality(T!Passed)
  BY PassedFinite, FS_Subset
<1> QED BY <1>1, Limits, PassedFinite, PassedFiniteNext DEF Late, ThrottleInv, T!TypeOK

LEMMA RecordFailedStep ==
    ASSUME ThrottleInv, NEW r \in SignIn, T!RecordFailed(r) PROVE ThrottleInv'
<1>1. MaxFailed \in Nat \ {0}
  BY Limits
<1> DEFINE row == T!Record(attempts)
<1>2. /\ row \in T!AttemptsRow /\ row.failed = T!Failed(attempts) /\ row.failed > 0
      /\ row.locked = IF (attempts # None /\ attempts.locked = "active") \/ T!Failed(attempts) >= MaxFailed
                      THEN "active" ELSE "no"
  BY DEF T!Record, T!Failed, T!Reached, T!AttemptsRow, ThrottleInv, T!TypeOK
<1>3. row # None
  BY <1>2, Limits
<1>4. attempts' = row /\ guesses' = guesses + 1 /\ guesses \in Nat
  BY DEF T!RecordFailed, ThrottleInv, T!TypeOK
<1> HIDE DEF row
<1>5. T!TypeOK'
  BY <1>2, <1>3, <1>4 DEF T!RecordFailed, ThrottleInv, T!TypeOK
<1>6. Counted'
  <2>1. ~T!Locked => T!Failed(attempts) = guesses + 1
    BY DEF T!Failed, T!Locked, ThrottleInv, Counted, T!TypeOK, T!AttemptsRow
  <2>2. T!Locked => guesses >= MaxFailed /\ row.locked = "active"
    BY <1>2 DEF T!Locked, ThrottleInv, Counted
  <2>3. ~T!Locked => row.locked = IF guesses + 1 >= MaxFailed THEN "active" ELSE "no"
    BY <1>2, <2>1 DEF T!Locked
  <2> QED BY <1>1, <1>2, <1>3, <1>4, <2>1, <2>2, <2>3 DEF Counted, T!Locked
<1>7. Late'
  <2>1. T!Passed' = T!Passed \ {r} /\ r \in T!Passed
    BY DEF T!RecordFailed, T!Passed, ThrottleInv, T!TypeOK
  <2>2. Cardinality(T!Passed') = Cardinality(T!Passed) - 1
    BY <2>1, PassedFinite, FS_RemoveElement
  <2> QED BY <1>1, <1>4, <2>2, Limits, PassedFinite DEF Late, ThrottleInv
<1> QED BY <1>5, <1>6, <1>7 DEF ThrottleInv

LEMMA ThrottleNext ==
    ASSUME ThrottleInv, T!Next \/ UNCHANGED throttleVars PROVE ThrottleInv'
<1>0. MaxFailed \in Nat \ {0}
  BY Limits
<1>1. CASE T!LockoutOver
  <2>1. T!TypeOK' /\ Counted'
    BY <1>1 DEF T!LockoutOver, T!Locked, ThrottleInv, T!TypeOK, Counted, T!AttemptsRow
  <2>2. Late'
    BY <1>0, <1>1, RoomForAll DEF T!LockoutOver
  <2> QED BY <2>1, <2>2 DEF ThrottleInv
<1>2. ASSUME NEW r \in SignIn, T!EnsureNotThrottled(r) PROVE ThrottleInv'
  <2>1. T!TypeOK' /\ Counted'
    BY <1>2 DEF T!EnsureNotThrottled, T!Locked, ThrottleInv, T!TypeOK, Counted
  <2>2. guesses' = guesses /\ guesses \in Nat /\ guesses < MaxFailed
    BY <1>0, <1>2 DEF T!EnsureNotThrottled, T!Locked, ThrottleInv, T!TypeOK, Counted, T!AttemptsRow
  <2> QED BY <2>1, <2>2, RoomForAll DEF ThrottleInv
<1>3. ASSUME NEW r \in SignIn, T!Verify(r) \/ T!Fail(r) PROVE ThrottleInv'
  <2>1. T!TypeOK' /\ Counted'
    BY <1>3 DEF T!Verify, T!Fail, T!Locked, ThrottleInv, T!TypeOK, Counted
  <2>2. T!Passed' \subseteq T!Passed
    BY <1>3 DEF T!Verify, T!Fail, T!Passed, ThrottleInv, T!TypeOK
  <2>3. guesses' = guesses
    BY <1>3 DEF T!Verify, T!Fail
  <2> QED BY <2>1, <2>2, <2>3, FewerPass DEF ThrottleInv
<1>4. ASSUME NEW r \in SignIn, T!ClearFailed(r) PROVE ThrottleInv'
  <2>1. T!TypeOK' /\ Counted'
    BY <1>4 DEF T!ClearFailed, T!Locked, ThrottleInv, T!TypeOK, Counted
  <2>2. Late'
    BY <1>0, <1>4, RoomForAll DEF T!ClearFailed
  <2> QED BY <2>1, <2>2 DEF ThrottleInv
<1>5. CASE UNCHANGED throttleVars
  <2>1. T!TypeOK' /\ Counted'
    BY <1>5 DEF throttleVars, T!Locked, ThrottleInv, T!TypeOK, Counted
  <2>2. T!Passed' \subseteq T!Passed /\ guesses' = guesses
    BY <1>5 DEF throttleVars, T!Passed
  <2> QED BY <2>1, <2>2, FewerPass DEF ThrottleInv
<1> QED BY <1>1, <1>2, <1>3, <1>4, <1>5, RecordFailedStep DEF T!Next

LEMMA ThrottleLocks == ASSUME ThrottleInv PROVE LockedOut
<1>1. T!Locked <=> guesses >= MaxFailed
  BY Limits DEF ThrottleInv, T!TypeOK, Counted, T!Locked, T!AttemptsRow
<1>2. guesses < MaxFailed + Cardinality(SignIn)
  BY Limits, PassedFinite DEF ThrottleInv, T!TypeOK, Late
<1> QED BY <1>1, <1>2, SameCardinality DEF LockedOut, T!LockedOut

-----------------------------------------------------------------------------
(* The seed.                                                               *)

\* The calls before the next one of the instance past the registration are
\* written, each once, and no other one.
Progress(i) ==
    pc[i] = "seed" /\ next[i] > 0
    => \A n \in 0 .. SeedCalls : written[n] = IF n < next[i] THEN 1 ELSE 0

\* Without the demo user nothing is there.
NothingWithoutUser == written[0] = 0 => \A n \in 0 .. SeedCalls : written[n] = 0

SeedInv ==
    /\ S!TypeOK /\ NothingWithoutUser /\ S!SeededOnce
    /\ \A i \in Server : Progress(i) /\ (pc[i] = "start" => next[i] = 0)

LEMMA SomeCalls == SeedCalls \in Nat \ {0}
BY ServicesAssumption DEF S!SeedAssumption

LEMMA SeedInit == ASSUME S!Init PROVE SeedInv
BY SomeCalls DEF S!Init, SeedInv, S!TypeOK, S!SeededOnce, NothingWithoutUser, Progress

\* A step that writes nothing and in which nobody gets past the registration.
LEMMA NobodySeeds ==
    ASSUME SeedInv, UNCHANGED written,
           pc' \in [Server -> {"down", "start", "seed", "up"}], next' \in [Server -> 0 .. SeedCalls],
           \A i \in Server : /\ pc'[i] = "seed" /\ next'[i] > 0 => pc[i] = "seed" /\ next[i] = next'[i]
                             /\ pc'[i] = "start" => next'[i] = 0
    PROVE  SeedInv'
<1>1. S!TypeOK'
  BY DEF SeedInv, S!TypeOK
<1>2. NothingWithoutUser' /\ S!SeededOnce'
  BY DEF SeedInv, NothingWithoutUser, S!SeededOnce
<1>3. ASSUME NEW i \in Server PROVE (Progress(i) /\ (pc[i] = "start" => next[i] = 0))'
  BY DEF SeedInv, Progress
<1> QED BY <1>1, <1>2, <1>3 DEF SeedInv

\* The user is new, so nothing is there and nobody else is past the registration.
LEMMA RegisterStep ==
    ASSUME SeedInv, NEW i \in Server, S!Register(i), ~S!UserExists PROVE SeedInv'
<1>1. SeedCalls \in Nat \ {0} /\ written[0] = 0 /\ \A n \in 0 .. SeedCalls : written[n] = 0
  BY SomeCalls DEF S!UserExists, SeedInv, S!TypeOK, NothingWithoutUser
<1>2. \A j \in Server : ~(pc[j] = "seed" /\ next[j] > 0)
  BY <1>1 DEF SeedInv, Progress, S!TypeOK
<1>3. /\ written' = [written EXCEPT ![0] = 1] /\ next' = [next EXCEPT ![i] = 1]
      /\ pc[i] = "seed" /\ UNCHANGED pc
  BY DEF S!Register
<1>4. S!TypeOK'
  BY <1>1, <1>2, <1>3 DEF SeedInv, S!TypeOK
<1>5. \A n \in 0 .. SeedCalls : written'[n] = IF n < 1 THEN 1 ELSE 0
  BY <1>1, <1>3 DEF SeedInv, S!TypeOK
<1>6. NothingWithoutUser' /\ S!SeededOnce'
  BY <1>1, <1>5 DEF NothingWithoutUser, S!SeededOnce
<1>7. ASSUME NEW j \in Server PROVE (Progress(j) /\ (pc[j] = "start" => next[j] = 0))'
  BY <1>2, <1>3, <1>5 DEF SeedInv, Progress, S!TypeOK
<1> QED BY <1>4, <1>6, <1>7 DEF SeedInv

LEMMA CallStep ==
    ASSUME SeedInv, NEW i \in Server, S!Call(i) PROVE SeedInv'
<1> DEFINE n == next[i]
<1>1. /\ SeedCalls \in Nat \ {0} /\ pc[i] = "seed" /\ n \in 1 .. SeedCalls /\ n > 0
      /\ written' = [written EXCEPT ![n] = @ + 1]
  BY SomeCalls DEF S!Call
<1>2. \A m \in 0 .. SeedCalls : written[m] = IF m < n THEN 1 ELSE 0
  BY <1>1 DEF SeedInv, Progress
<1>3. \A m \in 0 .. SeedCalls : written'[m] = IF m < n + 1 THEN 1 ELSE 0
  BY <1>1, <1>2 DEF SeedInv, S!TypeOK
<1>4. /\ pc' \in [Server -> {"down", "start", "seed", "up"}] /\ next' \in [Server -> 0 .. SeedCalls]
      /\ pc'[i] \in {"seed", "up"} /\ (pc'[i] = "seed" => next'[i] = n + 1)
      /\ \A j \in Server \ {i} : pc'[j] = pc[j] /\ next'[j] = next[j]
  <2>1. CASE n = SeedCalls
    BY <1>1, <2>1 DEF S!Call, SeedInv, S!TypeOK
  <2>2. CASE n # SeedCalls
    <3>1. n + 1 \in 0 .. SeedCalls /\ next' = [next EXCEPT ![i] = n + 1] /\ UNCHANGED pc
      BY <1>1, <2>2 DEF S!Call
    <3> QED BY <1>1, <3>1 DEF SeedInv, S!TypeOK
  <2> QED BY <2>1, <2>2
<1>5. \A j \in Server \ {i} : ~(pc'[j] = "seed" /\ next'[j] > 0)
  BY <1>1, <1>4 DEF SeedInv, S!TypeOK
<1>6. written' \in [0 .. SeedCalls -> Nat]
  BY <1>1 DEF SeedInv, S!TypeOK
<1>7. S!TypeOK'
  BY <1>4, <1>5, <1>6 DEF S!TypeOK
<1>8. NothingWithoutUser' /\ S!SeededOnce'
  BY <1>1, <1>3 DEF NothingWithoutUser, S!SeededOnce
<1>9. ASSUME NEW j \in Server PROVE (Progress(j) /\ (pc[j] = "start" => next[j] = 0))'
  BY <1>3, <1>4, <1>5 DEF Progress, SeedInv
<1> QED BY <1>7, <1>8, <1>9 DEF SeedInv

LEMMA SeedNext ==
    ASSUME SeedInv, S!Next \/ UNCHANGED seedVars PROVE SeedInv'
<1>0. SeedCalls \in Nat \ {0}
  BY SomeCalls
<1>1. ASSUME NEW i \in Server, S!Start(i) \/ S!Check(i) \/ S!Die(i) PROVE SeedInv'
  <2>1. CASE S!Start(i)
    BY <1>0, <2>1, NobodySeeds DEF S!Start, SeedInv, S!TypeOK
  <2>2. CASE S!Check(i)
    BY <1>0, <2>2, NobodySeeds DEF S!Check, SeedInv, S!TypeOK
  <2>3. CASE S!Die(i)
    BY <1>0, <2>3, NobodySeeds DEF S!Die, SeedInv, S!TypeOK
  <2> QED BY <1>1, <2>1, <2>2, <2>3
<1>2. ASSUME NEW i \in Server, S!Register(i), S!UserExists PROVE SeedInv'
  BY <1>0, <1>2, NobodySeeds DEF S!Register, SeedInv, S!TypeOK
<1>3. CASE UNCHANGED seedVars
  BY <1>3, NobodySeeds DEF seedVars, SeedInv, S!TypeOK
<1> QED BY <1>1, <1>2, <1>3, RegisterStep, CallStep DEF S!Next

-----------------------------------------------------------------------------
(* The budgets.                                                            *)

LEMMA MonthBegins ==
    ASSUME NEW date \in B!Day
    PROVE  B!NormalizeMonth(date) \in {d \in B!Day : d % MonthLength = 0}
<1>1. MonthLength \in Nat \ {0} /\ Months \in Nat \ {0}
  BY ServicesAssumption DEF B!BudgetsAssumption
<1> DEFINE q == date \div MonthLength
<1>2. date \in Nat /\ q \in Nat /\ q * MonthLength <= date
  BY <1>1, SMTT(30) DEF B!Day
<1>3. q * MonthLength \in Nat /\ (q * MonthLength) % MonthLength = 0
  BY <1>1, <1>2, SMTT(30)
<1>4. q * MonthLength \in B!Day
  BY <1>1, <1>2, <1>3, SMTT(30) DEF B!Day
<1> QED BY <1>3, <1>4 DEF B!NormalizeMonth

LEMMA BudgetsInit == ASSUME B!Init PROVE B!TypeOK
BY DEF B!Init, B!TypeOK

LEMMA BudgetsNext ==
    ASSUME B!TypeOK, B!Next \/ UNCHANGED budgetsVars PROVE B!TypeOK'
<1>1. ASSUME NEW t \in Transaction, B!SetTransaction(t) PROVE B!TypeOK'
  BY <1>1 DEF B!SetTransaction, B!TypeOK
<1>2. ASSUME NEW b \in Budget, B!CreateBudget(b) \/ B!UpdateBudget(b) PROVE B!TypeOK'
  <2>1. PICK c \in Category, date \in B!Day :
          budgets' = [budgets EXCEPT ![b] = [category |-> c, month |-> B!NormalizeMonth(date)]]
    BY <1>2 DEF B!CreateBudget, B!UpdateBudget
  <2>2. [category |-> c, month |-> B!NormalizeMonth(date)] \in B!BudgetRow
    BY MonthBegins DEF B!BudgetRow
  <2>3. UNCHANGED transactions
    BY <1>2 DEF B!CreateBudget, B!UpdateBudget
  <2> QED BY <2>1, <2>2, <2>3 DEF B!TypeOK
<1>3. ASSUME NEW b \in Budget, B!DeleteBudget(b) PROVE B!TypeOK'
  BY <1>3 DEF B!DeleteBudget, B!TypeOK
<1>4. CASE UNCHANGED budgetsVars
  BY <1>4 DEF budgetsVars, B!TypeOK
<1> QED BY <1>1, <1>2, <1>3, <1>4 DEF B!Next

-----------------------------------------------------------------------------
(* Sums over finite sets.  What MapThenSumSet adds depends on the order in  *)
(* which CHOOSE takes the elements; that the order does not matter, and     *)
(* that a sum can be taken by groups, is shown by induction over the set,   *)
(* stated with a smallest counterexample: the induction theorems of the     *)
(* library take an operator, WFMin does not.                                *)

\* A set of natural numbers that is not empty has a least element.
LEMMA LeastNat ==
    ASSUME NEW N, N \subseteq Nat, N # {}
    PROVE  \E n \in N : \A m \in N : n <= m
<1> DEFINE Less == {p \in Nat \X Nat : p[1] < p[2]}
<1>1. IsWellFoundedOn(Less, Nat)
  BY NatLessThanWellFounded, Zenon DEF OpToRel
<1>2. PICK n \in N : \A m \in N : ~ (<<m, n>> \in Less)
  <2> HIDE DEF Less
  <2> QED BY <1>1, WFMin, Zenon
<1>3. \A m \in N : ~(m < n)
  BY <1>2
<1> QED BY <1>3

\* A family of subsets of a finite set that is not empty has one that leaves the
\* family when it loses any element.
LEMMA MinimalSet ==
    ASSUME NEW U, IsFiniteSet(U), NEW K, K \subseteq SUBSET U, K # {}
    PROVE  \E s \in K : \A x \in s : s \ {x} \notin K
<1> DEFINE N == {Cardinality(s) : s \in K}
<1>1. \A s \in K : IsFiniteSet(s) /\ Cardinality(s) \in Nat
  BY FS_Subset, FS_CardinalityType
<1>2. PICK n \in N : \A m \in N : n <= m
  <2>1. N \subseteq Nat /\ N # {}
    BY <1>1
  <2> HIDE DEF N
  <2> QED BY <2>1, LeastNat
<1>3. PICK s \in K : n = Cardinality(s)
  BY <1>2
<1>4. ASSUME NEW x \in s, s \ {x} \in K PROVE FALSE
  <2>1. Cardinality(s \ {x}) \in N
    BY <1>4
  <2>2. Cardinality(s \ {x}) = Cardinality(s) - 1
    BY <1>1, <1>3, FS_RemoveElement
  <2> QED BY <1>1, <1>2, <1>3, <2>1, <2>2
<1> QED BY <1>4

\* Sums of the values of a function over the subsets of its domain, as a fold
\* takes their elements.
Pick(s) == CHOOSE x \in s : TRUE

Adds(F, f, D) == \A s \in D : F[s] = IF s = {} THEN 0 ELSE f[Pick(s)] + F[s \ {Pick(s)}]

LEMMA PickIn == ASSUME NEW s, s # {} PROVE Pick(s) \in s
BY DEF Pick

LEMMA SumExists ==
    ASSUME NEW U, IsFiniteSet(U), NEW f \in [U -> Nat]
    PROVE  \E F \in [SUBSET U -> Nat] : Adds(F, f, SUBSET U)
<1> DEFINE Level(n) == {s \in SUBSET U : Cardinality(s) <= n}
           N == {n \in Nat : ~ \E F \in [Level(n) -> Nat] : Adds(F, f, Level(n))}
<1>1. \A s \in SUBSET U : IsFiniteSet(s) /\ Cardinality(s) \in Nat /\ (Cardinality(s) = 0 <=> s = {})
  BY FS_Subset, FS_CardinalityType, FS_EmptySet
<1>2. \A s \in SUBSET U : s # {} =>
         /\ Pick(s) \in U /\ s \ {Pick(s)} \in SUBSET U
         /\ Cardinality(s \ {Pick(s)}) = Cardinality(s) - 1
  BY <1>1, PickIn, FS_RemoveElement
<1>3. 0 \notin N
  <2> DEFINE F == [s \in Level(0) |-> 0]
  <2>1. \A s \in Level(0) : s = {}
    BY <1>1
  <2>2. F \in [Level(0) -> Nat] /\ Adds(F, f, Level(0))
    BY <2>1 DEF Adds
  <2> QED BY <2>2
<1>4. ASSUME NEW n \in Nat, n \notin N PROVE n + 1 \notin N
  <2>1. PICK F \in [Level(n) -> Nat] : Adds(F, f, Level(n))
    BY <1>4
  <2> DEFINE G == [s \in Level(n + 1) |-> IF s \in Level(n) THEN F[s]
                                          ELSE f[Pick(s)] + F[s \ {Pick(s)}]]
  <2>2. \A s \in Level(n + 1) : s # {} => s \ {Pick(s)} \in Level(n)
    BY <1>1, <1>2
  <2>3. \A s \in Level(n + 1) : s \notin Level(n) => s # {}
    BY <1>1
  <2>4. \A s \in Level(n) : s \in Level(n + 1)
    BY <1>1
  <2>5. G \in [Level(n + 1) -> Nat]
    <3>1. ASSUME NEW s \in Level(n + 1) PROVE G[s] \in Nat
      <4>1. CASE s \in Level(n)
        BY <4>1
      <4>2. CASE s \notin Level(n)
        <5>1. s # {} /\ f[Pick(s)] \in Nat /\ F[s \ {Pick(s)}] \in Nat
          BY <1>2, <2>2, <2>3, <4>2
        <5> HIDE DEF Level
        <5> QED BY <4>2, <5>1
      <4> QED BY <4>1, <4>2
    <3> HIDE DEF Level
    <3> QED BY <3>1
  <2>6. ASSUME NEW s \in Level(n + 1)
        PROVE  G[s] = IF s = {} THEN 0 ELSE f[Pick(s)] + G[s \ {Pick(s)}]
    <3>1. s # {} => s \ {Pick(s)} \in Level(n) /\ s \ {Pick(s)} \in Level(n + 1)
      BY <2>2, <2>4
    <3> HIDE DEF Level
    <3>2. s # {} => G[s \ {Pick(s)}] = F[s \ {Pick(s)}]
      BY <3>1
    <3>3. CASE s \in Level(n)
      <4>1. G[s] = F[s]
        BY <3>3
      <4>2. F[s] = IF s = {} THEN 0 ELSE f[Pick(s)] + F[s \ {Pick(s)}]
        BY <2>1, <3>3 DEF Adds
      <4> HIDE DEF G
      <4> QED BY <3>2, <4>1, <4>2
    <3>4. CASE s \notin Level(n)
      <4>1. G[s] = f[Pick(s)] + F[s \ {Pick(s)}] /\ s # {}
        BY <3>4, <2>3
      <4> HIDE DEF G
      <4> QED BY <3>2, <4>1
    <3> QED BY <3>3, <3>4
  <2> HIDE DEF G, Level
  <2>7. Adds(G, f, Level(n + 1))
    BY <2>6 DEF Adds
  <2> QED BY <2>5, <2>7
<1>5. N = {}
  <2> HIDE DEF Level
  <2>1. SUFFICES ASSUME N # {} PROVE FALSE
    OBVIOUS
  <2>2. PICK n \in N : \A m \in N : n <= m
    BY <2>1, LeastNat
  <2> HIDE DEF N
  <2>3. n \in Nat /\ n # 0
    BY <1>3 DEF N
  <2>4. n - 1 \in Nat /\ n - 1 \notin N
    BY <2>2, <2>3
  <2>5. n - 1 + 1 = n
    BY <2>3
  <2> QED BY <1>4, <2>2, <2>4, <2>5
<1>6. SUBSET U = Level(Cardinality(U)) /\ Cardinality(U) \in Nat
  BY <1>1, FS_Subset
<1> HIDE DEF Level
<1>7. \A n \in Nat : \E F \in [Level(n) -> Nat] : Adds(F, f, Level(n))
  BY <1>5
<1> QED BY <1>6, <1>7

SumOf(f, U) == CHOOSE F \in [SUBSET U -> Nat] : Adds(F, f, SUBSET U)

LEMMA SumOfAdds ==
    ASSUME NEW U, IsFiniteSet(U), NEW f \in [U -> Nat]
    PROVE  /\ SumOf(f, U) \in [SUBSET U -> Nat]
           /\ SumOf(f, U)[{}] = 0
           /\ \A s \in SUBSET U : s # {} =>
                 SumOf(f, U)[s] = f[Pick(s)] + SumOf(f, U)[s \ {Pick(s)}]
<1> DEFINE F == SumOf(f, U)
<1>1. F \in [SUBSET U -> Nat] /\ Adds(F, f, SUBSET U)
  BY SumExists, Zenon DEF SumOf
<1> HIDE DEF F
<1>2. F[{}] = 0 /\ \A s \in SUBSET U : s # {} => F[s] = f[Pick(s)] + F[s \ {Pick(s)}]
  BY <1>1 DEF Adds
<1> QED BY <1>1, <1>2 DEF F

\* Any element can be taken first.
LEMMA SumTakes ==
    ASSUME NEW U, IsFiniteSet(U), NEW f \in [U -> Nat], NEW s \in SUBSET U, NEW x \in s
    PROVE  SumOf(f, U)[s] = f[x] + SumOf(f, U)[s \ {x}]
<1> DEFINE F == SumOf(f, U)
           K == {t \in SUBSET U : \E y \in t : F[t] # f[y] + F[t \ {y}]}
<1>1. /\ F \in [SUBSET U -> Nat]
      /\ \A t \in SUBSET U : t # {} => F[t] = f[Pick(t)] + F[t \ {Pick(t)}]
  BY SumOfAdds
<1> HIDE DEF F
<1>2. ASSUME NEW t \in K, \A y \in t : t \ {y} \notin K PROVE FALSE
  <2>1. PICK y \in t : F[t] # f[y] + F[t \ {y}]
    OBVIOUS
  <2> DEFINE z == Pick(t)
             both == (t \ {y}) \ {z}
  <2>2. z \in t /\ F[t] = f[z] + F[t \ {z}]
    BY <1>1, <2>1, PickIn
  <2> HIDE DEF z
  <2>3. y # z
    BY <2>1, <2>2
  <2>4. (t \ {z}) \ {y} = both /\ both \in SUBSET U
    BY <2>3
  <2>5. F[t \ {z}] = f[y] + F[both]
    <3>1. t \ {z} \in SUBSET U /\ t \ {z} \notin K /\ y \in t \ {z}
      BY <1>2, <2>2, <2>3
    <3> QED BY <2>4, <3>1
  <2>6. F[t \ {y}] = f[z] + F[both]
    <3>1. t \ {y} \in SUBSET U /\ t \ {y} \notin K /\ z \in t \ {y}
      BY <1>2, <2>2, <2>3
    <3> QED BY <3>1
  <2>7. f[y] \in Nat /\ f[z] \in Nat /\ F[both] \in Nat
    BY <1>1, <2>1, <2>2, <2>4
  <2> HIDE DEF both
  <2> QED BY <2>1, <2>2, <2>5, <2>6, <2>7
<1>3. K = {}
  <2>1. K \subseteq SUBSET U
    OBVIOUS
  <2> HIDE DEF K
  <2> QED BY <1>2, <2>1, MinimalSet
<1> QED BY <1>3 DEF F

\* it is the function that MapThenSumSet defines to add the values of f over D.
Iterates(it, f, D) ==
    it = [s \in SUBSET D |-> IF s = {} THEN 0 ELSE f[Pick(s)] + it[s \ {Pick(s)}]]

\* The sum of the subset that a fold computes is the one it has in any larger
\* finite set.
LEMMA SumIsFold ==
    ASSUME NEW U, IsFiniteSet(U), NEW f \in [U -> Nat], NEW D \in SUBSET U,
           NEW it, Iterates(it, f, D)
    PROVE  it[D] = SumOf(f, U)[D]
<1> DEFINE F == SumOf(f, U)
           K == {s \in SUBSET D : it[s] # F[s]}
<1>1. \A s \in SUBSET U : F[s] = IF s = {} THEN 0 ELSE f[Pick(s)] + F[s \ {Pick(s)}]
  BY SumOfAdds
<1>2. \A s \in SUBSET D : it[s] = IF s = {} THEN 0 ELSE f[Pick(s)] + it[s \ {Pick(s)}]
  BY DEF Iterates
<1> HIDE DEF F
<1>3. ASSUME NEW s \in K, \A x \in s : s \ {x} \notin K PROVE FALSE
  <2>1. s \in SUBSET D /\ s \in SUBSET U /\ it[s] # F[s]
    OBVIOUS
  <2>2. s # {}
    BY <1>1, <1>2, <2>1
  <2>3. Pick(s) \in s /\ s \ {Pick(s)} \in SUBSET D
    BY <2>1, <2>2, PickIn
  <2>4. it[s \ {Pick(s)}] = F[s \ {Pick(s)}]
    BY <1>3, <2>3
  <2>5. it[s] = f[Pick(s)] + it[s \ {Pick(s)}]
    BY <1>2, <2>1, <2>2
  <2>6. F[s] = f[Pick(s)] + F[s \ {Pick(s)}]
    BY <1>1, <2>1, <2>2
  <2> QED BY <2>1, <2>4, <2>5, <2>6
<1>4. K = {}
  <2>1. K \subseteq SUBSET D /\ IsFiniteSet(D)
    BY FS_Subset
  <2> HIDE DEF K
  <2> QED BY <1>3, <2>1, MinimalSet
<1> QED BY <1>4 DEF F

LEMMA SumOfFold ==
    ASSUME NEW U, IsFiniteSet(U), NEW f \in [U -> Nat], NEW D \in SUBSET U
    PROVE  \E it : Iterates(it, f, D)
<1> DEFINE F == SumOf(f, U)
           it == [s \in SUBSET D |-> F[s]]
<1>1. \A s \in SUBSET U : F[s] = IF s = {} THEN 0 ELSE f[Pick(s)] + F[s \ {Pick(s)}]
  BY SumOfAdds
<1> HIDE DEF F
<1>2. ASSUME NEW s \in SUBSET D
      PROVE  F[s] = IF s = {} THEN 0 ELSE f[Pick(s)] + it[s \ {Pick(s)}]
  <2>1. it[s \ {Pick(s)}] = F[s \ {Pick(s)}]
    OBVIOUS
  <2> HIDE DEF it
  <2> QED BY <1>1, <2>1
<1>3. Iterates(it, f, D)
  BY <1>2 DEF Iterates
<1> HIDE DEF it
<1> QED BY <1>3

LEMMA SumDisjoint ==
    ASSUME NEW U, IsFiniteSet(U), NEW f \in [U -> Nat],
           NEW C \in SUBSET U, NEW D \in SUBSET U, C \cap D = {}
    PROVE  SumOf(f, U)[C \cup D] = SumOf(f, U)[C] + SumOf(f, U)[D]
<1> DEFINE F == SumOf(f, U)
           K == {s \in SUBSET C : F[s \cup D] # F[s] + F[D]}
<1>1. /\ F \in [SUBSET U -> Nat] /\ F[{}] = 0
      /\ \A s \in SUBSET U : \A x \in s : F[s] = f[x] + F[s \ {x}]
  <2>1. F \in [SUBSET U -> Nat] /\ F[{}] = 0
    BY SumOfAdds
  <2>2. ASSUME NEW s \in SUBSET U, NEW x \in s PROVE F[s] = f[x] + F[s \ {x}]
    BY SumTakes
  <2> QED BY <2>1, <2>2
<1> HIDE DEF F
<1>2. ASSUME NEW s \in K, \A x \in s : s \ {x} \notin K PROVE FALSE
  <2>1. s \in SUBSET C /\ F[s \cup D] # F[s] + F[D] /\ F[D] \in Nat
    BY <1>1
  <2>2. s # {}
    <3>1. SUFFICES ASSUME s = {} PROVE FALSE
      OBVIOUS
    <3>2. s \cup D = D /\ F[s] = 0
      BY <1>1, <3>1
    <3> HIDE DEF K
    <3> QED BY <2>1, <3>2
  <2>3. PICK x \in s : TRUE
    BY <2>2
  <2> DEFINE r == s \ {x}
  <2>4. F[r \cup D] = F[r] + F[D] /\ r \in SUBSET U /\ F[r] \in Nat
    BY <1>1, <1>2
  <2>5. (s \cup D) \ {x} = r \cup D /\ x \in s \cup D /\ s \cup D \in SUBSET U /\ x \in U
    OBVIOUS
  <2> HIDE DEF r
  <2>6. F[s \cup D] = f[x] + F[r \cup D]
    BY <1>1, <2>5
  <2>7. F[s] = f[x] + F[r]
    BY <1>1 DEF r
  <2>8. f[x] \in Nat
    BY <2>5
  <2> QED BY <2>1, <2>4, <2>6, <2>7, <2>8
<1>3. K = {}
  <2>1. K \subseteq SUBSET C /\ IsFiniteSet(C)
    BY FS_Subset
  <2> HIDE DEF K
  <2> QED BY <1>2, <2>1, MinimalSet
<1> QED BY <1>3 DEF F

\* A sum over groups is the sum of the sums of the groups.
Having(W, g, D) == {x \in W : g[x] \in D}

LEMMA SumByGroup ==
    ASSUME NEW U, IsFiniteSet(U), NEW f \in [U -> Nat], NEW W \in SUBSET U,
           NEW G, IsFiniteSet(G), NEW g, NEW h \in [G -> Nat],
           \A c \in G : h[c] = SumOf(f, U)[Having(W, g, {c})],
           NEW D \in SUBSET G
    PROVE  SumOf(h, G)[D] = SumOf(f, U)[Having(W, g, D)]
<1> DEFINE F == SumOf(f, U)
           H == SumOf(h, G)
           K == {E \in SUBSET D : H[E] # F[Having(W, g, E)]}
<1>1. /\ F \in [SUBSET U -> Nat] /\ F[{}] = 0 /\ H[{}] = 0
      /\ \A C, E \in SUBSET U : C \cap E = {} => F[C \cup E] = F[C] + F[E]
      /\ \A E \in SUBSET G : \A c \in E : H[E] = h[c] + H[E \ {c}]
  <2>1. F \in [SUBSET U -> Nat] /\ F[{}] = 0 /\ H[{}] = 0
    BY SumOfAdds
  <2>2. ASSUME NEW C \in SUBSET U, NEW E \in SUBSET U, C \cap E = {}
        PROVE  F[C \cup E] = F[C] + F[E]
    BY <2>2, SumDisjoint
  <2>3. ASSUME NEW E \in SUBSET G, NEW c \in E PROVE H[E] = h[c] + H[E \ {c}]
    BY SumTakes
  <2> QED BY <2>1, <2>2, <2>3
<1> HIDE DEF F, H
<1>2. ASSUME NEW E \in K, \A c \in E : E \ {c} \notin K PROVE FALSE
  <2>1. E \in SUBSET D /\ H[E] # F[Having(W, g, E)]
    OBVIOUS
  <2>2. E # {}
    <3>1. Having(W, g, {}) = {}
      BY DEF Having
    <3> HIDE DEF K
    <3> QED BY <1>1, <2>1, <3>1
  <2>3. PICK c \in E : TRUE
    BY <2>2
  <2> DEFINE E0 == E \ {c}
             one == Having(W, g, {c})
             others == Having(W, g, E0)
  <2>4. H[E0] = F[others]
    BY <1>2
  <2>5. /\ one \in SUBSET U /\ others \in SUBSET U
        /\ one \cap others = {} /\ one \cup others = Having(W, g, E)
    BY DEF Having
  <2>6. h[c] = F[one]
    BY DEF F
  <2> HIDE DEF one, others
  <2>7. F[Having(W, g, E)] = F[one] + F[others]
    BY <1>1, <2>5
  <2>8. H[E] = h[c] + H[E0]
    BY <1>1
  <2> QED BY <2>1, <2>4, <2>6, <2>7, <2>8
<1>3. K = {}
  <2>1. K \subseteq SUBSET D /\ IsFiniteSet(D)
    BY FS_Subset
  <2> HIDE DEF K
  <2> QED BY <1>2, <2>1, MinimalSet
<1> QED BY <1>3 DEF F, H

-----------------------------------------------------------------------------
(* What the pages add up.                                                  *)

\* The rows that are there, and their amounts.
Live  == {t \in Transaction : transactions[t] # None}
Spend == [t \in Transaction |-> IF transactions[t] # None THEN transactions[t].amount ELSE 0]

LEMMA BudgetsFinite == IsFiniteSet(Transaction) /\ IsFiniteSet(Category)
BY ServicesAssumption DEF B!BudgetsAssumption, B!IsFiniteSet, IsFiniteSet

LEMMA SpendNat == B!TypeOK => Spend \in [Transaction -> Nat]
<1>1. ASSUME B!TypeOK, NEW t \in Transaction, transactions[t] # None
      PROVE  transactions[t].amount \in Nat
  <2>1. transactions[t] \in B!TransactionRow /\ Amount \subseteq Nat
    BY <1>1, ServicesAssumption DEF B!TypeOK, B!BudgetsAssumption
  <2> QED BY <2>1 DEF B!TransactionRow
<1> QED BY <1>1 DEF Spend

\* A total of the pages is the sum of the amounts of its rows.
LEMMA TotalIsSum ==
    ASSUME B!TypeOK, NEW D \in SUBSET Live
    PROVE  B!Total(D) = SumOf(Spend, Transaction)[D]
<1> DEFINE it == CHOOSE it : it = [s \in SUBSET D |->
              IF s = {} THEN 0 ELSE transactions[Pick(s)].amount + it[s \ {Pick(s)}]]
<1>f. IsFiniteSet(Transaction) /\ Spend \in [Transaction -> Nat]
  BY BudgetsFinite, SpendNat
<1>1. B!Total(D) = it[D]
  BY Zenon DEF B!Total, B!MapThenSumSet, B!MapThenFoldSet, Pick
<1>2. \A s \in SUBSET D : s # {} => transactions[Pick(s)].amount = Spend[Pick(s)]
  BY PickIn DEF Live, Spend
<1>3. D \in SUBSET Transaction
  BY DEF Live
<1>4. \E F : Iterates(F, Spend, D)
  BY <1>3, <1>f, SumOfFold
<1>5. ASSUME NEW F
      PROVE  Iterates(F, Spend, D) <=> F = [s \in SUBSET D |->
                     IF s = {} THEN 0 ELSE transactions[Pick(s)].amount + F[s \ {Pick(s)}]]
  <2>1. [s \in SUBSET D |-> IF s = {} THEN 0 ELSE Spend[Pick(s)] + F[s \ {Pick(s)}]]
                = [s \in SUBSET D |->
                     IF s = {} THEN 0 ELSE transactions[Pick(s)].amount + F[s \ {Pick(s)}]]
    BY <1>2
  <2> QED BY <2>1, Zenon DEF Iterates
<1>6. it = [s \in SUBSET D |->
              IF s = {} THEN 0 ELSE transactions[Pick(s)].amount + it[s \ {Pick(s)}]]
  <2>1. \E F : F = [s \in SUBSET D |->
              IF s = {} THEN 0 ELSE transactions[Pick(s)].amount + F[s \ {Pick(s)}]]
    BY <1>4, <1>5, Zenon
  <2> QED BY <2>1, Zenon
<1> HIDE DEF it
<1>7. Iterates(it, Spend, D)
  BY <1>5, <1>6, Zenon
<1>8. it[D] = SumOf(Spend, Transaction)[D]
  BY <1>3, <1>7, <1>f, SumIsFold
<1> QED BY <1>1, <1>8

\* The lines of the category summary, and the rows it is made from.
Groups(date)   == [c \in Category |-> B!CategoryTotal(c, date)]
InMonth(date)  == {t \in B!Expenses : B!Within(t, B!NormalizeMonth(date))}

LEMMA GroupsNat ==
    ASSUME B!TypeOK, NEW date
    PROVE  /\ Groups(date) \in [Category -> Nat]
           /\ \A c \in Category : Groups(date)[c] = SumOf(Spend, Transaction)[
                                     {t \in InMonth(date) : transactions[t].category = c}]
<1>1. /\ IsFiniteSet(Transaction) /\ Spend \in [Transaction -> Nat]
      /\ SumOf(Spend, Transaction) \in [SUBSET Transaction -> Nat]
  BY BudgetsFinite, SpendNat, SumOfAdds
<1>2. ASSUME NEW c \in Category
      PROVE  /\ B!CategoryTotal(c, date) \in Nat
             /\ B!CategoryTotal(c, date) = SumOf(Spend, Transaction)[
                                     {t \in InMonth(date) : transactions[t].category = c}]
  <2> DEFINE D == {t \in InMonth(date) : transactions[t].category = c}
  <2>1. D \in SUBSET Live /\ D \in SUBSET Transaction
    BY DEF Live, InMonth, B!Expenses
  <2>2. D = {t \in B!Expenses : B!Within(t, B!NormalizeMonth(date)) /\ transactions[t].category = c}
    BY DEF InMonth
  <2>3. B!CategoryTotal(c, date) = B!Total(D)
    BY <2>2, Zenon DEF B!CategoryTotal
  <2> HIDE DEF D
  <2>4. B!Total(D) = SumOf(Spend, Transaction)[D]
    BY <2>1, TotalIsSum
  <2>5. B!CategoryTotal(c, date) = SumOf(Spend, Transaction)[D]
    BY <2>3, <2>4
  <2>6. SumOf(Spend, Transaction)[D] \in Nat
    BY <1>1, <2>1
  <2> QED BY <2>5, <2>6 DEF D
<1> QED BY <1>2 DEF Groups

LEMMA GroupsAreSum ==
    ASSUME B!TypeOK, NEW date, NEW D \in SUBSET Category
    PROVE  B!MapThenSumSet(LAMBDA c : B!CategoryTotal(c, date), D)
              = SumOf(Groups(date), Category)[D]
<1> DEFINE it == CHOOSE it : it = [s \in SUBSET D |->
              IF s = {} THEN 0 ELSE B!CategoryTotal(Pick(s), date) + it[s \ {Pick(s)}]]
<1>1. B!MapThenSumSet(LAMBDA c : B!CategoryTotal(c, date), D) = it[D]
  BY Zenon DEF B!MapThenSumSet, B!MapThenFoldSet, Pick
<1>2. \A s \in SUBSET D : s # {} => B!CategoryTotal(Pick(s), date) = Groups(date)[Pick(s)]
  BY PickIn DEF Groups
<1>3. IsFiniteSet(Category) /\ Groups(date) \in [Category -> Nat]
  BY BudgetsFinite, GroupsNat
<1>4. \E F : Iterates(F, Groups(date), D)
  BY <1>3, SumOfFold
<1>5. ASSUME NEW F
      PROVE  Iterates(F, Groups(date), D) <=> F = [s \in SUBSET D |->
                IF s = {} THEN 0 ELSE B!CategoryTotal(Pick(s), date) + F[s \ {Pick(s)}]]
  <2>1. [s \in SUBSET D |-> IF s = {} THEN 0 ELSE Groups(date)[Pick(s)] + F[s \ {Pick(s)}]]
           = [s \in SUBSET D |->
                IF s = {} THEN 0 ELSE B!CategoryTotal(Pick(s), date) + F[s \ {Pick(s)}]]
    BY <1>2
  <2> QED BY <2>1, Zenon DEF Iterates
<1>6. it = [s \in SUBSET D |->
              IF s = {} THEN 0 ELSE B!CategoryTotal(Pick(s), date) + it[s \ {Pick(s)}]]
  <2>1. \E F : F = [s \in SUBSET D |->
              IF s = {} THEN 0 ELSE B!CategoryTotal(Pick(s), date) + F[s \ {Pick(s)}]]
    BY <1>4, <1>5, Zenon
  <2> QED BY <2>1, Zenon
<1> HIDE DEF it
<1>7. Iterates(it, Groups(date), D)
  BY <1>5, <1>6, Zenon
<1>8. it[D] = SumOf(Groups(date), Category)[D]
  BY <1>3, <1>7, SumIsFold
<1> QED BY <1>1, <1>8

LEMMA GroupsAddUp ==
    ASSUME B!TypeOK, NEW date, NEW D \in SUBSET Category
    PROVE  B!MapThenSumSet(LAMBDA c : B!CategoryTotal(c, date), D)
              = B!Total({t \in InMonth(date) : transactions[t].category \in D})
<1> DEFINE g == [t \in Transaction |-> transactions[t].category]
           E == {t \in InMonth(date) : transactions[t].category \in D}
<1>1. /\ IsFiniteSet(Transaction) /\ Spend \in [Transaction -> Nat]
      /\ IsFiniteSet(Category) /\ Groups(date) \in [Category -> Nat]
  BY BudgetsFinite, SpendNat, GroupsNat
<1>2. InMonth(date) \in SUBSET Transaction /\ E \in SUBSET Live
  BY DEF InMonth, B!Expenses, Live
<1>4. E = Having(InMonth(date), g, D)
  BY <1>2 DEF Having
<1>5. ASSUME NEW c \in Category
      PROVE  Groups(date)[c] = SumOf(Spend, Transaction)[Having(InMonth(date), g, {c})]
  <2>1. {t \in InMonth(date) : transactions[t].category = c} = Having(InMonth(date), g, {c})
    BY <1>2 DEF Having
  <2>2. Groups(date)[c] = SumOf(Spend, Transaction)[
                             {t \in InMonth(date) : transactions[t].category = c}]
    BY GroupsNat
  <2> QED BY <2>1, <2>2, Zenon
<1> HIDE DEF g, E
<1>6. SumOf(Groups(date), Category)[D]
         = SumOf(Spend, Transaction)[Having(InMonth(date), g, D)]
  BY <1>1, <1>2, <1>5, SumByGroup
<1>7. B!Total(E) = SumOf(Spend, Transaction)[E]
  BY <1>2, TotalIsSum
<1>8. B!MapThenSumSet(LAMBDA c : B!CategoryTotal(c, date), D) = B!Total(E)
  BY <1>4, <1>6, <1>7, GroupsAreSum
<1> QED BY <1>8 DEF E

\* Two days have the same month when one is in the window that begins with the
\* other's.
LEMMA SameMonth ==
    ASSUME NEW d \in B!Day, NEW e \in B!Day
    PROVE  d \in B!NormalizeMonth(e) .. (B!NormalizeMonth(e) + MonthLength - 1)
              <=> B!MonthOf(d) = B!MonthOf(e)
<1>1. MonthLength \in Nat \ {0} /\ Months \in Nat \ {0}
  BY ServicesAssumption DEF B!BudgetsAssumption
<1> DEFINE p == d \div MonthLength
           q == e \div MonthLength
<1>2. d \in Nat /\ p \in Nat /\ p * MonthLength <= d /\ d < p * MonthLength + MonthLength
  BY <1>1, SMTT(30) DEF B!Day
<1>3. e \in Nat /\ q \in Nat
  BY <1>1, SMTT(30) DEF B!Day
<1> HIDE DEF p, q
<1>4. ASSUME NEW m \in Nat, NEW n \in Nat, m < n
      PROVE  m * MonthLength + MonthLength <= n * MonthLength
  <2>1. PICK k \in Nat : n = m + 1 + k
    <3>1. n - m - 1 \in Nat /\ n = m + 1 + (n - m - 1)
      BY <1>4
    <3> QED BY <3>1
  <2>2. k * MonthLength \in Nat
    BY <1>1
  <2>3. n * MonthLength = m * MonthLength + MonthLength + k * MonthLength
    BY <1>1, <2>1
  <2>4. m * MonthLength \in Nat /\ n * MonthLength \in Nat
    BY <1>1
  <2> QED BY <1>1, <2>2, <2>3, <2>4
<1>5. p * MonthLength \in Nat /\ q * MonthLength \in Nat
  BY <1>1, <1>2, <1>3
<1>6. d \in q * MonthLength .. (q * MonthLength + MonthLength - 1) <=> p = q
  <2>1. CASE p < q
    BY <1>1, <1>2, <1>3, <1>4, <1>5, <2>1
  <2>2. CASE q < p
    BY <1>1, <1>2, <1>3, <1>4, <1>5, <2>2
  <2>3. CASE p = q
    BY <1>1, <1>2, <1>5, <2>3
  <2> QED BY <1>2, <1>3, <2>1, <2>2, <2>3
<1> QED BY <1>6 DEF p, q, B!NormalizeMonth, B!MonthOf

LEMMA MonthStays ==
    ASSUME NEW d \in B!Day, d % MonthLength = 0 PROVE B!NormalizeMonth(d) = d
<1>1. MonthLength \in Nat \ {0} /\ d \in Int
  BY ServicesAssumption DEF B!BudgetsAssumption, B!Day
<1> QED BY <1>1, SMTT(30) DEF B!NormalizeMonth

\* The budget page, the category summary and the monthly summary add up to the
\* same sums, for any rows.
LEMMA BudgetsAgree == B!TypeOK => B!SummariesAgree
<1> SUFFICES ASSUME B!TypeOK PROVE B!SummariesAgree
  OBVIOUS
<1>t. \A t \in B!Expenses : transactions[t].category \in Category /\ transactions[t].date \in B!Day
  BY DEF B!TypeOK, B!TransactionRow, B!Expenses
<1>1. ASSUME NEW b \in Budget, budgets[b] # None
      PROVE  B!Spent(b) = B!MapThenSumSet(LAMBDA c : B!CategoryTotal(c, budgets[b].month),
                             {c \in Category : Lower[c] = Lower[budgets[b].category]})
  <2> DEFINE month == budgets[b].month
             spellings == {c \in Category : Lower[c] = Lower[budgets[b].category]}
             there == {t \in InMonth(month) : transactions[t].category \in spellings}
  <2>1. month \in B!Day /\ month % MonthLength = 0
    BY <1>1 DEF B!TypeOK, B!BudgetRow
  <2>2. B!NormalizeMonth(month) = month
    BY <2>1, MonthStays
  <2>3. B!SpentOn(budgets[b].category, month) = there
    BY <1>t, <2>2 DEF B!SpentOn, InMonth
  <2>4. B!Spent(b) = B!Total(there)
    BY <2>3, Zenon DEF B!Spent
  <2>5. spellings \in SUBSET Category
    OBVIOUS
  <2> HIDE DEF spellings, month
  <2>6. B!MapThenSumSet(LAMBDA c : B!CategoryTotal(c, month), spellings) = B!Total(there)
    BY <2>5, GroupsAddUp
  <2> QED BY <2>4, <2>6, Zenon DEF spellings, month
<1>2. ASSUME NEW date \in B!Day
      PROVE  B!MonthlyExpenses(date)
                = B!MapThenSumSet(LAMBDA c : B!CategoryTotal(c, date), Category)
  <2>1. {t \in InMonth(date) : transactions[t].category \in Category} = InMonth(date)
    BY <1>t DEF InMonth
  <2>2. B!MapThenSumSet(LAMBDA c : B!CategoryTotal(c, date), Category)
           = B!Total({t \in InMonth(date) : transactions[t].category \in Category})
    BY GroupsAddUp
  <2> QED BY <2>1, <2>2, Zenon DEF B!MonthlyExpenses, InMonth
<1>3. ASSUME NEW date \in B!Day
      PROVE  B!MonthlyExpenses(date)
                = B!Total({t \in B!Expenses : B!MonthOf(transactions[t].date) = B!MonthOf(date)})
  <2>1. {t \in B!Expenses : B!Within(t, B!NormalizeMonth(date))}
           = {t \in B!Expenses : B!MonthOf(transactions[t].date) = B!MonthOf(date)}
    BY <1>t, SameMonth DEF B!Within
  <2> QED BY <2>1, Zenon DEF B!MonthlyExpenses
<1> QED BY <1>1, <1>2, <1>3, Zenon DEF B!SummariesAgree, B!Exists

-----------------------------------------------------------------------------
(* The exchange rates.                                                     *)

TableOf(l) == IF l.pc \in R!Saving THEN "manual" ELSE "provider"

\* What a save will have done: its own rates are inserted or still to insert,
\* and unless another save committed since it began, it has met every rate of
\* the table before it inserts one.
Complete(l) ==
    /\ l.pc = "insert" => R!Given(l.rows) \subseteq l.todo \cup l.held
    /\ l.pc = "delete" /\ ~l.met => R!Given(manual) \subseteq l.todo \cup l.held
    /\ l.pc = "insert" /\ ~l.met => R!Given(manual) \subseteq l.held

RatesInv == R!TypeOK /\ R!SavesReplace /\ \A r \in R!Task : Complete(request[r])

\* l takes no row that another transaction holds.
Compatible(r, l) ==
    \/ l.held = {}
    \/ /\ TableOf(l) = R!Table(r)
       /\ \A q \in R!Task \ {r} : R!Table(q) = R!Table(r) => request[q].held \cap l.held = {}

LEMMA IdleTask == R!Idle \in R!Local /\ R!Idle.held = {} /\ R!Idle.pc = "idle"
BY DEF R!Idle, R!Local, R!NoRates, R!Overrides

LEMMA RatesInit == ASSUME R!Init PROVE RatesInv
<1>1. R!TypeOK
  BY IdleTask DEF R!Init, R!TypeOK, R!NoRates, R!Overrides
<1>2. R!SavesReplace
  BY DEF R!Init, R!SavesReplace
<1>3. \A r \in R!Task : Complete(request[r])
  BY IdleTask DEF R!Init, Complete
<1> QED BY <1>1, <1>2, <1>3 DEF RatesInv

\* A step of one task that leaves the overrides alone.
LEMMA TaskStep ==
    ASSUME RatesInv, NEW r \in R!Task, NEW l \in R!Local, R!Become(r, l),
           Compatible(r, l), Complete(l),
           UNCHANGED <<manual, saved, overlapped>>,
           provider' \in [R!Pair -> {None, "fresh", "stale"}]
    PROVE  RatesInv'
<1>1. /\ request' = [request EXCEPT ![r] = l] /\ request \in [R!Task -> R!Local]
      /\ request'[r] = l
      /\ \A q \in R!Task \ {r} : request'[q] = request[q]
  BY DEF R!Become, RatesInv, R!TypeOK
<1>2. R!TypeOK'
  <2>1. /\ \A q \in R!Task \ {r} : R!Table(q)' = R!Table(q)
        /\ R!Table(r)' = TableOf(l)
    BY <1>1 DEF R!Table, TableOf
  <2>2. \A q, t \in R!Task : q # t /\ R!Table(q) = R!Table(t)
                                => request[q].held \cap request[t].held = {}
    BY DEF RatesInv, R!TypeOK
  <2>3. ASSUME NEW q \in R!Task, NEW t \in R!Task, q # t, R!Table(q)' = R!Table(t)'
        PROVE  request'[q].held \cap request'[t].held = {}
    <3>1. CASE q # r /\ t # r
      BY <1>1, <2>1, <2>2, <2>3, <3>1
    <3>2. CASE q = r
      BY <1>1, <2>1, <2>3, <3>2 DEF Compatible
    <3>3. CASE t = r
      BY <1>1, <2>1, <2>3, <3>3 DEF Compatible
    <3> QED BY <3>1, <3>2, <3>3
  <2>4. request' \in [R!Task -> R!Local]
    BY <1>1
  <2> QED BY <2>3, <2>4 DEF RatesInv, R!TypeOK
<1>3. R!SavesReplace'
  BY DEF RatesInv, R!SavesReplace, R!Given
<1>4. ASSUME NEW q \in R!Task PROVE Complete(request[q])'
  BY <1>1 DEF RatesInv, Complete, R!Given
<1> QED BY <1>2, <1>3, <1>4 DEF RatesInv

\* A task that ends, or begins to fetch, has no row.
LEMMA TaskWithoutRows ==
    ASSUME RatesInv, NEW r \in R!Task, NEW l \in R!Local, R!Become(r, l),
           l.held = {}, l.pc \notin R!Saving,
           UNCHANGED <<manual, saved, overlapped>>,
           provider' \in [R!Pair -> {None, "fresh", "stale"}]
    PROVE  RatesInv'
BY TaskStep DEF Compatible, Complete, R!Saving

\* A task that keeps its table and takes one more row, which is free.
LEMMA OneMoreRow ==
    ASSUME RatesInv, NEW r \in R!Task, NEW l \in R!Local, NEW p, R!Free(r, p),
           TableOf(l) = R!Table(r), l.held \subseteq request[r].held \cup {p}
    PROVE  Compatible(r, l)
BY DEF Compatible, R!Free, RatesInv, R!TypeOK

LEMMA ReplaceStep ==
    ASSUME RatesInv, NEW r \in R!Task, R!Replace(r) PROVE RatesInv'
<1>1. PICK rows \in R!Overrides :
        R!Become(r, [R!Idle EXCEPT !.pc = "delete", !.rows = rows, !.todo = R!Given(manual)])
  BY DEF R!Replace
<1> DEFINE l == [R!Idle EXCEPT !.pc = "delete", !.rows = rows, !.todo = R!Given(manual)]
<1>2. l \in R!Local /\ l.held = {} /\ l.pc = "delete" /\ l.todo = R!Given(manual)
  BY DEF R!Idle, R!Local, R!NoRates, R!Overrides, R!Given
<1>3. R!Become(r, l)
  BY <1>1
<1> HIDE DEF l
<1>4. Compatible(r, l) /\ Complete(l)
  BY <1>2 DEF Compatible, Complete
<1>5. UNCHANGED <<manual, saved, overlapped>> /\ provider' \in [R!Pair -> {None, "fresh", "stale"}]
  BY DEF R!Replace, RatesInv, R!TypeOK
<1> QED BY <1>2, <1>3, <1>4, <1>5, TaskStep

LEMMA DeleteRowStep ==
    ASSUME RatesInv, NEW r \in R!Task, R!DeleteRow(r) PROVE RatesInv'
<1>1. PICK p \in request[r].todo :
        /\ R!Free(r, p)
        /\ R!Become(r, [request[r] EXCEPT !.todo = @ \ {p}, !.held = @ \cup {p}])
  BY DEF R!DeleteRow
<1> DEFINE l == [request[r] EXCEPT !.todo = @ \ {p}, !.held = @ \cup {p}]
<1>2. request[r] \in R!Local /\ request[r].pc = "delete" /\ Complete(request[r])
  BY DEF R!DeleteRow, R!At, RatesInv, R!TypeOK
<1>3. /\ l \in R!Local /\ l.pc = "delete" /\ l.met = request[r].met
      /\ l.todo = request[r].todo \ {p} /\ l.held = request[r].held \cup {p}
  BY <1>1, <1>2 DEF R!Local
<1> HIDE DEF l
<1>4. Compatible(r, l)
  BY <1>1, <1>2, <1>3, OneMoreRow DEF TableOf, R!Table
<1>5. Complete(l)
  BY <1>1, <1>2, <1>3 DEF Complete
<1>6. R!Become(r, l)
  BY <1>1 DEF l
<1> QED BY <1>3, <1>4, <1>5, <1>6, TaskStep DEF R!DeleteRow, RatesInv, R!TypeOK

LEMMA InsertStep ==
    ASSUME RatesInv, NEW r \in R!Task, R!Insert(r) PROVE RatesInv'
<1> DEFINE l == [request[r] EXCEPT !.pc = "insert", !.todo = R!Given(request[r].rows)]
<1>1. /\ request[r] \in R!Local /\ request[r].pc = "delete" /\ request[r].todo = {}
      /\ Complete(request[r]) /\ R!Become(r, l)
  BY DEF R!Insert, R!At, RatesInv, R!TypeOK
<1>2. /\ l \in R!Local /\ l.pc = "insert" /\ l.met = request[r].met /\ l.rows = request[r].rows
      /\ l.todo = R!Given(l.rows) /\ l.held = request[r].held
  BY <1>1 DEF R!Local, R!Given
<1> HIDE DEF l
<1>3. Compatible(r, l)
  <2>1. TableOf(l) = R!Table(r)
    BY <1>1, <1>2 DEF TableOf, R!Table, R!Saving
  <2> QED BY <1>2, <2>1 DEF Compatible, RatesInv, R!TypeOK
<1>4. Complete(l)
  BY <1>1, <1>2 DEF Complete
<1> QED BY <1>1, <1>2, <1>3, <1>4, TaskStep DEF R!Insert, RatesInv, R!TypeOK

LEMMA InsertRowStep ==
    ASSUME RatesInv, NEW r \in R!Task, R!InsertRow(r) PROVE RatesInv'
<1>1. PICK p \in request[r].todo :
        /\ R!Free(r, p)
        /\ R!Become(r, IF manual[p] # None /\ p \notin request[r].held THEN R!Idle
                       ELSE [request[r] EXCEPT !.todo = @ \ {p}, !.held = @ \cup {p}])
  BY DEF R!InsertRow
<1>2. UNCHANGED <<manual, saved, overlapped>> /\ provider' \in [R!Pair -> {None, "fresh", "stale"}]
  BY DEF R!InsertRow, RatesInv, R!TypeOK
<1>3. CASE manual[p] # None /\ p \notin request[r].held
  BY <1>1, <1>2, <1>3, IdleTask, TaskWithoutRows DEF R!Saving
<1>4. CASE ~(manual[p] # None /\ p \notin request[r].held)
  <2> DEFINE l == [request[r] EXCEPT !.todo = @ \ {p}, !.held = @ \cup {p}]
  <2>1. request[r] \in R!Local /\ request[r].pc = "insert" /\ Complete(request[r])
    BY DEF R!InsertRow, R!At, RatesInv, R!TypeOK
  <2>2. /\ l \in R!Local /\ l.pc = "insert" /\ l.met = request[r].met /\ l.rows = request[r].rows
        /\ l.todo = request[r].todo \ {p} /\ l.held = request[r].held \cup {p}
    BY <1>1, <2>1 DEF R!Local
  <2>3. R!Become(r, l)
    BY <1>1, <1>4
  <2> HIDE DEF l
  <2>4. Compatible(r, l)
    BY <1>1, <2>1, <2>2, OneMoreRow DEF TableOf, R!Table
  <2>5. Complete(l)
    BY <1>1, <2>1, <2>2 DEF Complete
  <2> QED BY <1>2, <2>2, <2>3, <2>4, <2>5, TaskStep
<1> QED BY <1>3, <1>4

\* The save that commits has met every rate of the table, unless another one
\* committed since it began: what it does not hold was not there.
LEMMA CommitStep ==
    ASSUME RatesInv, NEW r \in R!Task, R!Commit(r) PROVE RatesInv'
<1> DEFINE rows == request[r].rows
           held == request[r].held
           gone == {p \in held : manual[p] # None}
<1>1. /\ request \in [R!Task -> R!Local] /\ request[r] \in R!Local /\ Complete(request[r])
      /\ request[r].pc = "insert" /\ request[r].todo = {}
      /\ manual \in R!Overrides /\ rows \in R!Overrides /\ held \subseteq R!Pair
  BY DEF R!Commit, R!At, RatesInv, R!TypeOK, R!Local
<1>2. /\ manual' = [p \in R!Pair |-> IF p \in held THEN rows[p] ELSE manual[p]]
      /\ saved' = rows /\ overlapped' = request[r].met /\ UNCHANGED provider
  BY DEF R!Commit, R!Written
<1>3. \A q \in R!Task : request'[q] =
        IF q = r THEN R!Idle
        ELSE IF request[q].pc \in R!Saving
          THEN [request[q] EXCEPT !.met = TRUE,
                                  !.todo = IF request[q].pc = "delete" THEN @ \ gone ELSE @]
        ELSE request[q]
  BY DEF R!Commit, R!At
<1>4. ASSUME NEW q \in R!Task
      PROVE  /\ request'[q] \in R!Local /\ Complete(request[q])'
             /\ request'[q].held = {} \/ (request'[q].held = request[q].held /\ R!Table(q)' = R!Table(q))
  <2>1. CASE q = r
    BY <1>3, <2>1, IdleTask DEF Complete
  <2>2. CASE q # r /\ request[q].pc \in R!Saving
    <3> DEFINE todo == IF request[q].pc = "delete" THEN request[q].todo \ gone ELSE request[q].todo
               l == [request[q] EXCEPT !.met = TRUE, !.todo = todo]
    <3>1. request[q] \in R!Local /\ todo \subseteq request[q].todo /\ Complete(request[q])
      BY <1>1 DEF RatesInv
    <3>2. /\ l \in R!Local /\ l.pc = request[q].pc /\ l.met = TRUE /\ l.held = request[q].held
          /\ l.rows = request[q].rows /\ l.todo = todo
      BY <3>1 DEF R!Local
    <3>3. request'[q] = l
      BY <1>3, <2>2
    <3> HIDE DEF l
    <3>4. Complete(request[q])'
      BY <3>1, <3>2, <3>3 DEF Complete, R!Given
    <3> QED BY <3>2, <3>3, <3>4 DEF R!Table
  <2>3. CASE q # r /\ request[q].pc \notin R!Saving
    BY <1>1, <1>3, <2>3 DEF Complete, R!Saving, R!Table
  <2> QED BY <2>1, <2>2, <2>3
<1>5. R!TypeOK'
  <2>1. request' = [q \in R!Task |-> request'[q]]
    BY DEF R!Commit
  <2>2. request' \in [R!Task -> R!Local]
    BY <1>4, <2>1
  <2>3. manual' \in R!Overrides /\ saved' \in R!Overrides /\ overlapped' \in BOOLEAN
    BY <1>1, <1>2 DEF R!Overrides, R!Local
  <2>4. ASSUME NEW q \in R!Task, NEW t \in R!Task, q # t, R!Table(q)' = R!Table(t)'
        PROVE  request'[q].held \cap request'[t].held = {}
    BY <1>4, <2>4 DEF RatesInv, R!TypeOK
  <2> QED BY <1>2, <2>2, <2>3, <2>4 DEF RatesInv, R!TypeOK
<1>6. R!SavesReplace'
  <2>1. \A p \in R!Given(rows) : manual'[p] = saved'[p]
    BY <1>1, <1>2 DEF Complete, R!Given
  <2>2. ASSUME request[r].met = FALSE PROVE manual' = saved'
    <3>1. \A p \in R!Pair : p \notin held => manual[p] = None /\ rows[p] = None
      BY <1>1, <2>2 DEF Complete, R!Given
    <3>2. \A p \in R!Pair : manual'[p] = rows[p]
      BY <1>2, <3>1
    <3> QED BY <1>1, <1>2, <3>2 DEF R!Overrides
  <2>3. request[r].met \in BOOLEAN
    BY <1>1 DEF R!Local
  <2> QED BY <1>2, <2>1, <2>2, <2>3 DEF R!SavesReplace, R!Given
<1> QED BY <1>4, <1>5, <1>6 DEF RatesInv

\* The cache of the provider's rates: the tasks begin without rows and take them
\* one at a time.
LEMMA RefreshStep ==
    ASSUME RatesInv, NEW r \in R!Task, R!Refresh(r) PROVE RatesInv'
<1>0. /\ request[r] \in R!Local /\ Complete(request[r])
      /\ provider \in [R!Pair -> {None, "fresh", "stale"}]
  BY DEF RatesInv, R!TypeOK
<1>1. ASSUME NEW C \in SUBSET Currency
      PROVE  /\ R!Fetching(C) \in R!Local /\ R!Fetching(C).held = {} /\ R!Fetching(C).pc = "fetch"
             /\ [R!Idle EXCEPT !.pc = "again", !.asked = C] \in R!Local
  BY DEF R!Fetching, R!Idle, R!Local, R!NoRates, R!Overrides
<1>2. CASE R!List(r) \/ R!ReadAgain(r) \/ R!Resolve(r) \/ R!WorkerRefresh(r)
  <2>1. PICK l \in R!Local : R!Become(r, l) /\ l.held = {} /\ l.pc \notin R!Saving
    <3>1. CASE R!List(r)
      <4>1. PICK C \in SUBSET Currency :
              \/ R!Become(r, R!Fetching(C))
              \/ R!Become(r, [R!Idle EXCEPT !.pc = "again", !.asked = C])
        BY <3>1 DEF R!List
      <4>2. LET l == [R!Idle EXCEPT !.pc = "again", !.asked = C]
            IN  l \in R!Local /\ l.held = {} /\ l.pc = "again"
        BY <1>1 DEF R!Idle
      <4> QED BY <1>1, <4>1, <4>2 DEF R!Saving
    <3>2. CASE R!ReadAgain(r)
      <4>1. request[r].asked \in SUBSET Currency
        BY <1>0 DEF R!Local
      <4> QED BY <1>1, <3>2, <4>1, IdleTask DEF R!ReadAgain, R!Saving
    <3>3. CASE R!Resolve(r)
      <4>1. PICK p \in R!Pair :
              R!Become(r, [R!Fetching({p[1], p[2]}) EXCEPT !.down = p[1] > p[2]])
        BY <3>3 DEF R!Resolve
      <4> DEFINE down == p[1] > p[2]
                 l == [R!Fetching({p[1], p[2]}) EXCEPT !.down = down]
      <4>2. {p[1], p[2]} \in SUBSET Currency /\ down \in BOOLEAN
        BY DEF R!Pair
      <4>3. l \in R!Local /\ l.held = {} /\ l.pc = "fetch"
        <5> HIDE DEF down
        <5> QED BY <1>1, <4>2 DEF R!Local
      <4> QED BY <4>1, <4>3 DEF R!Saving
    <3>4. CASE R!WorkerRefresh(r)
      BY <1>1, <3>4 DEF R!WorkerRefresh, R!Saving
    <3> QED BY <1>2, <3>1, <3>2, <3>3, <3>4
  <2>2. UNCHANGED <<manual, provider, saved, overlapped>>
    BY <1>2 DEF R!List, R!ReadAgain, R!Resolve, R!WorkerRefresh
  <2> QED BY <1>0, <2>1, <2>2, TaskWithoutRows
<1>3. CASE R!Fetch(r)
  <2>1. PICK fetched \in SUBSET R!Pair :
          R!Become(r, IF fetched = {} THEN R!Idle
                      ELSE [request[r] EXCEPT !.pc = "upsert", !.todo = fetched, !.fetched = fetched])
    BY <1>3 DEF R!Fetch, R!Between
  <2> DEFINE l == [request[r] EXCEPT !.pc = "upsert", !.todo = fetched, !.fetched = fetched]
  <2>2. UNCHANGED <<manual, provider, saved, overlapped>> /\ request[r].pc = "fetch"
    BY <1>3 DEF R!Fetch, R!At
  <2>3. CASE fetched = {}
    BY <1>0, <2>1, <2>2, <2>3, IdleTask, TaskWithoutRows DEF R!Saving
  <2>4. CASE fetched # {}
    <3>1. l \in R!Local /\ l.pc = "upsert" /\ l.held = request[r].held
      BY <1>0 DEF R!Local
    <3>2. R!Become(r, l)
      BY <2>1, <2>4
    <3> HIDE DEF l
    <3>3. Compatible(r, l)
      <4>1. TableOf(l) = R!Table(r)
        BY <2>2, <3>1 DEF TableOf, R!Table, R!Saving
      <4> QED BY <3>1, <4>1 DEF Compatible, RatesInv, R!TypeOK
    <3>4. Complete(l)
      BY <3>1 DEF Complete
    <3> QED BY <1>0, <2>2, <3>1, <3>2, <3>3, <3>4, TaskStep
  <2> QED BY <2>3, <2>4
<1>4. CASE R!UpsertRow(r)
  <2>1. PICK p \in request[r].todo :
          /\ R!Free(r, p)
          /\ R!Become(r, [request[r] EXCEPT !.todo = @ \ {p}, !.held = @ \cup {p}])
    BY <1>4 DEF R!UpsertRow, R!NextRows
  <2> DEFINE l == [request[r] EXCEPT !.todo = @ \ {p}, !.held = @ \cup {p}]
  <2>2. UNCHANGED <<manual, provider, saved, overlapped>> /\ request[r].pc = "upsert"
    BY <1>4 DEF R!UpsertRow, R!At
  <2>3. l \in R!Local /\ l.pc = "upsert" /\ l.held = request[r].held \cup {p}
    BY <1>0, <2>1, <2>2 DEF R!Local
  <2>4. R!Become(r, l)
    BY <2>1
  <2> HIDE DEF l
  <2>5. Compatible(r, l)
    BY <2>1, <2>2, <2>3, OneMoreRow DEF TableOf, R!Table
  <2>6. Complete(l)
    BY <2>3 DEF Complete
  <2> QED BY <1>0, <2>2, <2>3, <2>4, <2>5, <2>6, TaskStep
<1>5. CASE R!UpsertDone(r)
  <2>1. /\ R!Become(r, R!Idle) /\ UNCHANGED <<manual, saved, overlapped>>
        /\ provider' = [p \in R!Pair |-> IF p \in request[r].fetched THEN "fresh" ELSE provider[p]]
    BY <1>5 DEF R!UpsertDone, R!Upserted
  <2>2. provider' \in [R!Pair -> {None, "fresh", "stale"}]
    BY <1>0, <2>1
  <2> QED BY <2>1, <2>2, IdleTask, TaskWithoutRows DEF R!Saving
<1> QED BY <1>2, <1>3, <1>4, <1>5 DEF R!Refresh

LEMMA RatesNext ==
    ASSUME RatesInv, R!Next \/ UNCHANGED ratesVars PROVE RatesInv'
<1>1. CASE R!Age \/ UNCHANGED ratesVars
  <2>1. /\ UNCHANGED <<manual, request, saved, overlapped>>
        /\ provider' \in [R!Pair -> {None, "fresh", "stale"}]
    BY <1>1 DEF R!Age, ratesVars, RatesInv, R!TypeOK
  <2>2. R!TypeOK'
    BY <2>1 DEF RatesInv, R!TypeOK, R!Table
  <2>3. R!SavesReplace'
    BY <2>1 DEF RatesInv, R!SavesReplace, R!Given
  <2>4. ASSUME NEW q \in R!Task PROVE Complete(request[q])'
    BY <2>1 DEF RatesInv, Complete, R!Given
  <2> QED BY <2>2, <2>3, <2>4 DEF RatesInv
<1>2. ASSUME NEW r \in R!Task, R!Victim(r) \/ R!Crash(r) PROVE RatesInv'
  <2>1. /\ R!Become(r, R!Idle) /\ UNCHANGED <<manual, saved, overlapped>>
        /\ provider' \in [R!Pair -> {None, "fresh", "stale"}]
    BY <1>2 DEF R!Victim, R!Crash, RatesInv, R!TypeOK
  <2> QED BY <2>1, IdleTask, TaskWithoutRows DEF R!Saving
<1>3. ASSUME NEW r \in R!Task, R!Save(r) PROVE RatesInv'
  BY <1>3, ReplaceStep, DeleteRowStep, InsertStep, InsertRowStep, CommitStep DEF R!Save
<1> QED BY <1>1, <1>2, <1>3, RefreshStep DEF R!Next

-----------------------------------------------------------------------------
(* The four services.                                                      *)

ServicesInv ==
    /\ service \in {"throttle", "rates", "budgets", "seed"}
    /\ ThrottleInv /\ RatesInv /\ B!TypeOK /\ SeedInv

LEMMA ServicesInvariant == Spec => []ServicesInv
<1>1. Init => ServicesInv
  BY ThrottleInit, RatesInit, BudgetsInit, SeedInit DEF Init, ServicesInv
<1>2. ServicesInv /\ [Next]_vars => ServicesInv'
  <2> SUFFICES ASSUME ServicesInv, [Next]_vars PROVE ServicesInv'
    OBVIOUS
  <2>1. /\ T!Next \/ UNCHANGED throttleVars
        /\ R!Next \/ UNCHANGED ratesVars
        /\ B!Next \/ UNCHANGED budgetsVars
        /\ S!Next \/ UNCHANGED seedVars
        /\ UNCHANGED service
    BY DEF Next, vars
  <2> QED BY <2>1, ThrottleNext, RatesNext, BudgetsNext, SeedNext DEF ServicesInv
<1> QED BY <1>1, <1>2, PTL DEF Spec

\* The rows and the requests of the four services stay well formed.
THEOREM ServicesWellTyped == Spec => []TypeOK
<1>1. ServicesInv => TypeOK
  BY DEF ServicesInv, ThrottleInv, RatesInv, SeedInv, TypeOK
<1> QED BY <1>1, ServicesInvariant, PTL

\* The lockout is exact (login_user): an address is locked when and only when
\* MaxFailed wrong passwords were answered since the last lockout or sign-in,
\* and the sign-ins that passed the check before it cost one guess each.
THEOREM LockoutIsExact == Spec => []LockedOut
<1>1. ServicesInv => LockedOut
  BY ThrottleLocks DEF ServicesInv
<1> QED BY <1>1, ServicesInvariant, PTL

\* A save replaces the overrides as a whole (replace_exchange_rates): whatever
\* other saves and refreshes run, die, are refused or end in a deadlock, the
\* set that committed last is there, and nothing else is unless two accepted
\* saves overlapped.
THEOREM SavesAreWhole == Spec => []SavesReplace
<1>1. ServicesInv => SavesReplace
  BY DEF ServicesInv, RatesInv, SavesReplace
<1> QED BY <1>1, ServicesInvariant, PTL

\* Whatever rows are written, a budget has spent what the category summary says of
\* its month, all spellings together; the categories add up to the monthly
\* summary; every expense is in exactly one month (list_budgets, monthly_summary,
\* category_summary).
THEOREM SummariesAddUp == Spec => []SummariesAgree
<1>1. ServicesInv => SummariesAgree
  BY BudgetsAgree DEF ServicesInv, SummariesAgree
<1> QED BY <1>1, ServicesInvariant, PTL

\* However many servers start, die and start again, nothing is seeded twice, and
\* nothing before the calls it builds on (seed_dev_data).
THEOREM SeedIsIdempotent == Spec => []SeededOnce
<1>1. ServicesInv => SeededOnce
  BY DEF ServicesInv, SeedInv, SeededOnce
<1> QED BY <1>1, ServicesInvariant, PTL
=============================================================================
