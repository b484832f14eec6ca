-------------------------- MODULE RecurringProofs --------------------------
(* What the recurring worker posts, for any number of workers, clients and *)
(* rules and any calendar.                                                 *)
EXTENDS Recurring, TLAPS

-----------------------------------------------------------------------------
(* The inductive invariant.                                                *)

\* A claimed rule is the rule of the table, moved on by the loop: its lock
\* keeps edits, deletions and other workers away.
ClaimsHold ==
    \A w \in Worker, k \in RuleId :
       worker[w].claimed[k] # None =>
          /\ rules[k] # None
          /\ worker[w].claimed[k].frequency = rules[k].frequency
          /\ rules[k].next <= worker[w].claimed[k].next
          /\ \A v \in Worker : worker[v].claimed[k] # None => v = w

\* What a cycle inserted lies between the date of the table and the loop's.
RowsInCycle ==
    \A w \in Worker :
       /\ worker[w].today <= day
       /\ worker[w].pc # "loop" => worker[w].rows = {}
       /\ \A k \in RuleId, d \in Date :
             <<k, d>> \in worker[w].rows =>
                /\ worker[w].claimed[k] # None
                /\ rules[k].next <= d /\ d < worker[w].claimed[k].next
                /\ d <= worker[w].today

\* What was posted lies before the date of the table, in the current schedule
\* and, unless an edit moved that date back, in every earlier one.
PostedBefore ==
    \A k \in RuleId, n \in Number, d \in Date :
       posted[<<k, n, d>>] > 0 =>
          /\ d <= day
          /\ n <= schedule[k].number
          /\ schedule[k].start # 0
          /\ k \in LiveRules /\ (n = schedule[k].number \/ ~schedule[k].rewound)
                => d < rules[k].next

\* A rule that was never created has no row in the table.
NotCreated == \A k \in RuleId : schedule[k].start = 0 => rules[k] = None

PostInv == /\ TypeOK /\ ClaimsHold /\ RowsInCycle /\ PostedBefore /\ NotCreated
           /\ NoDoublePosting

-----------------------------------------------------------------------------
(* The calendar.                                                           *)

\* advance_date always moves on: the loop of the worker ends.
LEMMA AdvanceLater ==
    ASSUME NEW d \in Date, NEW f \in Frequency
    PROVE  Advance(f, d) \in Nat /\ Advance(f, d) > d
<1>d. d \in Nat /\ LastDay \in Nat /\ Week \in Nat \ {0} /\ Months \in Nat
  BY CalendarAssumption DEF Date
<1>1. CASE f = "daily"
  BY <1>1, <1>d DEF Advance
<1>2. CASE f = "weekly"
  BY <1>2, <1>d DEF Advance
<1>3. CASE f = "monthly"
  <2>1. PICK m \in 1 .. Months : m = MonthOf(d) /\ MonthStart[m] <= d /\ d < MonthStart[m + 1]
    <3>1. \E m \in 1 .. Months : MonthStart[m] <= d /\ d < MonthStart[m + 1]
      BY CalendarAssumption
    <3> QED BY <3>1 DEF MonthOf
  <2>2. /\ m \in Nat /\ m + 1 \in 1 .. Months + 1
        /\ MonthStart[m] \in Nat /\ MonthStart[m + 1] \in Nat /\ MonthStart[m + 2] \in Nat
        /\ MonthStart[m + 1] < MonthStart[m + 1 + 1] /\ m + 1 + 1 = m + 2
    BY <1>d, CalendarAssumption
  <2>3. Length(m + 1) \in Nat \ {0}
    BY <2>2 DEF Length
  <2>4. NextMonth(d) \in Nat /\ NextMonth(d) >= MonthStart[m + 1]
    BY <2>1, <2>2, <2>3, <1>d DEF NextMonth
  <2> QED BY <1>3, <2>1, <2>2, <2>4, <1>d DEF Advance
<1> QED BY <1>1, <1>2, <1>3, RuleAssumption

-----------------------------------------------------------------------------
(* Users and the calendar.                                                 *)

LEMMA DatesNat == /\ LastDay \in Nat \ {0} /\ Date \subseteq Nat \ {0}
                  /\ StartDate \subseteq Nat \ {0} /\ Number \subseteq Nat
                  /\ MaxEdits \in Nat /\ None \notin Rule
BY CalendarAssumption, RuleAssumption DEF Date, Number, Rule

LEMMA SleepOK == Sleep \in Cycle /\ \A k \in RuleId : Sleep.claimed[k] = None
BY DEF Sleep, Cycle

LEMMA TickInv ==
    ASSUME PostInv, Tick PROVE PostInv'
<1> USE DatesNat DEF PostInv, Tick
<1>1. TypeOK'
  BY DEF TypeOK, Date
<1>2. ClaimsHold' /\ NotCreated' /\ NoDoublePosting'
  BY DEF ClaimsHold, NotCreated, NoDoublePosting, Rows
<1>3. RowsInCycle'
  BY DEF RowsInCycle, TypeOK, Cycle
<1>4. PostedBefore'
  BY DEF PostedBefore, TypeOK, LiveRules
<1> QED BY <1>1, <1>2, <1>3, <1>4

LEMMA CreateInv ==
    ASSUME PostInv, NEW k \in RuleId, Create(k) PROVE PostInv'
<1> USE DatesNat DEF PostInv
<1>1. PICK d \in StartDate, f \in Frequency :
         /\ rules' = [rules EXCEPT ![k] = [next |-> d, frequency |-> f]]
         /\ schedule' = [schedule EXCEPT ![k].start = d]
         /\ schedule[k].start = 0
         /\ UNCHANGED <<day, form, worker, failures, posted>>
  BY DEF Create
<1>2. TypeOK'
  BY <1>1 DEF TypeOK, Rule
<1>3. rules[k] = None
  BY <1>1 DEF NotCreated
<1>4. ClaimsHold'
  BY <1>1, <1>3 DEF ClaimsHold, TypeOK
<1>5. RowsInCycle'
  BY <1>1, <1>3 DEF RowsInCycle, TypeOK, ClaimsHold
<1>6. PostedBefore' /\ NotCreated'
  BY <1>1, <1>3 DEF PostedBefore, NotCreated, TypeOK, LiveRules
<1>7. NoDoublePosting'
  BY <1>1 DEF NoDoublePosting, Rows, TypeOK
<1> QED BY <1>2, <1>4, <1>5, <1>6, <1>7

LEMMA OpenFormInv ==
    ASSUME PostInv, NEW c \in Client, NEW k \in RuleId, OpenForm(c, k) PROVE PostInv'
<1> USE DEF PostInv, OpenForm
<1>1. TypeOK'
  BY DEF TypeOK, LiveRules
<1>2. ClaimsHold' /\ RowsInCycle' /\ PostedBefore' /\ NotCreated' /\ NoDoublePosting'
  BY DEF ClaimsHold, RowsInCycle, PostedBefore, NotCreated, NoDoublePosting, Rows, LiveRules
<1> QED BY <1>1, <1>2

LEMMA DeleteInv ==
    ASSUME PostInv, NEW k \in RuleId, Delete(k) PROVE PostInv'
<1> USE DEF PostInv, Delete, Locked
<1>1. TypeOK'
  BY DEF TypeOK
<1>2. ClaimsHold' /\ NotCreated' /\ NoDoublePosting'
  BY DEF ClaimsHold, NotCreated, NoDoublePosting, Rows, TypeOK
<1>3. RowsInCycle'
  BY DEF RowsInCycle, TypeOK
<1>4. PostedBefore'
  BY DEF PostedBefore, TypeOK, LiveRules
<1> QED BY <1>1, <1>2, <1>3, <1>4

LEMMA SaveInv ==
    ASSUME PostInv, NEW c \in Client, Save(c) PROVE PostInv'
<1> USE DatesNat DEF PostInv
<1> DEFINE k == form[c].id
<1>1. /\ k \in RuleId /\ ~Locked(k) /\ form' = [form EXCEPT ![c] = None]
      /\ UNCHANGED <<day, worker, failures, posted>>
  BY DEF Save, TypeOK
<1>2. CASE UNCHANGED <<rules, schedule>>
  BY <1>1, <1>2 DEF TypeOK, ClaimsHold, RowsInCycle, PostedBefore, NotCreated,
                    NoDoublePosting, Rows, LiveRules
<1>3. ASSUME k \in LiveRules, schedule[k].number < MaxEdits,
             NEW d \in StartDate \cup {form[c].rule.next}, NEW f \in Frequency,
             rules' = [rules EXCEPT ![k] = [next |-> d, frequency |-> f]],
             schedule' = [schedule EXCEPT ![k] =
                [number |-> @.number + 1, start |-> d, rewound |-> @.rewound \/ d < rules[k].next]]
      PROVE  PostInv'
  <2> HIDE DEF k
  <2>1. d \in Nat \ {0}
    BY <1>1, <1>3 DEF TypeOK, Save, Rule
  <2>2. TypeOK'
    BY <1>1, <1>3, <2>1 DEF TypeOK, Rule, Number, LiveRules
  <2>3. ClaimsHold' /\ NotCreated'
    BY <1>1, <1>3, <2>1 DEF ClaimsHold, NotCreated, TypeOK, Locked, LiveRules
  <2>4. RowsInCycle'
    BY <1>1, <1>3 DEF RowsInCycle, TypeOK, Locked
  <2>5. PostedBefore'
    <3> SUFFICES ASSUME NEW j \in RuleId, NEW n \in Number, NEW e \in Date,
                        posted[<<j, n, e>>] > 0
                 PROVE  /\ e <= day
                        /\ n <= schedule'[j].number
                        /\ schedule'[j].start # 0
                        /\ rules'[j] # None
                              /\ (n = schedule'[j].number \/ ~schedule'[j].rewound)
                              => e < rules'[j].next
      BY <1>1 DEF PostedBefore, LiveRules
    <3>1. /\ e <= day /\ n <= schedule[j].number /\ schedule[j].start # 0
          /\ rules[j] # None /\ ~schedule[j].rewound => e < rules[j].next
          /\ n \in Nat /\ e \in Nat /\ schedule[j].number \in Nat
      BY DEF PostedBefore, LiveRules, TypeOK
    <3>2. CASE j # k
      BY <3>2, <1>3 DEF PostedBefore, LiveRules, TypeOK
    <3>3. CASE j = k
      <4>1. /\ rules'[k].next = d
            /\ schedule'[k] = [number |-> schedule[k].number + 1, start |-> d,
                               rewound |-> schedule[k].rewound \/ d < rules[k].next]
        BY <1>1, <1>3 DEF TypeOK
      <4>2. rules[k] # None /\ rules[k].next \in Nat
        BY <1>1, <1>3 DEF LiveRules, TypeOK, Rule
      <4>3. schedule'[k].number # n /\ n <= schedule'[k].number /\ schedule'[k].start # 0
        BY <3>1, <3>3, <4>1, <2>1
      <4>4. ASSUME ~schedule'[k].rewound PROVE e < d
        <5>1. ~schedule[k].rewound /\ ~(d < rules[k].next)
          <6>1. schedule'[k].rewound = (schedule[k].rewound \/ d < rules[k].next)
            BY <4>1
          <6> QED BY <6>1, <4>4, Zenon
        <5> QED BY <5>1, <4>2, <2>1, <3>1, <3>3
      <4> QED BY <3>1, <3>3, <4>1, <4>3, <4>4
    <3> QED BY <3>2, <3>3
  <2>6. NoDoublePosting'
    BY <1>1, <1>3 DEF NoDoublePosting, TypeOK, Rows
  <2> QED BY <2>2, <2>3, <2>4, <2>5, <2>6
<1> QED BY <1>1, <1>2, <1>3 DEF Save

-----------------------------------------------------------------------------
(* The worker.                                                             *)

\* A worker that has inserted nothing yet.
LEMMA NoRows ==
    ASSUME RowsInCycle, NEW w \in Worker, NEW s \in Cycle, worker \in [Worker -> Cycle],
           s.rows = {}, s.today <= day, UNCHANGED <<day, rules>>,
           worker' = [worker EXCEPT ![w] = s]
    PROVE  RowsInCycle'
<1> SUFFICES ASSUME NEW u \in Worker
             PROVE  /\ worker'[u].today <= day
                    /\ worker'[u].pc # "loop" => worker'[u].rows = {}
                    /\ \A k \in RuleId, d \in Date :
                          <<k, d>> \in worker'[u].rows =>
                             /\ worker'[u].claimed[k] # None
                             /\ rules[k].next <= d /\ d < worker'[u].claimed[k].next
                             /\ d <= worker'[u].today
  BY DEF RowsInCycle
<1>1. CASE u = w
  BY <1>1
<1>2. CASE u # w
  BY <1>2 DEF RowsInCycle
<1> QED BY <1>1, <1>2

LEMMA BeginInv ==
    ASSUME PostInv, NEW w \in Worker, Begin(w) PROVE PostInv'
<1> USE DatesNat, SleepOK DEF PostInv
<1>1. PICK s \in Cycle :
         /\ worker' = [worker EXCEPT ![w] = s]
         /\ s.claimed = Sleep.claimed /\ s.rows = {} /\ s.today = 0
  <2>1. [Sleep EXCEPT !.pc = "begun", !.cutoff = day] \in Cycle
    BY DEF Sleep, Cycle, TypeOK
  <2> QED BY <2>1 DEF Begin, Sleep
<1>2. TypeOK'
  BY <1>1 DEF Begin, TypeOK
<1>3. ClaimsHold' /\ NotCreated' /\ NoDoublePosting' /\ PostedBefore'
  BY <1>1 DEF Begin, ClaimsHold, NotCreated, NoDoublePosting, Rows, TypeOK, PostedBefore, LiveRules
<1>4. RowsInCycle'
  <2>1. s.today <= day
    BY <1>1 DEF TypeOK
  <2> QED BY <1>1, <2>1, NoRows DEF Begin, TypeOK
<1> QED BY <1>2, <1>3, <1>4

LEMMA FailInv ==
    ASSUME PostInv, NEW w \in Worker, Fail(w) PROVE PostInv'
<1> USE DatesNat, SleepOK, RuleAssumption DEF PostInv, Fail
<1>1. TypeOK'
  BY DEF TypeOK
<1>2. ClaimsHold' /\ NotCreated' /\ NoDoublePosting' /\ PostedBefore'
  BY DEF ClaimsHold, NotCreated, NoDoublePosting, Rows, TypeOK, PostedBefore, LiveRules
<1>3. RowsInCycle'
  <2>1. Sleep.today <= day /\ Sleep.rows = {}
    BY DEF TypeOK, Sleep
  <2> QED BY <2>1, NoRows DEF TypeOK
<1> QED BY <1>1, <1>2, <1>3

LEMMA ClaimInv ==
    ASSUME PostInv, NEW w \in Worker, Claim(w) PROVE PostInv'
<1> USE DatesNat DEF PostInv
<1>c. worker[w] \in Cycle /\ worker[w].pc = "begun" /\ day \in Nat
  BY DEF Claim, TypeOK
<1> DEFINE claimed == [k \in RuleId |->
                          IF k \in LiveRules /\ Selected(w, k) /\ Free(k)
                          THEN rules[k] ELSE None]
<1>1. PICK s \in Cycle :
         /\ worker' = [worker EXCEPT ![w] = s]
         /\ s.rows = {} /\ s.today = day /\ s.claimed = claimed
  <2>1. claimed \in [RuleId -> Rule \cup {None}]
    BY DEF TypeOK
  <2> HIDE DEF claimed
  <2>2. [worker[w] EXCEPT !.pc = "loop", !.today = day, !.claimed = claimed] \in Cycle
    BY <1>c, <2>1 DEF Cycle
  <2>3. worker' = [worker EXCEPT ![w] =
           [worker[w] EXCEPT !.pc = "loop", !.today = day, !.claimed = claimed]]
    BY DEF Claim, claimed
  <2>4. worker[w].rows = {}
    BY <1>c DEF RowsInCycle
  <2> QED BY <1>c, <2>2, <2>3, <2>4 DEF Cycle
<1>2. \A k \in RuleId : s.claimed[k] # None =>
               s.claimed[k] = rules[k] /\ k \in LiveRules /\ Free(k)
  BY <1>1
<1> HIDE DEF claimed
<1>3. TypeOK'
  BY <1>1 DEF Claim, TypeOK
<1>4. ClaimsHold'
  <2> SUFFICES ASSUME NEW u \in Worker, NEW k \in RuleId, worker'[u].claimed[k] # None
               PROVE  /\ rules[k] # None
                      /\ worker'[u].claimed[k].frequency = rules[k].frequency
                      /\ rules[k].next <= worker'[u].claimed[k].next
                      /\ \A v \in Worker : worker'[v].claimed[k] # None => v = u
    BY DEF Claim, ClaimsHold
  <2>1. worker'[w] = s /\ \A v \in Worker : v # w => worker'[v] = worker[v]
    BY <1>1 DEF TypeOK
  <2>2. CASE u = w
    <3>1. s.claimed[k] = rules[k] /\ k \in LiveRules /\ Free(k)
      BY <1>2, <2>1, <2>2
    <3>2. rules[k] # None /\ rules[k].next <= rules[k].next
      BY <3>1 DEF LiveRules, TypeOK, Rule
    <3> QED BY <2>1, <2>2, <3>1, <3>2 DEF Locked, Free
  <2>3. CASE u # w
    BY <2>1, <2>3, <1>2 DEF Locked, Free, ClaimsHold
  <2> QED BY <2>2, <2>3
<1>5. RowsInCycle'
  <2>1. s.today <= day /\ UNCHANGED <<day, rules>>
    BY <1>1, <1>c DEF Claim
  <2> QED BY <1>1, <2>1, NoRows DEF TypeOK
<1>6. NotCreated' /\ NoDoublePosting' /\ PostedBefore'
  BY DEF Claim, NotCreated, NoDoublePosting, Rows, PostedBefore, LiveRules
<1> QED BY <1>3, <1>4, <1>5, <1>6

LEMMA MaterializeInv ==
    ASSUME PostInv, NEW w \in Worker, Materialize(w) PROVE PostInv'
<1> USE DatesNat DEF PostInv
<1>1. PICK k \in Batch(w) : Due(w, k) /\
         worker' = [worker EXCEPT ![w] =
            [worker[w] EXCEPT
               !.claimed[k].next = Advance(worker[w].claimed[k].frequency,
                                           worker[w].claimed[k].next),
               !.rows = worker[w].rows \cup {<<k, worker[w].claimed[k].next>>}]]
  BY DEF Materialize
<1> DEFINE d == worker[w].claimed[k].next
           f == worker[w].claimed[k].frequency
           e == Advance(f, d)
           s == [worker[w] EXCEPT !.claimed[k].next = e,
                                  !.rows = worker[w].rows \cup {<<k, d>>}]
<1>2. /\ worker[w] \in Cycle /\ worker[w].pc = "loop" /\ worker[w].today \in Nat
      /\ k \in RuleId /\ worker[w].claimed[k] # None /\ worker[w].claimed[k] \in Rule
      /\ d <= worker[w].today /\ worker[w].today <= day /\ day \in Date
      /\ worker \in [Worker -> Cycle]
  BY <1>1 DEF Batch, Due, Materialize, TypeOK, Cycle, RowsInCycle
<1>3. d \in Date /\ f \in Frequency
  BY <1>2 DEF Rule, Date
<1>4. e \in Nat \ {0} /\ d < e
  <2> HIDE DEF d, f
  <2>1. e \in Nat /\ e > d
    BY <1>3, AdvanceLater
  <2>2. d \in Nat \ {0}
    BY <1>3
  <2> HIDE DEF e
  <2> QED BY <2>1, <2>2
<1>5. worker' = [worker EXCEPT ![w] = s]
  BY <1>1
<1> DEFINE rule == [next |-> e, frequency |-> f]
<1>6. /\ s.claimed = [worker[w].claimed EXCEPT ![k] = rule]
      /\ s.rows = worker[w].rows \cup {<<k, d>>}
      /\ s.today = worker[w].today /\ s.pc = "loop"
      /\ s \in Cycle
  <2> DEFINE claimed == [worker[w].claimed EXCEPT ![k].next = e]
             rows == worker[w].rows \cup {<<k, d>>}
  <2> HIDE DEF e
  <2>1. rule \in Rule
    BY <1>3, <1>4 DEF Rule
  <2>2. [worker[w].claimed[k] EXCEPT !.next = e] = rule
    BY <1>2, <2>1 DEF Rule
  <2>3. claimed = [worker[w].claimed EXCEPT ![k] = rule]
    BY <2>2
  <2>4. claimed \in [RuleId -> Rule \cup {None}]
    BY <1>2, <2>1, <2>3 DEF Cycle
  <2>5. rows \in SUBSET (RuleId \X Date)
    BY <1>2, <1>3 DEF Cycle
  <2>6. s = [worker[w] EXCEPT !.claimed = claimed, !.rows = rows]
    OBVIOUS
  <2> HIDE DEF claimed, rows, rule, s
  <2>7. s \in Cycle /\ s.claimed = claimed /\ s.rows = rows
        /\ s.today = worker[w].today /\ s.pc = "loop"
    BY <1>2, <2>4, <2>5, <2>6 DEF Cycle
  <2> QED BY <2>3, <2>7 DEF rows
<1>8. worker'[w] = s /\ \A v \in Worker : v # w => worker'[v] = worker[v]
  BY <1>2, <1>5
<1> HIDE DEF s, e, d, f
<1>9. TypeOK'
  BY <1>5, <1>6 DEF Materialize, TypeOK
<1>10. ClaimsHold'
  <2>1. rules[k].next \in Nat /\ d \in Nat /\ rules[k].next <= d /\ f = rules[k].frequency
        /\ rules[k] # None
    BY <1>2, <1>3 DEF ClaimsHold, TypeOK, Rule, d, f
  <2>2. \A j \in RuleId, v \in Worker :
           (worker'[v].claimed[j] # None) => worker[v].claimed[j] # None
    BY <1>2, <1>6, <1>8 DEF Cycle
  <2> SUFFICES ASSUME NEW u \in Worker, NEW j \in RuleId, worker'[u].claimed[j] # None
               PROVE  /\ rules[j] # None
                      /\ worker'[u].claimed[j].frequency = rules[j].frequency
                      /\ rules[j].next <= worker'[u].claimed[j].next
                      /\ \A v \in Worker : worker'[v].claimed[j] # None => v = u
    BY DEF Materialize, ClaimsHold
  <2>3. CASE u = w /\ j = k
    BY <2>1, <2>2, <2>3, <1>2, <1>4, <1>6, <1>8 DEF ClaimsHold, Cycle
  <2>4. CASE u # w \/ j # k
    <3>1. worker'[u].claimed[j] = worker[u].claimed[j]
      BY <2>4, <1>2, <1>6, <1>8 DEF Cycle
    <3> QED BY <3>1, <2>2 DEF ClaimsHold
  <2> QED BY <2>3, <2>4
<1>11. RowsInCycle'
  <2> SUFFICES ASSUME NEW u \in Worker
               PROVE  /\ worker'[u].today <= day
                      /\ worker'[u].pc # "loop" => worker'[u].rows = {}
                      /\ \A j \in RuleId, x \in Date :
                            <<j, x>> \in worker'[u].rows =>
                               /\ worker'[u].claimed[j] # None
                               /\ rules[j].next <= x /\ x < worker'[u].claimed[j].next
                               /\ x <= worker'[u].today
    BY DEF Materialize, RowsInCycle
  <2>1. CASE u # w
    BY <2>1, <1>8 DEF RowsInCycle
  <2>2. CASE u = w
    <3> SUFFICES ASSUME NEW j \in RuleId, NEW x \in Date, <<j, x>> \in s.rows
                 PROVE  /\ s.claimed[j] # None
                        /\ rules[j].next <= x /\ x < s.claimed[j].next
                        /\ x <= worker[w].today
      BY <2>2, <1>2, <1>6, <1>8
    <3>1. s.claimed[k].next = e /\ s.claimed[k] # None /\ \A i \in RuleId : i # k => s.claimed[i] = worker[w].claimed[i]
      <4>1. [next |-> e, frequency |-> f] \in Rule
        BY <1>3, <1>4 DEF Rule
      <4> QED BY <4>1, <1>2, <1>6 DEF Cycle
    <3>2. CASE <<j, x>> \in worker[w].rows
      <4>1. worker[w].claimed[j] # None /\ rules[j].next <= x /\ x < worker[w].claimed[j].next
            /\ x <= worker[w].today
        BY <3>2 DEF RowsInCycle
      <4>2. j = k => x < e
        <5> SUFFICES ASSUME j = k PROVE x < e
          OBVIOUS
        <5>1. x < d /\ x \in Nat /\ d \in Nat
          BY <4>1, <1>3 DEF d
        <5> QED BY <5>1, <1>4
      <4> QED BY <4>1, <4>2, <3>1
    <3>3. CASE j = k /\ x = d
      BY <3>1, <3>3, <1>2, <1>4 DEF ClaimsHold, d
    <3> QED BY <3>2, <3>3, <1>6
  <2> QED BY <2>1, <2>2
<1>12. NotCreated' /\ NoDoublePosting' /\ PostedBefore'
  BY DEF Materialize, NotCreated, NoDoublePosting, Rows, PostedBefore, LiveRules
<1> QED BY <1>9, <1>10, <1>11, <1>12

LEMMA CommitInv ==
    ASSUME PostInv, NEW w \in Worker, Commit(w) PROVE PostInv'
<1> USE DatesNat DEF PostInv
<1>t. /\ worker[w] \in Cycle /\ worker \in [Worker -> Cycle] /\ day \in Nat
      /\ worker[w].today \in Nat
      /\ \A k \in RuleId : schedule[k].number \in Number
      /\ posted \in [RuleId \X Number \X Date -> Nat]
      /\ rules \in [RuleId -> Rule \cup {None}]
      /\ schedule \in [RuleId -> [number : Number, start : Nat, rewound : BOOLEAN]]
  BY DEF TypeOK, Cycle
\* What becomes of a rule of the batch, and of the others.
<1>1. ASSUME NEW k \in Batch(w)
      PROVE  /\ k \in RuleId /\ worker[w].claimed[k] \in Rule /\ rules[k] \in Rule
             /\ rules'[k] = [next |-> worker[w].claimed[k].next, frequency |-> rules[k].frequency]
             /\ rules'[k] \in Rule /\ rules'[k].next = worker[w].claimed[k].next
             /\ rules[k].next <= rules'[k].next
             /\ rules[k].next \in Nat /\ rules'[k].next \in Nat
  <2>1. k \in RuleId /\ worker[w].claimed[k] # None
    BY DEF Batch
  <2>2. worker[w].claimed[k] \in Rule /\ rules[k] \in Rule
        /\ rules[k].next <= worker[w].claimed[k].next
    BY <2>1, <1>t DEF ClaimsHold, Cycle
  <2>3. rules'[k] = [rules[k] EXCEPT !.next = worker[w].claimed[k].next]
    BY <2>1 DEF Commit, NextRunDate
  <2>4. rules'[k] = [next |-> worker[w].claimed[k].next, frequency |-> rules[k].frequency]
    BY <2>2, <2>3 DEF Rule
  <2> QED BY <2>1, <2>2, <2>4 DEF Rule
<1>2. \A k \in RuleId : k \notin Batch(w) =>
         rules'[k] = rules[k] /\ worker[w].claimed[k] = None
  BY DEF Commit, Batch
<1>3. worker'[w] = Sleep /\ \A v \in Worker : v # w => worker'[v] = worker[v]
  BY <1>t DEF Commit
<1>4. UNCHANGED <<day, form, failures, schedule>>
  BY DEF Commit
\* Which rows appear.
<1>5. ASSUME NEW k \in RuleId, NEW n \in Number, NEW d \in Date
      PROVE  /\ posted'[<<k, n, d>>] \in Nat
             /\ \/ posted'[<<k, n, d>>] = posted[<<k, n, d>>]
                \/ /\ posted'[<<k, n, d>>] = posted[<<k, n, d>>] + 1
                   /\ <<k, d>> \in worker[w].rows /\ n = schedule[k].number
  BY <1>t DEF Commit
<1>6. ASSUME NEW k \in RuleId, NEW d \in Date, <<k, d>> \in worker[w].rows
      PROVE  /\ k \in Batch(w) /\ k \in LiveRules
             /\ rules[k].next <= d /\ d < rules'[k].next /\ d <= day
  <2>1. /\ worker[w].claimed[k] # None
        /\ rules[k].next <= d /\ d < worker[w].claimed[k].next
        /\ d <= worker[w].today /\ worker[w].today <= day
    BY <1>6 DEF RowsInCycle
  <2>2. k \in Batch(w) /\ rules[k] # None
    BY <2>1 DEF Batch, ClaimsHold
  <2>3. rules'[k].next = worker[w].claimed[k].next
    BY <2>2, <1>1
  <2>4. d \in Nat
    OBVIOUS
  <2>5. d <= day
    BY <2>1, <2>4, <1>t
  <2> QED BY <2>1, <2>2, <2>3, <2>5 DEF LiveRules
<1>7. TypeOK'
  <2>1. rules' \in [RuleId -> Rule \cup {None}]
    <3>1. \A k \in RuleId : rules'[k] \in Rule \cup {None}
      BY <1>1, <1>2, <1>t
    <3> QED BY <3>1 DEF Commit
  <2>2. posted' \in [RuleId \X Number \X Date -> Nat]
    BY <1>t DEF Commit
  <2>3. worker' \in [Worker -> Cycle]
    BY <1>t, SleepOK DEF Commit
  <2> QED BY <2>1, <2>2, <2>3, <1>4 DEF TypeOK
<1>8. ClaimsHold'
  <2> SUFFICES ASSUME NEW u \in Worker, NEW k \in RuleId, worker'[u].claimed[k] # None
               PROVE  /\ rules'[k] # None
                      /\ worker'[u].claimed[k].frequency = rules'[k].frequency
                      /\ rules'[k].next <= worker'[u].claimed[k].next
                      /\ \A v \in Worker : worker'[v].claimed[k] # None => v = u
    BY DEF ClaimsHold
  <2>1. u # w /\ worker'[u] = worker[u] /\ worker[u].claimed[k] # None
    BY <1>3, SleepOK
  <2>2. k \notin Batch(w)
    BY <2>1 DEF Batch, ClaimsHold
  <2> QED BY <2>1, <2>2, <1>2, <1>3, SleepOK DEF ClaimsHold
<1>9. RowsInCycle'
  <2> SUFFICES ASSUME NEW u \in Worker
               PROVE  /\ worker'[u].today <= day
                      /\ worker'[u].pc # "loop" => worker'[u].rows = {}
                      /\ \A k \in RuleId, d \in Date :
                            <<k, d>> \in worker'[u].rows =>
                               /\ worker'[u].claimed[k] # None
                               /\ rules'[k].next <= d /\ d < worker'[u].claimed[k].next
                               /\ d <= worker'[u].today
    BY <1>4 DEF RowsInCycle
  <2>1. CASE u = w
    BY <2>1, <1>3, <1>t DEF Sleep
  <2>2. CASE u # w
    <3>1. worker'[u] = worker[u]
      BY <2>2, <1>3
    <3>2. ASSUME NEW k \in RuleId, worker[u].claimed[k] # None PROVE rules'[k] = rules[k]
      BY <2>2, <3>2, <1>2 DEF Batch, ClaimsHold
    <3> QED BY <3>1, <3>2 DEF RowsInCycle
  <2> QED BY <2>1, <2>2
<1>10. PostedBefore'
  <2> SUFFICES ASSUME NEW k \in RuleId, NEW n \in Number, NEW d \in Date,
                      posted'[<<k, n, d>>] > 0
               PROVE  /\ d <= day /\ n <= schedule[k].number /\ schedule[k].start # 0
                      /\ rules'[k] # None /\ (n = schedule[k].number \/ ~schedule[k].rewound)
                            => d < rules'[k].next
    BY <1>4 DEF PostedBefore, LiveRules
  <2>1. CASE posted'[<<k, n, d>>] = posted[<<k, n, d>>]
    <3>1. /\ d <= day /\ n <= schedule[k].number /\ schedule[k].start # 0
          /\ rules[k] # None /\ (n = schedule[k].number \/ ~schedule[k].rewound)
                => d < rules[k].next
      BY <2>1 DEF PostedBefore, LiveRules
    <3>2. CASE k \in Batch(w)
      <4>1. /\ rules[k] # None /\ rules[k].next \in Nat /\ rules'[k].next \in Nat
            /\ rules[k].next <= rules'[k].next /\ d \in Nat
        BY <3>2, <1>1 DEF Rule
      <4> QED BY <3>1, <4>1
    <3>3. CASE k \notin Batch(w)
      BY <3>1, <3>3, <1>2
    <3> QED BY <3>2, <3>3
  <2>2. CASE <<k, d>> \in worker[w].rows /\ n = schedule[k].number
    <3>1. rules[k] # None /\ schedule[k].start # 0
      BY <2>2, <1>6 DEF NotCreated, LiveRules
    <3> QED BY <2>2, <3>1, <1>6, <1>t
  <2> QED BY <2>1, <2>2, <1>5
<1>11. NotCreated'
  BY <1>1, <1>2, <1>4 DEF NotCreated
<1>12. NoDoublePosting'
  <2>1. ASSUME NEW k \in RuleId, NEW n \in Number, NEW d \in Date
        PROVE  posted'[<<k, n, d>>] <= 1
    <3>1. CASE posted'[<<k, n, d>>] = posted[<<k, n, d>>]
      BY <3>1 DEF NoDoublePosting
    <3>2. CASE /\ posted'[<<k, n, d>>] = posted[<<k, n, d>>] + 1
               /\ <<k, d>> \in worker[w].rows /\ n = schedule[k].number
      <4>1. rules[k].next <= d /\ k \in LiveRules /\ rules[k].next \in Nat /\ d \in Nat
        BY <3>2, <1>6, <1>1 DEF Rule
      <4>2. ~(posted[<<k, n, d>>] > 0)
        <5> SUFFICES ASSUME posted[<<k, n, d>>] > 0 PROVE FALSE
          OBVIOUS
        <5>1. d < rules[k].next
          BY <3>2, <4>1 DEF PostedBefore
        <5> QED BY <4>1, <5>1
      <4> QED BY <3>2, <4>2, <1>t
    <3> QED BY <3>1, <3>2, <1>5
  <2>2. ASSUME NEW k \in RuleId, ~schedule[k].rewound, NEW n \in Number, NEW m \in Number,
               n # m, NEW d \in Date, posted'[<<k, n, d>>] > 0, posted'[<<k, m, d>>] > 0
        PROVE  FALSE
    <3>1. ASSUME NEW i \in Number, NEW j \in Number, i # j, posted'[<<k, i, d>>] > 0,
                 <<k, d>> \in worker[w].rows, j = schedule[k].number
          PROVE  FALSE
      <4>1. rules[k].next <= d /\ k \in LiveRules /\ rules[k].next \in Nat /\ d \in Nat
        BY <3>1, <1>6, <1>1 DEF Rule
      <4>2. posted[<<k, i, d>>] > 0
        BY <3>1, <1>5
      <4> QED BY <2>2, <4>1, <4>2 DEF PostedBefore
    <3>2. posted[<<k, n, d>>] > 0 /\ posted[<<k, m, d>>] > 0
      BY <2>2, <3>1, <1>5
    <3> QED BY <2>2, <3>2 DEF NoDoublePosting, Rows
  <2> QED BY <2>1, <2>2, <1>4 DEF NoDoublePosting, Rows
<1> QED BY <1>7, <1>8, <1>9, <1>10, <1>11, <1>12

-----------------------------------------------------------------------------
(* The theorems.                                                           *)

LEMMA PostInit == Init => PostInv
<1> SUFFICES ASSUME Init PROVE PostInv
  OBVIOUS
<1>1. TypeOK
  BY DatesNat, SleepOK, RuleAssumption DEF Init, TypeOK, Date, Number
<1>2. ClaimsHold /\ RowsInCycle /\ NotCreated
  BY SleepOK DEF Init, ClaimsHold, RowsInCycle, NotCreated, Sleep
<1>3. \A k \in RuleId, n \in Number, d \in Date : posted[<<k, n, d>>] = 0
  BY DEF Init
<1>4. PostedBefore /\ NoDoublePosting
  BY <1>3 DEF PostedBefore, NoDoublePosting, Rows
<1> QED BY <1>1, <1>2, <1>4 DEF PostInv

LEMMA PostStep ==
    ASSUME PostInv, [Next]_vars PROVE PostInv'
<1>1. CASE Tick
  BY <1>1, TickInv
<1>2. CASE UserStep
  BY <1>2, CreateInv, DeleteInv, SaveInv, OpenFormInv DEF UserStep
<1>3. ASSUME NEW w \in Worker, WorkerStep(w) \/ Fail(w) PROVE PostInv'
  BY <1>3, BeginInv, ClaimInv, MaterializeInv, CommitInv, FailInv DEF WorkerStep
<1>4. CASE UNCHANGED vars
  BY <1>4 DEF vars, PostInv, TypeOK, ClaimsHold, RowsInCycle, PostedBefore, NotCreated,
              NoDoublePosting, Rows, LiveRules
<1> QED BY <1>1, <1>2, <1>3, <1>4 DEF Next

\* Every reachable state is well typed; in particular a cycle inserts only rows
\* dated within the calendar, so its loop ends.
THEOREM WellTyped == Spec => []TypeOK
<1>1. PostInv => TypeOK
  BY DEF PostInv
<1> QED BY PostInit, PostStep, <1>1, PTL DEF Spec

\* However many workers run, fail and start over, and whatever users do with
\* their rules meanwhile, no occurrence of a schedule is posted twice, and a
\* date is posted twice only after an edit moved next_run_date back.
THEOREM PostedOnce == Spec => []NoDoublePosting
<1>1. PostInv => NoDoublePosting
  BY DEF PostInv
<1> QED BY PostInit, PostStep, <1>1, PTL DEF Spec

\* No worker posts a row with a date that has not come yet.
THEOREM PostedInTime == Spec => []NothingEarly
<1>1. PostInv => NothingEarly
  BY DEF PostInv, PostedBefore, NothingEarly, Rows
<1> QED BY PostInit, PostStep, <1>1, PTL DEF Spec

-----------------------------------------------------------------------------
(* Chains of dates.                                                        *)

LEMMA ChainExtend ==
    ASSUME NEW f \in Frequency, NEW dates \in SUBSET Date, NEW first, NEW d \in Date,
           Chain(f, dates, first, d)
    PROVE  Chain(f, dates \cup {d}, first, Advance(f, d))
<1>1. Advance(f, d) \in Nat /\ Advance(f, d) > d /\ d \in Nat /\ dates \subseteq Nat
  BY AdvanceLater, DatesNat
<1> DEFINE next == Advance(f, d)
<1>2. next \in Nat /\ next > d
  BY <1>1
<1>3. ASSUME NEW e \in dates \cup {d} PROVE e < next
  <2>1. CASE e = d
    BY <2>1, <1>2, <1>1
  <2>2. CASE e \in dates
    <3>1. e < d
      BY <2>2 DEF Chain
    <3> HIDE DEF next
    <3> QED BY <3>1, <1>1, <1>2, <2>2
  <2> QED BY <2>1, <2>2
<1>4. ASSUME NEW e \in dates \cup {d} PROVE Advance(f, e) \in dates \cup {d} \cup {next}
  BY DEF Chain
<1>6. ASSUME NEW e \in dates \cup {d} \cup {next}
      PROVE  e = first \/ \E c \in dates \cup {d} : e = Advance(f, c)
  BY DEF Chain
<1>5. first \in dates \cup {d} \cup {next}
  BY DEF Chain
<1> QED BY <1>3, <1>4, <1>5, <1>6 DEF Chain

LEMMA ChainJoin ==
    ASSUME NEW f, NEW S \in SUBSET Date, NEW T \in SUBSET Date, NEW a, NEW b \in Nat,
           NEW c \in Nat, b <= c, Chain(f, S, a, b), Chain(f, T, b, c)
    PROVE  Chain(f, S \cup T, a, c)
<1>1. ASSUME NEW d \in S \cup T PROVE d < c
  <2>1. CASE d \in S
    <3>1. d < b /\ d \in Nat
      BY <2>1, DatesNat DEF Chain
    <3> QED BY <3>1
  <2>2. CASE d \in T
    BY <2>2 DEF Chain
  <2> QED BY <2>1, <2>2
<1>2. ASSUME NEW d \in S \cup T PROVE Advance(f, d) \in S \cup T \cup {c}
  <2>1. CASE d \in S
    BY <2>1 DEF Chain
  <2>2. CASE d \in T
    BY <2>2 DEF Chain
  <2> QED BY <2>1, <2>2
<1>4. ASSUME NEW d \in S \cup T \cup {c} PROVE d = a \/ \E e \in S \cup T : d = Advance(f, e)
  <2>1. CASE d \in S \cup {b}
    BY <2>1 DEF Chain
  <2>2. CASE d \in T \cup {c} /\ d # b
    BY <2>2 DEF Chain
  <2> QED BY <2>1, <2>2
<1>3. a \in S \cup T \cup {c}
  BY DEF Chain
<1> QED BY <1>1, <1>2, <1>3, <1>4 DEF Chain

-----------------------------------------------------------------------------
(* What a cycle has inserted so far leads from the table's date to the     *)
(* loop's.                                                                 *)

Inserted(w, k) == {d \in Date : <<k, d>> \in worker[w].rows}

CycleChains ==
    \A w \in Worker, k \in RuleId :
       worker[w].claimed[k] # None =>
          Chain(rules[k].frequency, Inserted(w, k), rules[k].next, worker[w].claimed[k].next)

ChainInv == PostInv /\ CycleChains /\ Unbroken

LEMMA ChainEmpty == ASSUME NEW f, NEW a PROVE Chain(f, {}, a, a)
BY DEF Chain

\* A step that changes neither the table nor the rows posted, nor what a worker
\* claimed and inserted.
LEMMA ChainsSame ==
    ASSUME ChainInv, UNCHANGED <<rules, posted, schedule>>,
           \A w \in Worker, k \in RuleId :
              worker'[w].claimed[k] # None =>
                 /\ worker[w].claimed[k] # None
                 /\ worker'[w].claimed[k] = worker[w].claimed[k]
                 /\ Inserted(w, k)' = Inserted(w, k)
    PROVE  CycleChains' /\ Unbroken'
BY DEF ChainInv, CycleChains, Unbroken, LiveRules, Rows

LEMMA RuleChains ==
    ASSUME ChainInv, NEW k \in RuleId, ~Locked(k),
           UNCHANGED <<worker, posted>>,
           \A j \in RuleId : j # k => rules'[j] = rules[j] /\ schedule'[j] = schedule[j],
           rules'[k] # None => /\ schedule'[k].start = rules'[k].next
                               /\ Rows(k, schedule'[k].number) = {}
    PROVE  CycleChains' /\ Unbroken'
<1>1. CycleChains'
  BY DEF ChainInv, CycleChains, Locked, Inserted
<1>2. ASSUME NEW j \in LiveRules'
      PROVE  Chain(rules'[j].frequency, Rows(j, schedule'[j].number),
                   schedule'[j].start, rules'[j].next)
  <2>1. CASE j = k
    BY <2>1, ChainEmpty DEF LiveRules
  <2>2. CASE j # k
    BY <2>2 DEF ChainInv, Unbroken, LiveRules
  <2> QED BY <2>1, <2>2
<1>3. \A j, n : Rows(j, n)' = Rows(j, n)
  BY DEF Rows
<1> QED BY <1>1, <1>2, <1>3 DEF Unbroken

LEMMA UserChains ==
    ASSUME ChainInv, UserStep PROVE CycleChains' /\ Unbroken'
<1> USE DatesNat DEF ChainInv, PostInv
<1>1. ASSUME NEW k \in RuleId, Create(k) PROVE CycleChains' /\ Unbroken'
  <2>1. /\ schedule[k].start = 0 /\ rules[k] = None
        /\ \A n \in Number : Rows(k, n) = {}
    BY <1>1 DEF Create, NotCreated, PostedBefore, Rows, TypeOK
  <2>2. ~Locked(k)
    BY <2>1 DEF Locked, ClaimsHold
  <2>3. /\ \A j \in RuleId : j # k => rules'[j] = rules[j] /\ schedule'[j] = schedule[j]
        /\ schedule'[k].start = rules'[k].next /\ schedule'[k].number \in Number
        /\ UNCHANGED <<worker, posted>>
    BY <1>1 DEF Create, TypeOK
  <2> QED BY <2>1, <2>2, <2>3, RuleChains
<1>2. ASSUME NEW k \in RuleId, Delete(k) PROVE CycleChains' /\ Unbroken'
  BY <1>2, RuleChains DEF Delete, TypeOK
<1>3. ASSUME NEW c \in Client, NEW k \in RuleId, OpenForm(c, k) PROVE CycleChains' /\ Unbroken'
  BY <1>3, ChainsSame DEF OpenForm, Inserted
<1>4. ASSUME NEW c \in Client, Save(c) PROVE CycleChains' /\ Unbroken'
  <2>1. PICK k \in RuleId : k = form[c].id /\ ~Locked(k)
    BY <1>4 DEF Save, TypeOK
  <2>2. CASE UNCHANGED <<rules, schedule>>
    BY <1>4, <2>2, ChainsSame DEF Save, Inserted
  <2>3. ASSUME schedule[k].number < MaxEdits,
               NEW d \in StartDate \cup {form[c].rule.next}, NEW f \in Frequency,
               rules' = [rules EXCEPT ![k] = [next |-> d, frequency |-> f]],
               schedule' = [schedule EXCEPT ![k] =
                  [number |-> @.number + 1, start |-> d,
                   rewound |-> @.rewound \/ d < rules[k].next]]
        PROVE  CycleChains' /\ Unbroken'
    <3>1. /\ \A j \in RuleId : j # k => rules'[j] = rules[j] /\ schedule'[j] = schedule[j]
          /\ schedule'[k].start = d /\ rules'[k].next = d
          /\ schedule'[k].number = schedule[k].number + 1
          /\ UNCHANGED <<worker, posted>>
      BY <1>4, <2>3 DEF Save, TypeOK
    <3>2. schedule[k].number \in Nat /\ schedule[k].number + 1 \in Number
      BY <2>3 DEF TypeOK, Number
    <3>3. Rows(k, schedule[k].number + 1) = {}
      <4>1. ASSUME NEW e \in Date, posted[<<k, schedule[k].number + 1, e>>] > 0
            PROVE  FALSE
        <5>1. schedule[k].number + 1 <= schedule[k].number
          BY <3>2, <4>1 DEF PostedBefore
        <5> QED BY <5>1, <3>2
      <4> QED BY <4>1 DEF Rows
    <3> QED BY <2>1, <3>1, <3>3, RuleChains
  <2> QED BY <1>4, <2>1, <2>2, <2>3 DEF Save
<1> QED BY <1>1, <1>2, <1>3, <1>4 DEF UserStep

LEMMA ClaimChains ==
    ASSUME ChainInv, NEW w \in Worker, Claim(w) PROVE CycleChains' /\ Unbroken'
<1> USE DEF ChainInv, PostInv
<1>1. Unbroken'
  BY DEF Claim, Unbroken, LiveRules, Rows
<1>2. worker[w] \in Cycle /\ worker[w].rows = {}
  BY DEF Claim, TypeOK, RowsInCycle
<1>3. worker'[w].rows = {}
      /\ \A k \in RuleId : worker'[w].claimed[k] # None => worker'[w].claimed[k] = rules[k]
  BY <1>2 DEF Claim, TypeOK, Cycle
<1>4. \A u \in Worker : u # w => worker'[u] = worker[u]
  BY DEF Claim, TypeOK
<1>5. ASSUME NEW u \in Worker, NEW k \in RuleId, worker'[u].claimed[k] # None
      PROVE  Chain(rules[k].frequency, Inserted(u, k)', rules[k].next, worker'[u].claimed[k].next)
  <2>1. CASE u = w
    <3>1. Inserted(u, k)' = {} /\ worker'[u].claimed[k] = rules[k]
      BY <2>1, <1>3, <1>5 DEF Inserted
    <3> QED BY <3>1, ChainEmpty
  <2>2. CASE u # w
    BY <2>2, <1>4, <1>5 DEF Inserted, CycleChains
  <2> QED BY <2>1, <2>2
<1>6. UNCHANGED rules
  BY DEF Claim
<1> QED BY <1>1, <1>5, <1>6 DEF CycleChains

LEMMA MaterializeChains ==
    ASSUME ChainInv, NEW w \in Worker, Materialize(w) PROVE CycleChains' /\ Unbroken'
<1> USE DatesNat DEF ChainInv, PostInv
<1>1. Unbroken' /\ UNCHANGED rules
  BY DEF Materialize, Unbroken, LiveRules, Rows
<1>2. PICK k \in Batch(w) : Due(w, k) /\
         worker' = [worker EXCEPT ![w] =
            [worker[w] EXCEPT
               !.claimed[k].next = Advance(worker[w].claimed[k].frequency,
                                           worker[w].claimed[k].next),
               !.rows = worker[w].rows \cup {<<k, worker[w].claimed[k].next>>}]]
  BY DEF Materialize
<1> DEFINE d == worker[w].claimed[k].next
           f == rules[k].frequency
<1>3. /\ worker[w] \in Cycle /\ worker \in [Worker -> Cycle]
      /\ k \in RuleId /\ worker[w].claimed[k] \in Rule /\ worker[w].claimed[k] # None
      /\ f = worker[w].claimed[k].frequency /\ f \in Frequency /\ d \in Date
      /\ worker[w].today \in Nat /\ worker[w].today <= day
  <2>1. /\ worker[w] \in Cycle /\ worker \in [Worker -> Cycle] /\ worker[w].today \in Nat
        /\ k \in RuleId /\ worker[w].claimed[k] \in Rule /\ worker[w].claimed[k] # None
        /\ f = worker[w].claimed[k].frequency /\ worker[w].today <= day /\ day \in Date
    BY <1>2 DEF Batch, TypeOK, Cycle, ClaimsHold, RowsInCycle
  <2>2. d \in Nat \ {0} /\ d <= worker[w].today /\ f \in Frequency
    BY <1>2, <2>1 DEF Due, Rule
  <2> QED BY <2>1, <2>2 DEF Date
<1> DEFINE e == Advance(f, d)
<1>4. /\ worker'[w].claimed[k].next = e
      /\ worker'[w].rows = worker[w].rows \cup {<<k, d>>}
      /\ \A j \in RuleId : j # k => worker'[w].claimed[j] = worker[w].claimed[j]
  <2>1. worker'[w] = [worker[w] EXCEPT !.claimed[k].next = e,
                                       !.rows = worker[w].rows \cup {<<k, d>>}]
    BY <1>2, <1>3
  <2> HIDE DEF e, d, f
  <2> QED BY <2>1, <1>3 DEF Cycle, Rule
<1>5. \A u \in Worker : u # w => worker'[u] = worker[u]
  BY <1>2, <1>3
<1> HIDE DEF e, d, f
<1>6. ASSUME NEW u \in Worker, NEW j \in RuleId, worker'[u].claimed[j] # None
      PROVE  Chain(rules[j].frequency, Inserted(u, j)', rules[j].next, worker'[u].claimed[j].next)
  <2>1. CASE u = w /\ j = k
    <3>1. Inserted(w, k)' = Inserted(w, k) \cup {d}
      BY <1>3, <1>4 DEF Inserted
    <3>2. Chain(f, Inserted(w, k), rules[k].next, d)
      BY <1>3 DEF CycleChains, d, f
    <3>3. Inserted(w, k) \in SUBSET Date
      BY DEF Inserted
    <3>4. Chain(f, Inserted(w, k) \cup {d}, rules[k].next, e)
      BY <1>3, <3>2, <3>3, ChainExtend DEF e
    <3> QED BY <2>1, <3>1, <3>4, <1>4 DEF f
  <2>2. CASE u # w \/ j # k
    <3>1. Inserted(u, j)' = Inserted(u, j) /\ worker'[u].claimed[j] = worker[u].claimed[j]
      BY <2>2, <1>4, <1>5 DEF Inserted
    <3> QED BY <3>1, <1>6 DEF CycleChains
  <2> QED BY <2>1, <2>2
<1> QED BY <1>1, <1>6 DEF CycleChains

LEMMA CommitChains ==
    ASSUME ChainInv, NEW w \in Worker, Commit(w) PROVE CycleChains' /\ Unbroken'
<1> USE DatesNat DEF ChainInv, PostInv
<1>1. worker'[w] = Sleep /\ \A u \in Worker : u # w => worker'[u] = worker[u]
  BY DEF Commit, TypeOK
<1>2. ASSUME NEW k \in Batch(w)
      PROVE  /\ k \in RuleId /\ worker[w].claimed[k] # None /\ k \in LiveRules
             /\ rules'[k].next = worker[w].claimed[k].next
             /\ rules'[k].frequency = rules[k].frequency
             /\ rules[k].next \in Nat /\ rules'[k].next \in Nat
             /\ rules[k].next <= rules'[k].next
  <2>1. /\ k \in RuleId /\ worker[w].claimed[k] # None /\ k \in LiveRules
        /\ worker[w].claimed[k] \in Rule /\ rules[k] \in Rule
        /\ rules[k].next <= worker[w].claimed[k].next
    BY DEF Batch, ClaimsHold, LiveRules, TypeOK, Cycle
  <2>2. rules'[k] = [rules[k] EXCEPT !.next = worker[w].claimed[k].next]
    BY <2>1 DEF Commit, NextRunDate
  <2> QED BY <2>1, <2>2 DEF Rule
<1>3. \A k \in RuleId : k \notin Batch(w) => rules'[k] = rules[k]
  BY DEF Commit
<1>4. CycleChains'
  <2> SUFFICES ASSUME NEW u \in Worker, NEW k \in RuleId, worker'[u].claimed[k] # None
               PROVE  Chain(rules'[k].frequency, Inserted(u, k)', rules'[k].next,
                            worker'[u].claimed[k].next)
    BY DEF CycleChains
  <2>1. u # w /\ worker'[u] = worker[u]
    BY <1>1, SleepOK
  <2>2. k \notin Batch(w)
    BY <2>1 DEF Batch, ClaimsHold
  <2> QED BY <2>1, <2>2, <1>3 DEF CycleChains, Inserted
<1>5. Unbroken'
  <2>0. UNCHANGED schedule /\ \A k \in RuleId : schedule[k].number \in Number
    BY DEF Commit, TypeOK
  <2> SUFFICES ASSUME NEW k \in RuleId, k \in LiveRules'
               PROVE  Chain(rules'[k].frequency, Rows(k, schedule[k].number)',
                            schedule[k].start, rules'[k].next)
    BY <2>0 DEF Unbroken, LiveRules
  <2> DEFINE n == schedule[k].number
  <2>1. \A d \in Date : posted'[<<k, n, d>>] =
            IF <<k, d>> \in worker[w].rows THEN posted[<<k, n, d>>] + 1 ELSE posted[<<k, n, d>>]
    BY <2>0 DEF Commit
  <2>2. \A d \in Date : posted[<<k, n, d>>] \in Nat
    BY <2>0 DEF TypeOK
  <2>3. Rows(k, n)' = Rows(k, n) \cup Inserted(w, k)
    <3> HIDE DEF n
    <3>1. \A d \in Date : posted'[<<k, n, d>>] > 0
             <=> (posted[<<k, n, d>>] > 0 \/ <<k, d>> \in worker[w].rows)
      BY <2>1, <2>2
    <3>2. Rows(k, n)' = {d \in Date : posted'[<<k, n, d>>] > 0}
      BY <2>0 DEF Rows, n
    <3> QED BY <3>1, <3>2 DEF Rows, Inserted
  <2>4. CASE k \in Batch(w)
    <3>1. Chain(rules[k].frequency, Inserted(w, k), rules[k].next, rules'[k].next)
      BY <2>4, <1>2 DEF CycleChains
    <3>2. Chain(rules[k].frequency, Rows(k, n), schedule[k].start, rules[k].next)
      BY <2>4, <1>2 DEF Unbroken
    <3>3. Rows(k, n) \in SUBSET Date /\ Inserted(w, k) \in SUBSET Date
      BY DEF Rows, Inserted
    <3>4. Chain(rules[k].frequency, Rows(k, n) \cup Inserted(w, k), schedule[k].start,
                rules'[k].next)
      BY <2>4, <1>2, <3>1, <3>2, <3>3, ChainJoin
    <3> QED BY <2>3, <2>4, <3>4, <1>2
  <2>5. CASE k \notin Batch(w)
    <3>1. Inserted(w, k) = {}
      BY <2>5 DEF Inserted, RowsInCycle, Batch
    <3> QED BY <2>3, <2>5, <3>1, <1>3 DEF Unbroken, LiveRules
  <2> QED BY <2>4, <2>5
<1> QED BY <1>4, <1>5

LEMMA ChainStep ==
    ASSUME ChainInv, [Next]_vars PROVE ChainInv'
<1>p. PostInv'
  BY PostStep DEF ChainInv
<1>1. ASSUME UserStep PROVE CycleChains' /\ Unbroken'
  BY <1>1, UserChains
<1>2. ASSUME Tick \/ UNCHANGED vars PROVE CycleChains' /\ Unbroken'
  BY <1>2, ChainsSame DEF Tick, vars, Inserted
<1>3. ASSUME NEW w \in Worker, Begin(w) \/ Fail(w) PROVE CycleChains' /\ Unbroken'
  <2>1. /\ UNCHANGED <<rules, posted, schedule>>
        /\ \A k \in RuleId : worker'[w].claimed[k] = None
        /\ \A u \in Worker : u # w => worker'[u] = worker[u]
    BY <1>3, SleepOK DEF Begin, Fail, ChainInv, PostInv, TypeOK, Sleep
  <2> QED BY <2>1, ChainsSame DEF Inserted
<1>4. ASSUME NEW w \in Worker, Claim(w) \/ Materialize(w) \/ Commit(w)
      PROVE  CycleChains' /\ Unbroken'
  BY <1>4, ClaimChains, MaterializeChains, CommitChains
<1> QED BY <1>p, <1>1, <1>2, <1>3, <1>4 DEF Next, WorkerStep, ChainInv

\* Whenever the worker comes to a rule, however far behind and however often
\* it failed before, the rows it commits continue the rule's schedule without
\* a gap and without a date that is not on it.
THEOREM NothingSkipped == Spec => []Unbroken
<1>1. Init => ChainInv
  <2>1. Init => CycleChains /\ Unbroken
    BY SleepOK DEF Init, CycleChains, Unbroken, LiveRules
  <2> QED BY <2>1, PostInit DEF ChainInv
<1>2. ChainInv => Unbroken
  BY DEF ChainInv
<1> QED BY <1>1, <1>2, ChainStep, PTL DEF Spec
=============================================================================
