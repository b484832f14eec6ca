----------------------------- MODULE Recurring -----------------------------
(***************************************************************************)
(* Recurring rules and the workers that materialize them                   *)
(* (services/recurring.rs).                                                *)
(*                                                                         *)
(* Every API process runs one worker, so two deployed processes are two    *)
(* workers on one database.  A cycle is one SQL transaction: it locks the  *)
(* due rules, inserts a row per missed occurrence, moves next_run_date and *)
(* commits.  Meanwhile users create, edit and delete rules; an edit sends  *)
(* back the whole form, next_run_date included, as the form was opened.    *)
(*                                                                         *)
(* A date is a day number.  `posted' and `schedule' are observed by the    *)
(* properties only: the code keeps neither the rule a row came from nor    *)
(* the history of a rule.                                                  *)
(***************************************************************************)
EXTENDS Integers, FiniteSets

CONSTANTS
    Worker,           \* processes that run the worker
    Client,           \* open tabs that may hold an edit form
    Frequency,        \* the frequencies in use
    LastDay,          \* bound on the calendar
    Week,             \* days in a week
    Months,           \* months the calendar spans
    MonthStart,       \* the day each month starts, two months more than that
    StartDate,        \* dates a user may pick
    MaxRules, MaxEdits, MaxFailures,    \* bounds
    None

Date   == 1 .. LastDay
RuleId == 1 .. MaxRules
Number == 0 .. MaxEdits
Rule   == [next : Nat \ {0}, frequency : Frequency]

ASSUME CalendarAssumption ==
    /\ LastDay \in Nat \ {0} /\ Week \in Nat \ {0} /\ Months \in Nat
    /\ MonthStart \in [1 .. Months + 2 -> Nat]
    /\ \A m \in 1 .. Months + 1 : MonthStart[m] < MonthStart[m + 1]
    /\ \A d \in Date : \E m \in 1 .. Months : MonthStart[m] <= d /\ d < MonthStart[m + 1]

ASSUME RuleAssumption ==
    /\ Frequency \subseteq {"daily", "weekly", "monthly"}
    /\ StartDate \subseteq Date
    /\ MaxRules \in Nat /\ MaxEdits \in Nat /\ MaxFailures \in Nat
    /\ None \notin Rule

VARIABLES
    day,        \* today, Utc::now() and CURRENT_DATE alike
    rules,      \* table recurring_transactions
    form,       \* per client, the edit form as it was opened
    worker,     \* per worker, its cycle
    failures,   \* cycles that failed so far
    posted,     \* rows of transactions per rule, schedule number and date
    schedule    \* per rule, its current schedule: number, first date, and
                \* whether an edit ever moved next_run_date back

vars == <<day, rules, form, worker, failures, posted, schedule>>

Cycle == [pc : {"sleep", "begun", "loop"},
          cutoff : Nat,                     \* CURRENT_DATE, fixed by BEGIN
          today : Nat,
          claimed : [RuleId -> Rule \cup {None}],   \* rows locked FOR UPDATE
          rows : SUBSET (RuleId \X Date)]   \* inserted, not committed

Sleep == [pc |-> "sleep", cutoff |-> 0, today |-> 0,
          claimed |-> [k \in RuleId |-> None], rows |-> {}]

LiveRules == {k \in RuleId : rules[k] # None}

-----------------------------------------------------------------------------
(* advance_date                                                            *)

MonthOf(d)  == CHOOSE m \in 1 .. Months : MonthStart[m] <= d /\ d < MonthStart[m + 1]
Length(m)   == MonthStart[m + 1] - MonthStart[m]

\* chrono's checked_add_months: the same day of the next month, or its last.
NextMonth(d) ==
    LET m == MonthOf(d)
        k == d - MonthStart[m]
    IN MonthStart[m + 1] + (IF k < Length(m + 1) THEN k ELSE Length(m + 1) - 1)

Advance(frequency, d) ==
    CASE frequency = "daily"   -> d + 1
      [] frequency = "weekly"  -> d + Week
      [] frequency = "monthly" -> NextMonth(d)

-----------------------------------------------------------------------------
Locked(k) == \E w \in Worker : worker[w].claimed[k] # None

Batch(w) == {k \in RuleId : worker[w].claimed[k] # None}

Init ==
    /\ day = 1
    /\ rules = [k \in RuleId |-> None]
    /\ form = [c \in Client |-> None]
    /\ worker = [w \in Worker |-> Sleep]
    /\ failures = 0
    /\ posted = [p \in RuleId \X Number \X Date |-> 0]
    /\ schedule = [k \in RuleId |-> [number |-> 0, start |-> 0, rewound |-> FALSE]]

Tick ==
    /\ day < LastDay
    /\ day' = day + 1
    /\ UNCHANGED <<rules, form, worker, failures, posted, schedule>>

-----------------------------------------------------------------------------
(* Users.                                                                  *)

\* create_recurring_transaction; ids are not used again.
Create(k) ==
    /\ schedule[k].start = 0
    /\ \E d \in StartDate, f \in Frequency :
          /\ rules' = [rules EXCEPT ![k] = [next |-> d, frequency |-> f]]
          /\ schedule' = [schedule EXCEPT ![k].start = d]
    /\ UNCHANGED <<day, form, worker, failures, posted>>

\* The page fills the form from list_recurring_transactions.
OpenForm(c, k) ==
    /\ form[c] = None
    /\ k \in LiveRules
    /\ schedule[k].number < MaxEdits
    /\ form' = [form EXCEPT ![c] = [id |-> k, rule |-> rules[k]]]
    /\ UNCHANGED <<day, rules, worker, failures, posted, schedule>>

\* update_recurring_transaction: the date is sent as shown or picked anew.
\* The UPDATE waits for the row lock of a worker.
Save(c) ==
    /\ form[c] # None
    /\ LET k == form[c].id IN
       /\ ~Locked(k)
       /\ IF k \in LiveRules /\ schedule[k].number < MaxEdits
          THEN \E d \in StartDate \cup {form[c].rule.next}, f \in Frequency :
                  /\ rules' = [rules EXCEPT ![k] = [next |-> d, frequency |-> f]]
                  /\ schedule' = [schedule EXCEPT ![k] =
                        [number |-> @.number + 1, start |-> d,
                         rewound |-> @.rewound \/ d < rules[k].next]]
          ELSE UNCHANGED <<rules, schedule>>
    /\ form' = [form EXCEPT ![c] = None]
    /\ UNCHANGED <<day, worker, failures, posted>>

\* delete_recurring_transaction; the DELETE waits for the row lock too.
Delete(k) ==
    /\ k \in LiveRules
    /\ ~Locked(k)
    /\ rules' = [rules EXCEPT ![k] = None]
    /\ UNCHANGED <<day, form, worker, failures, posted, schedule>>

-----------------------------------------------------------------------------
(* process_due_transactions                                                *)

\* pool.begin() fixes CURRENT_DATE.
Begin(w) ==
    /\ worker[w].pc = "sleep"
    /\ worker' = [worker EXCEPT ![w] = [Sleep EXCEPT !.pc = "begun", !.cutoff = day]]
    /\ UNCHANGED <<day, rules, form, failures, posted, schedule>>

\* Faulty variant: next_run_date < CURRENT_DATE.
BeforeCutoff(w, k) == rules[k].next < worker[w].cutoff

\* WHERE next_run_date <= CURRENT_DATE
Selected(w, k) == rules[k].next <= worker[w].cutoff

\* Faulty variant: SELECT without FOR UPDATE SKIP LOCKED.
FreeAlways(k) == TRUE

\* SKIP LOCKED
Free(k) == ~Locked(k)

\* Utc::now() and SELECT ... FOR UPDATE SKIP LOCKED.
Claim(w) ==
    /\ worker[w].pc = "begun"
    /\ worker' = [worker EXCEPT ![w] =
          [@ EXCEPT !.pc = "loop", !.today = day,
                    !.claimed = [k \in RuleId |->
                        IF k \in LiveRules /\ Selected(w, k) /\ Free(k)
                        THEN rules[k] ELSE None]]]
    /\ UNCHANGED <<day, rules, form, failures, posted, schedule>>

\* Faulty variant: the loop runs one occurrence too far.
DueTomorrow(w, k) == worker[w].claimed[k].next <= worker[w].today + 1

Due(w, k) == worker[w].claimed[k].next <= worker[w].today

\* One round of the while loop of materialize_due_occurrences.
Materialize(w) ==
    /\ worker[w].pc = "loop"
    /\ \E k \in Batch(w) :
          LET d == worker[w].claimed[k].next IN
          /\ Due(w, k)
          /\ worker' = [worker EXCEPT ![w] =
                [worker[w] EXCEPT
                    !.claimed[k].next = Advance(worker[w].claimed[k].frequency, d),
                    !.rows = worker[w].rows \cup {<<k, d>>}]]
    /\ UNCHANGED <<day, rules, form, failures, posted, schedule>>

\* Faulty variant: a rule that was behind continues tomorrow.
FromTomorrow(w, k) == worker[w].today + 1

\* The date update_next_run_date writes.
NextRunDate(w, k) == worker[w].claimed[k].next

\* No rule of the batch is due any more: update_next_run_date and COMMIT.
Commit(w) ==
    /\ worker[w].pc = "loop"
    /\ \A k \in Batch(w) : ~Due(w, k)
    /\ rules' = [k \in RuleId |-> IF k \in Batch(w)
                                  THEN [rules[k] EXCEPT !.next = NextRunDate(w, k)]
                                  ELSE rules[k]]
    /\ posted' = [p \in RuleId \X Number \X Date |->
          IF <<p[1], p[3]>> \in worker[w].rows /\ p[2] = schedule[p[1]].number
          THEN posted[p] + 1 ELSE posted[p]]
    /\ worker' = [worker EXCEPT ![w] = Sleep]
    /\ UNCHANGED <<day, form, failures, schedule>>

\* A statement fails or the process dies: nothing of the cycle stays, and
\* run_worker, of this process or the next one, starts over.
Fail(w) ==
    /\ worker[w].pc # "sleep"
    /\ failures < MaxFailures
    /\ failures' = failures + 1
    /\ worker' = [worker EXCEPT ![w] = Sleep]
    /\ UNCHANGED <<day, rules, form, posted, schedule>>

-----------------------------------------------------------------------------
WorkerStep(w) == Begin(w) \/ Claim(w) \/ Materialize(w) \/ Commit(w)

UserStep ==
    \/ \E k \in RuleId : Create(k) \/ Delete(k)
    \/ \E c \in Client : Save(c) \/ \E k \in RuleId : OpenForm(c, k)

Next == \/ Tick
        \/ UserStep
        \/ \E w \in Worker : WorkerStep(w) \/ Fail(w)

\* run_worker loops forever and starts over after an error; users do as they
\* please and the calendar may stop.
Fairness == \A w \in Worker : WF_vars(WorkerStep(w))

Spec == Init /\ [][Next]_vars /\ Fairness

-----------------------------------------------------------------------------
(* Properties.                                                             *)

TypeOK ==
    /\ day \in Date
    /\ rules \in [RuleId -> Rule \cup {None}]
    /\ form \in [Client -> [id : RuleId, rule : Rule] \cup {None}]
    /\ worker \in [Worker -> Cycle]
    /\ failures \in 0 .. MaxFailures
    /\ posted \in [RuleId \X Number \X Date -> Nat]
    /\ schedule \in [RuleId -> [number : Number, start : Nat, rewound : BOOLEAN]]

Rows(k, n) == {d \in Date : posted[<<k, n, d>>] > 0}

\* "second process should be idempotent" (recurring_integration.rs): no two
\* workers, no repeated and no failed cycle post an occurrence of a schedule
\* twice, and a date of a rule is posted twice only when an edit moved
\* next_run_date back.
NoDoublePosting ==
    \A k \in RuleId :
       /\ \A n \in Number, d \in Date : posted[<<k, n, d>>] <= 1
       /\ ~schedule[k].rewound =>
             \A n, m \in Number : n # m => Rows(k, n) \cap Rows(k, m) = {}

\* The dates from first, step by step, up to and not including next.
Chain(frequency, dates, first, next) ==
    /\ first \in dates \cup {next}
    /\ \A d \in dates : d < next /\ Advance(frequency, d) \in dates \cup {next}
    /\ \A d \in dates \cup {next} : d = first \/ \E e \in dates : d = Advance(frequency, e)

\* Catching up skips nothing and invents nothing: the rows of a rule's current
\* schedule are its first date, then every date advance_date leads to, up to
\* and not including next_run_date.
Unbroken ==
    \A k \in LiveRules : Chain(rules[k].frequency, Rows(k, schedule[k].number),
                               schedule[k].start, rules[k].next)

\* No row carries a date that has not come, although the worker reads the date
\* from two clocks and midnight may pass in between.
NothingEarly == \A k \in RuleId, n \in Number : \A d \in Rows(k, n) : d <= day

\* A due rule is worked off in the end, unless it is deleted or put off.
DueIsPosted ==
    \A k \in RuleId : (k \in LiveRules /\ rules[k].next <= day)
                         ~> (k \notin LiveRules \/ rules[k].next > day)
=============================================================================
