------------------------------- MODULE Rates --------------------------------
(***************************************************************************)
(* Exchange rates of one user (services/exchange_rates.rs): the overrides  *)
(* the user saves, the cache of the provider's rates, and the rate that is *)
(* in effect for a pair of currencies.                                     *)
(*                                                                         *)
(* Both kinds of rate are rows of exchange_rates; the source is part of    *)
(* the key, so saves and refreshes never meet in one row and are kept as   *)
(* two tables here.  An action is one statement, or one row of a statement *)
(* that writes several; rows a transaction has deleted, inserted or        *)
(* updated are locked until it commits.                                    *)
(*   - A DELETE finds its rows in a snapshot (`todo') and waits for each;  *)
(*     a row that another transaction has deleted is passed over, also     *)
(*     when its key has been inserted again.                               *)
(*   - An INSERT waits for a transaction that holds the same key, and      *)
(*     fails if the key is there when that one has ended.                  *)
(*                                                                         *)
(* The provider quotes some pairs and may fail for any base currency.  A   *)
(* cached rate is stale when it is 24 hours old.                           *)
(***************************************************************************)
EXTENDS Integers, FiniteSets

CONSTANTS
    Currency,       \* currencies the user tracks (list_tracked_currencies), in
                    \* the order of their codes
    Rate,           \* rates a user may enter
    Quoted,         \* pairs the provider quotes
    Request,        \* handlers, with the tasks they spawn, that may run at once
    Worker,         \* the task of run_worker
    Endpoint,       \* what is in use of them
    Dies,           \* whether a request may die in the middle
    None

Pair == {p \in Currency \X Currency : p[1] # p[2]}

RatesAssumption ==
    /\ Currency \subseteq Nat /\ Quoted \subseteq Pair
    /\ Worker \notin Request
    /\ None \notin Rate /\ None \notin {"fresh", "stale"}
    /\ None \notin {"manual", "provider"} \X Pair
    /\ Endpoint \subseteq {"replace", "list", "resolve", "worker"}
    /\ Dies \in BOOLEAN

Task == Request \cup {Worker}

VARIABLES
    manual,     \* rows of source `manual'
    provider,   \* rows of source `provider', by their age
    request,    \* per task: next statement and locals
    saved,      \* overrides of the save that committed last
    overlapped  \* whether another save committed while that one was open

vars == <<manual, provider, request, saved, overlapped>>

Overrides == [Pair -> Rate \cup {None}]
NoRates   == [p \in Pair |-> None]

Local == [pc : {"idle", "delete", "insert", "again", "fetch", "upsert"},
          todo : SUBSET Pair,       \* rows left of a statement
          held : SUBSET Pair,       \* rows it has locked
          rows : Overrides,         \* the overrides to save
          asked : SUBSET Currency,  \* the currencies it is about, last one
          down : BOOLEAN,           \* first if `down'
          fetched : SUBSET Pair,    \* pairs the provider answered
          met : BOOLEAN]            \* a save has committed since it began

Idle == [pc |-> "idle", todo |-> {}, held |-> {}, rows |-> NoRates, asked |-> {},
         down |-> FALSE, fetched |-> {}, met |-> FALSE]

Given(rows)        == {p \in Pair : rows[p] # None}
At(r, pc)          == request[r].pc = pc
Become(r, local)   == request' = [request EXCEPT ![r] = local]
Calls(r, endpoint) == r # Worker /\ At(r, "idle") /\ endpoint \in Endpoint

Init ==
    /\ manual = NoRates /\ provider = NoRates
    /\ request = [r \in Task |-> Idle]
    /\ saved = NoRates /\ overlapped = FALSE

-----------------------------------------------------------------------------
(* Row locks.                                                              *)

Saving   == {"delete", "insert"}
Table(r) == IF request[r].pc \in Saving THEN "manual" ELSE "provider"

Free(r, p) == \A q \in Task \ {r} : Table(q) = Table(r) => p \notin request[q].held

\* The rows a statement may ask for next.  The upsert of a refresh goes through
\* its currencies in their order, a save in the order the client sent.
Precedes(p, q) == p[1] < q[1] \/ (p[1] = q[1] /\ p[2] <= q[2])

\* Faulty variant: an upsert takes its rows in any order.
NextRowsAny(r) == request[r].todo

NextRows(r) ==
    IF ~At(r, "upsert") THEN request[r].todo
    ELSE {p \in request[r].todo : \A q \in request[r].todo :
             IF request[r].down THEN Precedes(q, p) ELSE Precedes(p, q)}

\* q holds a row that r may ask for next.
WaitsFor(r, q) == q # r /\ Table(q) = Table(r) /\ NextRows(r) \cap request[q].held # {}

Deadlocked(r) ==
    \E D \in SUBSET Task : /\ r \in D
                           /\ \A q \in D : \E p \in D : WaitsFor(q, p)
                           /\ \A q \in D : \E p \in D : WaitsFor(p, q)

-----------------------------------------------------------------------------
(* replace_exchange_rates.                                                 *)

\* normalize_exchange_rate_input has refused what is no rate of a pair; the
\* snapshot of the DELETE.
Replace(r) ==
    /\ Calls(r, "replace")
    /\ \E rows \in Overrides : Become(r, [Idle EXCEPT !.pc = "delete", !.rows = rows,
                                                     !.todo = Given(manual)])
    /\ UNCHANGED <<manual, provider, saved, overlapped>>

\* Faulty variant: deletes the pairs of the new set, no others.
DeleteRowOfSet(r) ==
    /\ At(r, "delete")
    /\ \E p \in request[r].todo :
          /\ Free(r, p)
          /\ Become(r, [request[r] EXCEPT !.todo = @ \ {p},
                                          !.held = IF request[r].rows[p] # None
                                                   THEN @ \cup {p} ELSE @])
    /\ UNCHANGED <<manual, provider, saved, overlapped>>

DeleteRow(r) ==
    /\ At(r, "delete")
    /\ \E p \in request[r].todo :
          /\ Free(r, p)
          /\ Become(r, [request[r] EXCEPT !.todo = @ \ {p}, !.held = @ \cup {p}])
    /\ UNCHANGED <<manual, provider, saved, overlapped>>

Insert(r) ==
    /\ At(r, "delete") /\ request[r].todo = {}
    /\ Become(r, [request[r] EXCEPT !.pc = "insert", !.todo = Given(request[r].rows)])
    /\ UNCHANGED <<manual, provider, saved, overlapped>>

\* A key that is there and was not deleted by this transaction is a unique
\* violation, which rolls it back.
InsertRow(r) ==
    /\ At(r, "insert")
    /\ \E p \in request[r].todo :
          /\ Free(r, p)
          /\ Become(r, IF manual[p] # None /\ p \notin request[r].held THEN Idle
                       ELSE [request[r] EXCEPT !.todo = @ \ {p}, !.held = @ \cup {p}])
    /\ UNCHANGED <<manual, provider, saved, overlapped>>

\* Faulty variant: ON CONFLICT DO NOTHING.
WrittenIfNew(rows, held) ==
    [p \in Pair |-> IF p \in held /\ manual[p] = None THEN rows[p] ELSE manual[p]]

\* What the DELETE took is gone, what the INSERT gave is there.
Written(rows, held) == [p \in Pair |-> IF p \in held THEN rows[p] ELSE manual[p]]

\* The other saves no longer find the rows this one has deleted.
Commit(r) ==
    LET gone == {p \in request[r].held : manual[p] # None} IN
    /\ At(r, "insert") /\ request[r].todo = {}
    /\ manual' = Written(request[r].rows, request[r].held)
    /\ saved' = request[r].rows
    /\ overlapped' = request[r].met
    /\ request' = [q \in Task |->
                     IF q = r THEN Idle
                     ELSE IF request[q].pc \in Saving
                       THEN [request[q] EXCEPT !.met = TRUE,
                                               !.todo = IF At(q, "delete") THEN @ \ gone ELSE @]
                     ELSE request[q]]
    /\ UNCHANGED provider

-----------------------------------------------------------------------------
(* The cache of the provider's rates.                                      *)

Between(C) == {p \in Pair : p[1] \in C /\ p[2] \in C}

\* should_refresh_provider_cache
NeedsRefresh(C) ==
    /\ Cardinality(C) >= 2
    /\ \/ \E p \in Between(C) : provider[p] = "stale"
       \/ Cardinality(Given(provider) \cap Between(C)) < Cardinality(C) * (Cardinality(C) - 1)

Fetching(C) == [Idle EXCEPT !.pc = "fetch", !.asked = C]

\* list_exchange_rates: answers from the cache, if there is one, and refreshes
\* it in a task of its own, which reads again; otherwise it waits.
List(r) ==
    /\ Calls(r, "list")
    /\ \E C \in SUBSET Currency :
          /\ NeedsRefresh(C)
          /\ Become(r, IF (Given(manual) \cup Given(provider)) \cap Between(C) = {}
                       THEN Fetching(C)
                       ELSE [Idle EXCEPT !.pc = "again", !.asked = C])
    /\ UNCHANGED <<manual, provider, saved, overlapped>>

ReadAgain(r) ==
    /\ At(r, "again")
    /\ Become(r, IF NeedsRefresh(request[r].asked) THEN Fetching(request[r].asked) ELSE Idle)
    /\ UNCHANGED <<manual, provider, saved, overlapped>>

\* resolve_effective_exchange_rate, for a transfer.
Resolve(r) ==
    /\ Calls(r, "resolve")
    /\ \E p \in Pair :
          /\ NeedsRefresh({p[1], p[2]})
          /\ Become(r, [Fetching({p[1], p[2]}) EXCEPT !.down = p[1] > p[2]])
    /\ UNCHANGED <<manual, provider, saved, overlapped>>

\* refresh_all_stale_provider_rates, of the worker.
WorkerRefresh(r) ==
    /\ r = Worker /\ At(r, "idle") /\ "worker" \in Endpoint
    /\ NeedsRefresh(Currency)
    /\ Become(r, Fetching(Currency))
    /\ UNCHANGED <<manual, provider, saved, overlapped>>

\* fetch_online_exchange_rates: one HTTP request per base currency, and the
\* bases whose request fails are left out.
Fetch(r) ==
    /\ At(r, "fetch")
    /\ \E answered \in SUBSET request[r].asked :
          LET fetched == {p \in Quoted \cap Between(request[r].asked) : p[1] \in answered} IN
          Become(r, IF fetched = {} THEN Idle
                    ELSE [request[r] EXCEPT !.pc = "upsert", !.todo = fetched,
                                            !.fetched = fetched])
    /\ UNCHANGED <<manual, provider, saved, overlapped>>

\* upsert_provider_exchange_rates
UpsertRow(r) ==
    /\ At(r, "upsert")
    /\ \E p \in NextRows(r) :
          /\ Free(r, p)
          /\ Become(r, [request[r] EXCEPT !.todo = @ \ {p}, !.held = @ \cup {p}])
    /\ UNCHANGED <<manual, provider, saved, overlapped>>

Upserted(P) == [p \in Pair |-> IF p \in P THEN "fresh" ELSE provider[p]]

UpsertDone(r) ==
    /\ At(r, "upsert") /\ request[r].todo = {}
    /\ provider' = Upserted(request[r].fetched)
    /\ Become(r, Idle)
    /\ UNCHANGED <<manual, saved, overlapped>>

\* 24 hours later.
Age ==
    /\ \E p \in Pair : provider[p] = "fresh"
                       /\ provider' = [provider EXCEPT ![p] = "stale"]
    /\ UNCHANGED <<manual, request, saved, overlapped>>

-----------------------------------------------------------------------------
(* The rate in effect.  A rate is its source and the direction it is for.  *)

\* merge_exchange_rate_records, one pair of the list.
Listed(p) == IF manual[p] # None THEN <<"manual", p>>
             ELSE IF provider[p] # None THEN <<"provider", p>> ELSE None

Inverse(p) == <<p[2], p[1]>>

\* Faulty variant: looks for an override in both directions first.
ResolvedManualFirst(p) ==
    LET q == Inverse(p) IN
    IF manual[p] # None THEN <<"manual", p>>
    ELSE IF manual[q] # None THEN <<"manual", q>>
    ELSE IF provider[p] # None THEN <<"provider", p>>
    ELSE IF provider[q] # None THEN <<"provider", q>> ELSE None

\* resolve_effective_rate_from_records
Resolved(p) ==
    LET q == Inverse(p) IN
    IF manual[p] # None THEN <<"manual", p>>
    ELSE IF provider[p] # None THEN <<"provider", p>>
    ELSE IF manual[q] # None THEN <<"manual", q>>
    ELSE IF provider[q] # None THEN <<"provider", q>> ELSE None

-----------------------------------------------------------------------------
(* PostgreSQL ends one transaction of a deadlock; a request dies.          *)

Victim(r) ==
    /\ Deadlocked(r) /\ Become(r, Idle)
    /\ UNCHANGED <<manual, provider, saved, overlapped>>

Crash(r) ==
    /\ Dies /\ r \in Request /\ ~At(r, "idle") /\ Become(r, Idle)
    /\ UNCHANGED <<manual, provider, saved, overlapped>>

Save(r)    == Replace(r) \/ DeleteRow(r) \/ Insert(r) \/ InsertRow(r) \/ Commit(r)
Refresh(r) == List(r) \/ ReadAgain(r) \/ Resolve(r) \/ WorkerRefresh(r) \/ Fetch(r)
              \/ UpsertRow(r) \/ UpsertDone(r)

Next ==
    \/ Age
    \/ \E r \in Task : Save(r) \/ Refresh(r) \/ Victim(r) \/ Crash(r)

\* A task that has begun goes on.  The worker comes back every hour, and the
\* provider does not fail for ever.
Continue(r) == ~At(r, "idle") /\ (Save(r) \/ Refresh(r) \/ Victim(r))
Provided    == Fetch(Worker) /\ request'[Worker].fetched = Quoted

Fairness == /\ \A r \in Task : SF_vars(Continue(r))
            /\ WF_vars(WorkerRefresh(Worker)) /\ SF_vars(Provided)

Spec     == Init /\ [][Next]_vars
FairSpec == Spec /\ Fairness

-----------------------------------------------------------------------------
(* Properties.                                                             *)

\* The rows and the tasks are well formed; no two transactions hold one row.
TypeOK ==
    /\ manual \in Overrides /\ saved \in Overrides /\ overlapped \in BOOLEAN
    /\ provider \in [Pair -> {None, "fresh", "stale"}]
    /\ request \in [Task -> Local]
    /\ \A q, r \in Task : q # r /\ Table(q) = Table(r) => request[q].held \cap request[r].held = {}

\* The set that was saved last is there, whole, whatever other saves were cut
\* off or refused, and nothing else is, unless two saves that were accepted
\* overlapped (replace_exchange_rates).
SavesReplace ==
    /\ \A p \in Given(saved) : manual[p] = saved[p]
    /\ ~overlapped => manual = saved

\* A transfer converts at the rate the list shows for its direction, and finds
\* a rate exactly when the list has one for either direction
\* (merge_exchange_rate_records, resolve_effective_rate_from_records).
ListAgrees ==
    \A p \in Pair :
        /\ Listed(p) # None => Resolved(p) = Listed(p)
        /\ Resolved(p) = None <=> Listed(p) = None /\ Listed(Inverse(p)) = None

\* A pair the provider quotes is never stale or missing for ever, although
\* pages refresh the same rows and requests fail (refresh_all_stale_provider_rates).
StaleRefreshed ==
    <>[][\A r \in Request : ~Resolve(r)]_vars
    => \A p \in Quoted : provider[p] # "fresh" ~> provider[p] = "fresh"
=============================================================================
