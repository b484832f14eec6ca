------------------------------ MODULE Services ------------------------------
(***************************************************************************)
(* The services that keep a table of their own: sign-in attempts           *)
(* (Throttle), exchange rates (Rates), budgets (Budgets) and the seed      *)
(* (Seed).  They share no row, so nothing is lost when only one of them,   *)
(* `service', takes steps in a behaviour.                                  *)
(***************************************************************************)
EXTENDS Integers

CONSTANTS
    SignIn, MaxFailed,                                      \* Throttle
    Saver, Worker, Rate, Currency, Quoted, Endpoint, Dies,  \* Rates
    Transaction, Budget, Category, Lower,                   \* Budgets
    MonthLength, Months, Amount,
    Server, SeedCalls,                                      \* Seed
    None

VARIABLES
    service,
    attempts, signin, guesses,                          \* Throttle
    manual, provider, request, saved, overlapped,       \* Rates
    transactions, budgets,                              \* Budgets
    written, pc, next                                   \* Seed

T == INSTANCE Throttle WITH Request <- SignIn, pc <- signin
R == INSTANCE Rates WITH Request <- Saver
B == INSTANCE Budgets
S == INSTANCE Seed WITH Instance <- Server, Calls <- SeedCalls

ASSUME ServicesAssumption ==
    T!ThrottleAssumption /\ R!RatesAssumption /\ B!BudgetsAssumption /\ S!SeedAssumption

throttleVars == <<attempts, signin, guesses>>
ratesVars    == <<manual, provider, request, saved, overlapped>>
budgetsVars  == <<transactions, budgets>>
seedVars     == <<written, pc, next>>
vars         == <<service, throttleVars, ratesVars, budgetsVars, seedVars>>

Init ==
    /\ service \in {"throttle", "rates", "budgets", "seed"}
    /\ T!Init /\ R!Init /\ B!Init /\ S!Init

Next ==
    \/ service = "throttle" /\ T!Next /\ UNCHANGED <<service, ratesVars, budgetsVars, seedVars>>
    \/ service = "rates"    /\ R!Next /\ UNCHANGED <<service, throttleVars, budgetsVars, seedVars>>
    \/ service = "budgets"  /\ B!Next /\ UNCHANGED <<service, throttleVars, ratesVars, seedVars>>
    \/ service = "seed"     /\ S!Next /\ UNCHANGED <<service, throttleVars, ratesVars, budgetsVars>>

Spec == Init /\ [][Next]_vars

-----------------------------------------------------------------------------
(* The properties of the modules, which have what they say.                *)

\* The rows and requests of the four services are well formed.
TypeOK ==
    CASE service = "throttle" -> T!TypeOK
      [] service = "rates"    -> R!TypeOK
      [] service = "budgets"  -> B!TypeOK
      [] service = "seed"     -> S!TypeOK

\* Throttle: the lockout is neither escaped nor early, and not too late.
LockedOut == T!LockedOut

\* Rates: the overrides accepted last are there, and no others unless two saves
\* overlapped.
SavesReplace == service = "rates" => R!SavesReplace

\* Budgets: the budget page, the categories and the months add up.
SummariesAgree == service = "budgets" => B!SummariesAgree

\* Seed: nothing is seeded twice, nothing before what it needs.
SeededOnce == S!SeededOnce
=============================================================================
