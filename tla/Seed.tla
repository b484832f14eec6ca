-------------------------------- MODULE Seed --------------------------------
(***************************************************************************)
(* Development seed data (services/dev_seed.rs), written by every instance *)
(* of the server that starts with SEED_DEV_DATA, before it serves          *)
(* (main.rs, build_rocket).                                                *)
(*                                                                         *)
(* Registration is one transaction; every other call of the seed commits   *)
(* by itself.  An instance that fails or dies leaves what it has written,  *)
(* and somebody may start it again.  The calls are numbered in their       *)
(* order; call 0 is the registration.                                      *)
(***************************************************************************)
EXTENDS Integers

CONSTANTS
    Instance,       \* instances of the server on one database
    Calls           \* number of calls after the registration

SeedAssumption == Calls \in Nat \ {0}

VARIABLES
    written,    \* per call, how often its rows are in the database
    pc,         \* per instance: down, or how far it has come
    next        \* per instance, its next call

vars == <<written, pc, next>>

Init ==
    /\ written = [n \in 0 .. Calls |-> 0]
    /\ pc = [i \in Instance |-> "down"]
    /\ next = [i \in Instance |-> 0]

\* The process starts and comes to seed_dev_data.
Start(i) ==
    /\ pc[i] = "down"
    /\ pc' = [pc EXCEPT ![i] = "start"] /\ next' = [next EXCEPT ![i] = 0]
    /\ UNCHANGED written

\* demo_user_exists
UserExists == written[0] > 0

\* Seeds nothing when the demo user exists.
Check(i) ==
    /\ pc[i] = "start"
    /\ pc' = [pc EXCEPT ![i] = IF UserExists THEN "up" ELSE "seed"]
    /\ UNCHANGED <<written, next>>

\* Faulty variant: goes on with the user that another instance has registered.
RegisterAnyway(i) ==
    /\ pc[i] = "seed" /\ next[i] = 0
    /\ written' = [written EXCEPT ![0] = 1]
    /\ next' = [next EXCEPT ![i] = 1]
    /\ UNCHANGED pc

\* register_user: the e-mail address is unique, so the second of two instances
\* fails, and with it the start of its server.
Register(i) ==
    /\ pc[i] = "seed" /\ next[i] = 0
    /\ IF UserExists
         THEN pc' = [pc EXCEPT ![i] = "down"] /\ UNCHANGED <<written, next>>
         ELSE /\ written' = [written EXCEPT ![0] = 1]
              /\ next' = [next EXCEPT ![i] = 1]
              /\ UNCHANGED pc

\* Faulty variant: a call that fails is logged, and the seed goes on.
CallOrSkip(i) ==
    LET n == next[i] IN
    /\ pc[i] = "seed" /\ n \in 1 .. Calls
    /\ \E done \in {0, 1} : written' = [written EXCEPT ![n] = @ + done]
    /\ IF n = Calls THEN pc' = [pc EXCEPT ![i] = "up"] /\ UNCHANGED next
       ELSE next' = [next EXCEPT ![i] = n + 1] /\ UNCHANGED pc

\* The next call; after the last one the server comes up.
Call(i) ==
    LET n == next[i] IN
    /\ pc[i] = "seed" /\ n \in 1 .. Calls
    /\ written' = [written EXCEPT ![n] = @ + 1]
    /\ IF n = Calls THEN pc' = [pc EXCEPT ![i] = "up"] /\ UNCHANGED next
       ELSE next' = [next EXCEPT ![i] = n + 1] /\ UNCHANGED pc

\* A call fails, which ends the process, or the process dies or is stopped.
Die(i) ==
    /\ pc[i] # "down"
    /\ pc' = [pc EXCEPT ![i] = "down"]
    /\ UNCHANGED <<written, next>>

Next == \E i \in Instance : Start(i) \/ Check(i) \/ Register(i) \/ Call(i) \/ Die(i)

Spec == Init /\ [][Next]_vars

-----------------------------------------------------------------------------
(* Properties.                                                             *)

\* The instances are well formed, and only one of them is ever past the
\* registration.
TypeOK ==
    /\ written \in [0 .. Calls -> Nat]
    /\ pc \in [Instance -> {"down", "start", "seed", "up"}]
    /\ next \in [Instance -> 0 .. Calls]
    /\ \A i, j \in Instance :
          pc[i] = "seed" /\ pc[j] = "seed" /\ next[i] > 0 /\ next[j] > 0 => i = j

\* "Idempotent": restarts, deaths and instances that start together never seed
\* anything twice, and what is there is there with all that came before it: no
\* transaction without its accounts, no transfer without its rates (seed_dev_data).
SeededOnce ==
    /\ \A n \in 0 .. Calls : written[n] <= 1
    /\ \A n \in 1 .. Calls : written[n] > 0 => written[n - 1] > 0
=============================================================================
