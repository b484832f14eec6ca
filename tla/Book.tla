-------------------------------- MODULE Book --------------------------------
(***************************************************************************)
(* What the ledger promises its user: a book of entries on open accounts.  *)
(* A plain entry is posted, amended and removed alone; the two entries of  *)
(* a transfer come and go together and are never amended; an account       *)
(* closes only when no entry is on it and another account stays open.      *)
(* Module Ledger implements this with one request at a time.               *)
(***************************************************************************)
EXTENDS Integers, FiniteSets

CONSTANTS AccountId, EntryId, TransferId, Value, NULL, None

VARIABLES
    open,       \* the accounts entries may be posted to
    entries     \* the entry behind each id, None if there is none

vars == <<open, entries>>

Recorded == {x \in EntryId : entries[x] # None}
On(a)    == {x \in Recorded : entries[x].account = a}
Moved(t) == {x \in Recorded : entries[x].transfer = t}

Entry(a, t, type, n) == [account |-> a, transfer |-> t, type |-> type, amount |-> n]

Init == /\ open # {}
        /\ entries = [x \in EntryId |-> None]

Open == /\ \E a \in AccountId \ open : open' = open \cup {a}
        /\ UNCHANGED entries

Close == /\ \E a \in open : /\ On(a) = {}
                            /\ open' = open \ {a}
                            /\ open' # {}
         /\ UNCHANGED entries

\* Posts an entry under a free id, or amends a plain one.
Write == /\ \E x \in EntryId, a \in open, type \in {"income", "expense"}, n \in Value :
               /\ x \in Recorded => entries[x].transfer = NULL
               /\ entries' = [entries EXCEPT ![x] = Entry(a, NULL, type, n)]
         /\ UNCHANGED open

Remove == /\ \E x \in Recorded : /\ entries[x].transfer = NULL
                                 /\ entries' = [entries EXCEPT ![x] = None]
          /\ UNCHANGED open

Move == /\ \E t \in TransferId, out, in \in EntryId \ Recorded, a, b \in open,
              n, m \in Value :
              /\ Moved(t) = {} /\ out # in /\ a # b
              /\ entries' = [entries EXCEPT ![out] = Entry(a, t, "expense", n),
                                            ![in]  = Entry(b, t, "income", m)]
        /\ UNCHANGED open

Cancel == /\ \E t \in TransferId :
                /\ Moved(t) # {}
                /\ entries' = [x \in EntryId |-> IF x \in Moved(t) THEN None ELSE entries[x]]
          /\ UNCHANGED open

Next == Open \/ Close \/ Write \/ Remove \/ Move \/ Cancel

Spec == Init /\ [][Next]_vars
=============================================================================
