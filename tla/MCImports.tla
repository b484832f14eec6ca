----------------------------- MODULE MCImports -----------------------------
(* Instances of Imports for TLC.                                           *)
EXTENDS Imports, TLC

CONSTANTS r1, r2, s1, s2, m1, m2, m3, coffee, lunch, visa, raw, name, a1, a2

\* m1 and m2 report the same charge on the same card.
MCReports == [m \in Message |-> CASE m = m1 -> coffee [] m = m2 -> coffee [] OTHER -> None]

\* m1 and m2 report two charges.
TwoReports == [m \in Message |-> IF m = m1 THEN coffee ELSE lunch]

MCCardOf == [m \in Message |-> IF m = m1 THEN visa ELSE None]

MCMerchantOf == [c \in Charge |-> raw]

\* m3 comes first, then m1 and m2.
MCSent == [m \in Message |-> CASE m = m1 -> 1 [] m = m2 -> 2 [] OTHER -> 0]

ReviewEndpoints == {"approve_import", "approve_ready_imports", "reject_import",
                    "link_import_account", "delete_account"}

ConnectionEndpoints == {"google_callback", "update_gmail_preferences", "disconnect"}

SerialEndpoints     == ReviewEndpoints \cup {"google_callback"}
ConcurrentEndpoints == ConnectionEndpoints \cup {"approve_import"}
ProgressEndpoints   == ConnectionEndpoints \cup {"approve_import", "reject_import"}

\* Syncs are interchangeable.
SyncSymmetry == Permutations(Sync)
=============================================================================
