------------------------------ MODULE MCLedger ------------------------------
(* Instances of Ledger for TLC.                                            *)
EXTENDS Ledger, TLC

CONSTANTS r1, r2, usd, dop

\* Hundredths: 1 usd = 58 dop, at which 1.25 cents are 72.5 and rounded to even;
\* 1 dop = 0.02 usd, at which the same amount converts to nothing.
MCRate == [p \in Currency \X Currency |->
             CASE p = <<usd, dop>> -> 5800
               [] p = <<dop, usd>> -> 2
               [] OTHER -> 0]

AllEndpoints ==
    {"create_account", "update_account", "delete_account",
     "create_transaction", "update_transaction", "delete_transaction",
     "create_transfer", "delete_transfer",
     "create_recurring", "update_recurring", "delete_recurring", "worker"}

ReferenceEndpoints == AllEndpoints \ {"update_account", "worker"}

\* Tasks are interchangeable.
TaskSymmetry == Permutations(Request)
=============================================================================
