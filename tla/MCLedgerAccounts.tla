--------------------------- MODULE MCLedgerAccounts ---------------------------
(* Instances of LedgerAccounts for TLC.  In the first two batches reserve on  *)
(* one position while a client creates another account and credits the hub,   *)
(* whose credit balance the batches touch too.                                *)
(* In the second a batch credits an account that a client has just created.   *)
EXTENDS LedgerAccounts, TLC

CONSTANTS pos, hub, rec, new, b1, b2, d

MCAccounts == {pos, hub, rec, new}

A(kind, from, to, rest) == [kind |-> kind, from |-> from, to |-> to, rest |-> rest]

RecoveryPlan ==
  b1 :> <<A("check", pos, hub, 1), A("post", pos, hub, 0)>> @@
  b2 :> <<A("post", pos, hub, 0)>> @@
  d :> <<A("create", new, new, 0), A("post", rec, hub, 0)>>

SplitPlan ==
  b1 :> <<A("post", hub, new, 0)>> @@
  b2 :> <<A("post", new, hub, 0)>> @@
  d :> <<A("create", new, new, 0)>>
=============================================================================
