-------------------------- MODULE MCChartOfAccounts --------------------------
(* An instance of ChartOfAccounts for TLC: two creations share an id and the  *)
(* ledger has an account of it at times, while an account is queried, its     *)
(* owner's accounts are, and its state is changed.                            *)
EXTENDS ChartOfAccounts

CONSTANTS x, y, none, dfsp1, dfsp2

Q(kind, ids, owner) == [kind |-> kind, ids |-> ids, owner |-> owner]

SharedPlan ==
  "create1" :> Q("create", <<none, x>>, dfsp1) @@
  "create2" :> Q("create", <<x, y>>, dfsp2) @@
  "get" :> Q("get", <<x, y>>, dfsp1) @@
  "byOwner" :> Q("getByOwner", <<>>, dfsp1) @@
  "delete" :> Q("delete", <<x>>, dfsp1)
=============================================================================
