-------------------------- MODULE MCServiceLifecycle --------------------------
(* The instance of ServiceLifecycle for TLC: its constants are two bounds.   *)
EXTENDS ServiceLifecycle
=============================================================================
