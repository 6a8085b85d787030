----------------------------- MODULE BatchServer -----------------------------
(***************************************************************************)
(* What the queue of high-level requests promises those who call it, with  *)
(* neither queue nor requests: calls wait; one batch is served at a time   *)
(* and takes in all that wait; the calls of a batch end together and the   *)
(* same way; the end of the process ends them all.  HighLevelQueue         *)
(* implements it.                                                          *)
(***************************************************************************)
EXTENDS FiniteSets

CONSTANT Callers

VARIABLES
  waiting,        \* calls that were admitted and are not yet in a batch
  serving,        \* the batch
  outcome         \* how a call ended, "none" if it did not

serverVars == <<waiting, serving, outcome>>

Outcomes == {"none", "answered", "failed", "refused", "lost"}

ServerInit ==
  /\ waiting = {}
  /\ serving = {}
  /\ outcome = [c \in Callers |-> "none"]

Ends(C, how) == outcome' = [c \in Callers |-> IF c \in C THEN how ELSE outcome[c]]

Join(c) ==
  /\ outcome[c] = "none" /\ c \notin waiting \cup serving
  /\ waiting' = waiting \cup {c}
  /\ UNCHANGED <<serving, outcome>>

Refuse(c) ==
  /\ outcome[c] = "none" /\ c \notin waiting \cup serving
  /\ Ends({c}, "refused")
  /\ UNCHANGED <<waiting, serving>>

\* A batch takes in everyone
Take ==
  /\ serving = {} /\ waiting # {}
  /\ serving' = waiting
  /\ waiting' = {}
  /\ UNCHANGED outcome

\* Those that joined meanwhile go on waiting
Serve ==
  /\ serving # {}
  /\ \E how \in {"answered", "failed"} : Ends(serving, how)
  /\ serving' = {}
  /\ UNCHANGED waiting

\* The process ends, and with it everyone waiting and perhaps some who had
\* not got so far
Lose ==
  \E C \in SUBSET {c \in Callers : outcome[c] = "none"} :
    /\ waiting \cup serving \subseteq C
    /\ Ends(C, "lost")
    /\ waiting' = {} /\ serving' = {}

ServerNext ==
  \/ \E c \in Callers : Join(c) \/ Refuse(c)
  \/ Take \/ Serve \/ Lose

ServerSpec == ServerInit /\ [][ServerNext]_serverVars
=============================================================================
