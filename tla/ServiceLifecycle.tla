--------------------------- MODULE ServiceLifecycle ---------------------------
(***************************************************************************)
(* The life of the two processes: start() brings up one dependency after   *)
(* the other, stop() takes them down, signals and timers cut in at any     *)
(* await, and the container runtime starts the process again.              *)
(*                                                                         *)
(* start() and up to two runs of stop() share one process: one of a signal *)
(* handler, one of the catch blocks of start().  They interleave at their  *)
(* awaits, and nothing keeps start() from going on beside a stop().        *)
(***************************************************************************)
EXTENDS Integers, FiniteSets, FiniteSetsExt, Sequences

CONSTANTS
  MaxTroubles,    \* bound: hangs, rejections, crashes and signals, all together
  MaxCalls        \* bound: gRPC calls running in one service at a time

VARIABLES
  run,            \* what start() has come to; "down" when there is no process
  at,             \* the step of start() that is under way, or the last
  stopping,       \* per run of stop(), the dependency being taken down; 0 for none
  hung,           \* the promises awaited that will never settle
  signalled,      \* a signal came, before or after start() was through
  open,           \* the gRPC server takes calls
  running,        \* gRPC calls under way
  closed,         \* dependencies taken down
  index,          \* the accounts collection: absent, without or with its unique index
  cut,            \* history: an end between creating collection and index
  troubles        \* those that may still happen

lifeVars == <<run, at, stopping, hung, signalled, open, running, closed, index, cut, troubles>>

Services == {"coa", "ledger"}
Stoppers == {"signal", "catch"}

ASSUME BoundsAssumption == MaxTroubles \in Nat /\ MaxCalls \in Nat

-----------------------------------------------------------------------------
(* The two programs *)

\* What start() awaits, in order.  The accounts repository's init is three
\* steps; those without an await that may throw belong to the step after them.
ChartStartup == <<"logger", "config", "collection", "index", "redis", "adapter", "audit",
                  "authz", "token", "grpc", "express">>
LedgerStartup == <<"logger", "config", "token", "audit", "authz", "collection", "index", "redis",
                   "journal", "grpc", "express">>
Startup(s) == IF s = "coa" THEN ChartStartup ELSE LedgerStartup

\* Steps whose rejection start() catches, to stop() and exit
Caught(s) ==
  {"collection", "index", "redis"} \cup (IF s = "coa" THEN {"adapter"} ELSE {"token", "journal"})

\* (mutant) the dependencies first, the calls last
CleanupBackwards(s) ==
  IF s = "coa" THEN <<"adapter", "repo", "grpc", "audit", "logger">>
               ELSE <<"journal", "repo", "grpc", "audit", "logger">>

\* What stop() takes down, in order
ChartCleanup == <<"grpc", "adapter", "repo", "audit", "logger">>
LedgerCleanup == <<"grpc", "journal", "repo", "audit", "logger">>
Cleanup(s) == IF s = "coa" THEN ChartCleanup ELSE LedgerCleanup

StepNo(s, step) == CHOOSE i \in DOMAIN Startup(s) : Startup(s)[i] = step

Step(s) == Startup(s)[at[s]]

\* Whether the field that stop() looks at is set: that of a client once it is
\* initialised, that of a repository, adapter or server before it is.
Made(s, item) ==
  CASE item = "repo" -> at[s] >= StepNo(s, "collection")
    [] item \in {"logger", "audit"} -> at[s] > StepNo(s, item)
    [] OTHER -> at[s] >= StepNo(s, item)

Reset(f, s, value) == [f EXCEPT ![s] = value]

-----------------------------------------------------------------------------
(* Ends *)

\* The end of a process, whatever it was doing
Exit(s) ==
  /\ run' = Reset(run, s, "down")
  /\ at' = Reset(at, s, 1)
  /\ stopping' = Reset(stopping, s, [w \in Stoppers |-> 0])
  /\ hung' = Reset(hung, s, {})
  /\ signalled' = Reset(signalled, s, "no")
  /\ open' = Reset(open, s, FALSE)
  /\ running' = Reset(running, s, 0)
  /\ closed' = Reset(closed, s, {})

\* What an end or a rejection leaves of the request under way to MongoDB: an
\* end that comes before the collection has its index leaves it without one.
LeaveStore(s) ==
  /\ \/ UNCHANGED index
     \/ /\ run[s] = "starting" /\ Step(s) = "collection" /\ index[s] = "none"
        /\ index' = Reset(index, s, "bare")
     \/ /\ run[s] = "starting" /\ Step(s) = "index"
        /\ index' = Reset(index, s, "unique")
  /\ cut' = Reset(cut, s, cut[s] \/ (index'[s] = "bare" /\ run[s] = "starting"
                                                      /\ Step(s) \in {"collection", "index"}))

Trouble == troubles > 0 /\ troubles' = troubles - 1

-----------------------------------------------------------------------------
(* stop() *)

\* (mutant) stop() does not look whether a dependency is there
RestAll(s, i) == {j \in DOMAIN Cleanup(s) : j > i}

\* The dependencies stop() has still to take down after the i-th, as it finds
\* them now
Rest(s, i) == {j \in DOMAIN Cleanup(s) : j > i /\ Made(s, Cleanup(s)[j])}

\* stop() goes on after the i-th dependency: it awaits the next, or it returns
\* and the process exits.  tryShutdown closes the server before it waits.
Clean(s, w, i) ==
  IF Rest(s, i) = {}
  THEN Exit(s) /\ LeaveStore(s)
  ELSE LET next == Min(Rest(s, i)) IN
       /\ stopping' = [stopping EXCEPT ![s][w] = next]
       /\ open' = IF Cleanup(s)[next] = "grpc" THEN Reset(open, s, FALSE) ELSE open
       /\ UNCHANGED <<run, at, hung, running, index, cut>>

\* A dependency was taken down; the gRPC server only when no call runs
CleanStep(s, w) ==
  /\ stopping[s][w] > 0 /\ w \notin hung[s]
  /\ Cleanup(s)[stopping[s][w]] = "grpc" => running[s] = 0
  /\ Clean(s, w, stopping[s][w])
  /\ run'[s] # "down" =>
       /\ closed' = Reset(closed, s, closed[s] \cup {Cleanup(s)[stopping[s][w]]})
       /\ UNCHANGED signalled
  /\ UNCHANGED troubles

\* It rejects: nothing catches that, neither in the handler nor in start()
CleanFails(s, w) ==
  /\ stopping[s][w] > 0 /\ w \notin hung[s]
  /\ Exit(s) /\ LeaveStore(s)
  /\ Trouble

-----------------------------------------------------------------------------
(* start() *)

LifeInit ==
  /\ run = [s \in Services |-> "down"]
  /\ at = [s \in Services |-> 1]
  /\ stopping = [s \in Services |-> [w \in Stoppers |-> 0]]
  /\ hung = [s \in Services |-> {}]
  /\ signalled = [s \in Services |-> "no"]
  /\ open = [s \in Services |-> FALSE]
  /\ running = [s \in Services |-> 0]
  /\ closed = [s \in Services |-> {}]
  /\ index = [s \in Services |-> "none"]
  /\ cut = [s \in Services |-> FALSE]
  /\ troubles = MaxTroubles

Restart(s) ==
  /\ run[s] = "down"
  /\ run' = Reset(run, s, "starting")
  /\ UNCHANGED <<at, stopping, hung, signalled, open, running, closed, index, cut, troubles>>

\* (mutant) init does not await the creation of the index
MakeCollectionOnly(s) ==
  /\ at' = Reset(at, s, at[s] + 2)
  /\ index' = IF index[s] = "none" THEN Reset(index, s, "bare") ELSE index

\* The collection is there already, with or without its index, or it is made
MakeCollection(s) ==
  IF index[s] = "none"
  THEN /\ index' = Reset(index, s, "bare")
       /\ at' = Reset(at, s, at[s] + 1)
  ELSE /\ at' = Reset(at, s, at[s] + 2)
       /\ UNCHANGED index

\* The step under way settles and the next one is begun.  A server that was
\* shut down before it was bound may or may not open.
StartStep(s) ==
  /\ run[s] = "starting" /\ "start" \notin hung[s]
  /\ Step(s) = "adapter" => open["ledger"]
  /\ CASE Step(s) = "collection" -> MakeCollection(s) /\ UNCHANGED <<run, open>>
       [] Step(s) = "index" -> /\ index' = Reset(index, s, "unique")
                               /\ at' = Reset(at, s, at[s] + 1)
                               /\ UNCHANGED <<run, open>>
       [] Step(s) = "grpc" -> /\ \E up \in BOOLEAN :
                                   /\ signalled[s] = "no" => up
                                   /\ open' = Reset(open, s, up)
                              /\ at' = Reset(at, s, at[s] + 1)
                              /\ UNCHANGED <<run, index>>
       [] Step(s) = "express" -> /\ run' = Reset(run, s, "serving")
                                 /\ UNCHANGED <<at, open, index>>
       [] OTHER -> /\ at' = Reset(at, s, at[s] + 1)
                   /\ UNCHANGED <<run, open, index>>
  /\ UNCHANGED <<stopping, hung, signalled, running, closed, cut, troubles>>

\* The step under way rejects.  Where start() catches that it awaits stop() and
\* exits, elsewhere its own rejection ends the process at once.
Fail(s) ==
  IF Step(s) \in Caught(s) /\ Rest(s, 0) # {}
  THEN /\ run' = Reset(run, s, "failing")
       /\ stopping' = [stopping EXCEPT ![s]["catch"] = Min(Rest(s, 0))]
       /\ LeaveStore(s)
       /\ UNCHANGED <<at, hung, signalled, open, running, closed>>
  ELSE Exit(s) /\ LeaveStore(s)

StartFails(s) ==
  /\ run[s] = "starting" /\ "start" \notin hung[s]
  /\ Fail(s)
  /\ Trouble

\* waitForReady gives up after its deadline when the ledger does not answer
AdapterDeadline ==
  /\ run["coa"] = "starting" /\ "start" \notin hung["coa"]
  /\ Step("coa") = "adapter" /\ ~open["ledger"]
  /\ Fail("coa")
  /\ UNCHANGED troubles

-----------------------------------------------------------------------------
(* Signals, timers, crashes *)

\* A promise that start() or stop() awaits never settles
Hang(s) ==
  /\ \/ run[s] = "starting" /\ hung' = [hung EXCEPT ![s] = @ \cup {"start"}]
     \/ \E w \in Stoppers : /\ stopping[s][w] > 0
                            /\ hung' = [hung EXCEPT ![s] = @ \cup {w}]
  /\ hung' # hung
  /\ Trouble
  /\ UNCHANGED <<run, at, stopping, signalled, open, running, closed, index, cut>>

\* SIGINT or SIGTERM: stop() is run beside whatever runs, start() included.  A
\* process gets one signal: a second would run stop() once more.
Signal(s) ==
  /\ run[s] # "down" /\ signalled[s] = "no"
  /\ Clean(s, "signal", 0)
  /\ run'[s] # "down" =>
       /\ signalled' = Reset(signalled, s, IF run[s] = "serving" THEN "late" ELSE "early")
       /\ UNCHANGED closed
  /\ Trouble

\* (mutant) the signal handler starts no timer
KillTimerNever(s) == FALSE /\ UNCHANGED lifeVars

\* Five seconds after a signal the process ends, whatever stop() still awaits
KillTimer(s) ==
  /\ stopping[s]["signal"] > 0
  /\ Exit(s) /\ LeaveStore(s)
  /\ UNCHANGED troubles

\* (mutant) the startup timer is cleared before the failed start is stopped
StartTimeoutStarting(s) ==
  /\ run[s] = "starting" /\ "start" \in hung[s]
  /\ Exit(s) /\ LeaveStore(s)
  /\ UNCHANGED troubles

\* The startup timer throws, which ends the process: start() hangs, or the
\* stop() that it awaits
StartTimeout(s) ==
  /\ run[s] \in {"starting", "failing"}
  /\ hung[s] \cap {"start", "catch"} # {}
  /\ Exit(s) /\ LeaveStore(s)
  /\ UNCHANGED troubles

\* Any other end, that of a start which is merely slow included
Crash(s) ==
  /\ run[s] # "down"
  /\ Exit(s) /\ LeaveStore(s)
  /\ Trouble

CallBegins(s) ==
  /\ open[s] /\ running[s] < MaxCalls
  /\ running' = Reset(running, s, running[s] + 1)
  /\ UNCHANGED <<run, at, stopping, hung, signalled, open, closed, index, cut, troubles>>

CallEnds(s) ==
  /\ running[s] > 0
  /\ running' = Reset(running, s, running[s] - 1)
  /\ UNCHANGED <<run, at, stopping, hung, signalled, open, closed, index, cut, troubles>>

LifeNext ==
  \/ \E s \in Services :
       \/ Restart(s) \/ StartStep(s) \/ StartFails(s) \/ Hang(s) \/ Signal(s)
       \/ KillTimer(s) \/ StartTimeout(s) \/ Crash(s)
       \/ CallBegins(s) \/ CallEnds(s)
       \/ \E w \in Stoppers : CleanStep(s, w) \/ CleanFails(s, w)
  \/ AdapterDeadline

LifeSpec == LifeInit /\ [][LifeNext]_lifeVars

\* Promises that do not hang settle, timers fire, the runtime restarts what
\* ended.  Nothing is assumed of calls: stop() may wait for one for ever.
FairLifeSpec ==
  /\ LifeSpec
  /\ \A s \in Services :
       /\ WF_lifeVars(Restart(s))
       /\ WF_lifeVars(StartStep(s) \/ (s = "coa" /\ AdapterDeadline))
       /\ WF_lifeVars(KillTimer(s))
       /\ WF_lifeVars(StartTimeout(s))
       /\ \A w \in Stoppers : WF_lifeVars(CleanStep(s, w))

-----------------------------------------------------------------------------
(* Properties *)

\* Types, and who is at work: stop() runs where a signal or a caught rejection
\* started it, and takes down only dependencies that are there.
LifeTypeOK ==
  /\ run \in [Services -> {"down", "starting", "serving", "failing"}]
  /\ \A s \in Services : at[s] \in DOMAIN Startup(s)
  /\ stopping \in [Services -> [Stoppers -> 0..5]]
  /\ hung \in [Services -> SUBSET (Stoppers \cup {"start"})]
  /\ signalled \in [Services -> {"no", "early", "late"}]
  /\ open \in [Services -> BOOLEAN]
  /\ running \in [Services -> 0..MaxCalls]
  /\ \A s \in Services : closed[s] \subseteq {Cleanup(s)[i] : i \in DOMAIN Cleanup(s)}
  /\ index \in [Services -> {"none", "bare", "unique"}]
  /\ cut \in [Services -> BOOLEAN]
  /\ troubles \in 0..MaxTroubles
  /\ \A s \in Services :
       /\ stopping[s]["signal"] > 0 <=> signalled[s] # "no"
       /\ stopping[s]["catch"] > 0 <=> run[s] = "failing"
       /\ \A w \in Stoppers :
            stopping[s][w] > 0 => Made(s, Cleanup(s)[stopping[s][w]])

\* A service that was serving when it was told to stop takes nothing away from
\* a call: repositories, ledger client and logger go only after the last call
\* was answered.
CallsKeepDependencies ==
  \A s \in Services : signalled[s] = "late" /\ running[s] > 0 => closed[s] = {}

\* A service that takes calls has the unique index on account ids that keeps
\* concurrent creations apart, unless some earlier end came between the
\* creation of the collection and that of the index.
UniqueUnlessCut ==
  \A s \in Services : open[s] /\ index[s] # "unique" => cut[s]

\* Told to stop, a service ends, whatever hangs and whichever call runs on.
SignalEnds == \A s \in Services : signalled[s] # "no" ~> run[s] = "down"

Serving(s) == run[s] = "serving" /\ open[s] /\ signalled[s] = "no"

\* Whatever the troubles, when they are over both services end up serving, the
\* chart of accounts too, which does not start without the ledger.
BothServe == <>[](\A s \in Services : Serving(s))
=============================================================================
