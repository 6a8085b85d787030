------------------------ MODULE ServiceLifecycleProofs ------------------------
(***************************************************************************)
(* The safety properties of ServiceLifecycle, for any number of troubles   *)
(* and calls.  They follow from one invariant, which ties what start() has *)
(* come to, what a signal found and what stop() has done so far.           *)
(***************************************************************************)
EXTENDS ServiceLifecycle, TLAPS

Runs == {"down", "starting", "serving", "failing"}
CleanupItems(s) == {Cleanup(s)[i] : i \in DOMAIN Cleanup(s)}
Item == UNION {CleanupItems(s) : s \in Services}

LifeTypes ==
  /\ run \in [Services -> Runs]
  /\ at \in [Services -> 1..11]
  /\ stopping \in [Services -> [Stoppers -> 0..5]]
  /\ hung \in [Services -> SUBSET (Stoppers \cup {"start"})]
  /\ signalled \in [Services -> {"no", "early", "late"}]
  /\ open \in [Services -> BOOLEAN]
  /\ running \in [Services -> 0..MaxCalls]
  /\ closed \in [Services -> SUBSET Item]
  /\ index \in [Services -> {"none", "bare", "unique"}]
  /\ cut \in [Services -> BOOLEAN]
  /\ troubles \in 0..MaxTroubles

\* stop() runs where it was started, on what is there
StopOK(s) ==
  /\ stopping[s]["signal"] > 0 <=> signalled[s] # "no"
  /\ stopping[s]["catch"] > 0 <=> run[s] = "failing"
  /\ \A w \in Stoppers : stopping[s][w] > 0 => Made(s, Cleanup(s)[stopping[s][w]])
  /\ closed[s] \subseteq CleanupItems(s)
  /\ closed[s] # {} => signalled[s] # "no" \/ run[s] = "failing"
  /\ signalled[s] # "no" => run[s] # "down"

\* A server that is open was bound, and a signalled one that served is shut
ServerOK(s) ==
  /\ run[s] = "serving" => at[s] = 11
  /\ open[s] => at[s] = 11
  /\ signalled[s] = "late" =>
       /\ run[s] = "serving" /\ ~open[s]
       /\ closed[s] # {} \/ stopping[s]["signal"] > 1 => running[s] = 0

\* The collection lacks its index only while the step is under way, or for good
IndexOK(s) ==
  /\ index[s] = "bare" /\ ~cut[s] => run[s] = "starting" /\ at[s] = StepNo(s, "index")
  /\ at[s] > StepNo(s, "index") => index[s] # "none"

ServiceOK(s) == StopOK(s) /\ ServerOK(s) /\ IndexOK(s)

LifeInv == LifeTypes /\ \A s \in Services : ServiceOK(s)

-----------------------------------------------------------------------------
(* The two programs *)

\* Where the steps stand that the invariant speaks of
LEMMA Steps ==
  ASSUME NEW s \in Services
  PROVE  /\ DOMAIN Startup(s) = 1..11
         /\ StepNo(s, "collection") \in {3, 6}
         /\ StepNo(s, "index") = StepNo(s, "collection") + 1
         /\ StepNo(s, "grpc") = 10
         /\ \A i \in 1..11 :
              /\ Startup(s)[i] = "collection" <=> i = StepNo(s, "collection")
              /\ Startup(s)[i] = "index" <=> i = StepNo(s, "index")
              /\ Startup(s)[i] = "grpc" <=> i = 10
              /\ Startup(s)[i] = "express" <=> i = 11
<1>1. \A i \in DOMAIN Startup(s) : StepNo(s, Startup(s)[i]) \in DOMAIN Startup(s)
                                /\ Startup(s)[StepNo(s, Startup(s)[i])] = Startup(s)[i]
  BY DEF StepNo
<1>2. CASE s = "coa"
  <2>1. /\ DOMAIN Startup(s) = 1..11
        /\ Startup(s)[1] = "logger" /\ Startup(s)[2] = "config" /\ Startup(s)[3] = "collection"
        /\ Startup(s)[4] = "index" /\ Startup(s)[5] = "redis" /\ Startup(s)[6] = "adapter"
        /\ Startup(s)[7] = "audit" /\ Startup(s)[8] = "authz" /\ Startup(s)[9] = "token"
        /\ Startup(s)[10] = "grpc" /\ Startup(s)[11] = "express"
    BY <1>2 DEF Startup, ChartStartup
  <2>2. /\ StepNo(s, "collection") = 3 /\ StepNo(s, "index") = 4 /\ StepNo(s, "grpc") = 10
    BY <1>1, <2>1
  <2> QED BY <2>1, <2>2
<1>3. CASE s = "ledger"
  <2>1. /\ DOMAIN Startup(s) = 1..11
        /\ Startup(s)[1] = "logger" /\ Startup(s)[2] = "config" /\ Startup(s)[3] = "token"
        /\ Startup(s)[4] = "audit" /\ Startup(s)[5] = "authz" /\ Startup(s)[6] = "collection"
        /\ Startup(s)[7] = "index" /\ Startup(s)[8] = "redis" /\ Startup(s)[9] = "journal"
        /\ Startup(s)[10] = "grpc" /\ Startup(s)[11] = "express"
    BY <1>3 DEF Startup, LedgerStartup
  <2>2. /\ StepNo(s, "collection") = 6 /\ StepNo(s, "index") = 7 /\ StepNo(s, "grpc") = 10
    BY <1>1, <2>1
  <2> QED BY <2>1, <2>2
<1> QED BY <1>2, <1>3 DEF Services

\* What stop() takes down, the server first
LEMMA CleanupShape ==
  ASSUME NEW s \in Services
  PROVE  /\ DOMAIN Cleanup(s) = 1..5
         /\ \A i \in 1..5 : Cleanup(s)[i] \in CleanupItems(s) /\ (Cleanup(s)[i] = "grpc" <=> i = 1)
         /\ CleanupItems(s) \subseteq Item
<1>1. DOMAIN Cleanup(s) = 1..5 /\ \A i \in 1..5 : Cleanup(s)[i] = "grpc" <=> i = 1
  BY DEF Cleanup, ChartCleanup, LedgerCleanup
<1> QED BY <1>1 DEF CleanupItems, Item

\* What stop() takes down has a step of start() of its name, but the repository
LEMMA ItemSteps ==
  ASSUME NEW s \in Services, NEW j \in 1..5, Cleanup(s)[j] # "repo"
  PROVE  StepNo(s, Cleanup(s)[j]) \in 1..11
<1>1. \E i \in 1..11 : Startup(s)[i] = Cleanup(s)[j]
  <2>1. CASE s = "coa"
    <3>1. Cleanup(s)[j] \in {"grpc", "adapter", "audit", "logger"}
      BY <2>1 DEF Cleanup, ChartCleanup
    <3>2. /\ Startup(s)[10] = "grpc" /\ Startup(s)[6] = "adapter"
          /\ Startup(s)[7] = "audit" /\ Startup(s)[1] = "logger"
      BY <2>1 DEF Startup, ChartStartup
    <3> QED BY <3>1, <3>2
  <2>2. CASE s = "ledger"
    <3>1. Cleanup(s)[j] \in {"grpc", "journal", "audit", "logger"}
      BY <2>2 DEF Cleanup, LedgerCleanup
    <3>2. /\ Startup(s)[10] = "grpc" /\ Startup(s)[9] = "journal"
          /\ Startup(s)[4] = "audit" /\ Startup(s)[1] = "logger"
      BY <2>2 DEF Startup, LedgerStartup
    <3> QED BY <3>1, <3>2
  <2> QED BY <2>1, <2>2 DEF Services
<1> QED BY <1>1, Steps DEF StepNo

LEMMA MinOfFive ==
  ASSUME NEW S \in SUBSET (1..5), S # {}
  PROVE  Min(S) \in S /\ \A j \in S : Min(S) <= j
<1>1. \E i \in S : \A j \in S : i <= j
  <2>1. CASE 1 \in S
    BY <2>1
  <2>2. CASE 1 \notin S /\ 2 \in S
    BY <2>2
  <2>3. CASE 1 \notin S /\ 2 \notin S /\ 3 \in S
    BY <2>3
  <2>4. CASE 1 \notin S /\ 2 \notin S /\ 3 \notin S /\ 4 \in S
    BY <2>4
  <2>5. CASE 1 \notin S /\ 2 \notin S /\ 3 \notin S /\ 4 \notin S
    <3>1. \A j \in S : j = 5
      BY <2>5
    <3>2. PICK i \in S : TRUE
      OBVIOUS
    <3>3. i \in S /\ \A j \in S : i <= j
      BY <3>1, <3>2
    <3> QED BY <3>3
  <2> QED BY <2>1, <2>2, <2>3, <2>4, <2>5
<1> QED BY <1>1 DEF Min

\* The next dependency that stop() awaits is there
LEMMA NextToRest ==
  ASSUME NEW s \in Services, NEW i \in 0..5, Rest(s, i) # {}
  PROVE  /\ Min(Rest(s, i)) \in 1..5 /\ Min(Rest(s, i)) > i
         /\ Made(s, Cleanup(s)[Min(Rest(s, i))])
         /\ \A j \in Rest(s, i) : Min(Rest(s, i)) <= j
<1>1. Rest(s, i) \subseteq 1..5
  BY CleanupShape DEF Rest
<1>2. Min(Rest(s, i)) \in Rest(s, i) /\ \A j \in Rest(s, i) : Min(Rest(s, i)) <= j
  BY <1>1, MinOfFive
<1> QED BY <1>1, <1>2 DEF Rest

-----------------------------------------------------------------------------
(* Steps of one service *)

\* What concerns service s stays as it was
Undisturbed(s) ==
  /\ run'[s] = run[s] /\ at'[s] = at[s] /\ stopping'[s] = stopping[s] /\ hung'[s] = hung[s]
  /\ signalled'[s] = signalled[s] /\ open'[s] = open[s] /\ running'[s] = running[s]
  /\ closed'[s] = closed[s] /\ index'[s] = index[s] /\ cut'[s] = cut[s]

Others(s) == \A t \in Services \ {s} : Undisturbed(t)

LEMMA OneService ==
  ASSUME LifeInv, NEW s \in Services, LifeTypes', Others(s), ServiceOK(s)'
  PROVE  LifeInv'
<1>1. ASSUME NEW t \in Services \ {s} PROVE ServiceOK(t)'
  <2>1. Undisturbed(t) /\ ServiceOK(t)
    BY DEF Others, LifeInv
  <2>2. \A i : Made(t, i)' = Made(t, i)
    BY <2>1 DEF Undisturbed, Made
  <2>3. StopOK(t)'
    BY <2>1, <2>2 DEF Undisturbed, ServiceOK, StopOK
  <2>4. ServerOK(t)' /\ IndexOK(t)'
    BY <2>1 DEF Undisturbed, ServiceOK, ServerOK, IndexOK
  <2> QED BY <2>3, <2>4 DEF ServiceOK
<1> QED BY <1>1 DEF LifeInv

\* A collection that an end or a rejection leaves without its index is cut
LEMMA LeavesStore ==
  ASSUME LifeInv, NEW s \in Services, LeaveStore(s)
  PROVE  /\ index' \in [Services -> {"none", "bare", "unique"}] /\ cut' \in [Services -> BOOLEAN]
         /\ \A t \in Services \ {s} : index'[t] = index[t] /\ cut'[t] = cut[t]
         /\ index'[s] = "bare" => cut'[s]
         /\ index'[s] = "none" => index[s] = "none"
<1>1. /\ index \in [Services -> {"none", "bare", "unique"}] /\ cut \in [Services -> BOOLEAN]
      /\ at[s] \in 1..11 /\ IndexOK(s)
  BY DEF LifeInv, LifeTypes, ServiceOK
<1>2. index' = index \/ \E v \in {"bare", "unique"} : index' = [index EXCEPT ![s] = v]
  BY DEF LeaveStore, Reset
<1>3. /\ index' \in [Services -> {"none", "bare", "unique"}]
      /\ \A t \in Services \ {s} : index'[t] = index[t]
      /\ index'[s] = "none" => index[s] = "none"
  BY <1>1, <1>2
<1> DEFINE b == index'[s] = "bare" /\ run[s] = "starting" /\ Step(s) \in {"collection", "index"}
<1>4. cut' = [cut EXCEPT ![s] = cut[s] \/ b]
  BY DEF LeaveStore, Reset
<1>5. b \in BOOLEAN
  OBVIOUS
<1>6. index'[s] = "bare" => cut[s] \/ b
  <2>1. CASE index[s] = "bare"
    <3>1. ~cut[s] => run[s] = "starting" /\ Step(s) = "index"
      BY <1>1, <2>1, Steps DEF IndexOK, Step
    <3> QED BY <3>1
  <2>2. CASE index[s] # "bare"
    BY <1>1, <2>2 DEF LeaveStore, Reset
  <2> QED BY <2>1, <2>2
<1> HIDE DEF b
<1>7. cut' \in [Services -> BOOLEAN] /\ (cut'[s] <=> cut[s] \/ b)
      /\ \A t \in Services \ {s} : cut'[t] = cut[t]
  BY <1>1, <1>4, <1>5
<1> QED BY <1>3, <1>6, <1>7

\* Whenever a process ends
LEMMA ExitKeeps ==
  ASSUME LifeInv, NEW s \in Services, Exit(s), LeaveStore(s), troubles' \in 0..MaxTroubles
  PROVE  LifeInv'
<1>1. LifeTypes' /\ Others(s)
  <2>1. /\ run' \in [Services -> Runs] /\ at' \in [Services -> 1..11]
        /\ \A t \in Services \ {s} : run'[t] = run[t] /\ at'[t] = at[t]
    BY DEF LifeInv, LifeTypes, Exit, Reset, Runs
  <2>2. /\ stopping' \in [Services -> [Stoppers -> 0..5]]
        /\ \A t \in Services \ {s} : stopping'[t] = stopping[t]
    <3> DEFINE none == [w \in Stoppers |-> 0]
    <3>1. none \in [Stoppers -> 0..5]
      OBVIOUS
    <3>2. stopping' = [stopping EXCEPT ![s] = none] /\ stopping \in [Services -> [Stoppers -> 0..5]]
      BY DEF LifeInv, LifeTypes, Exit, Reset
    <3> HIDE DEF none
    <3> QED BY <3>1, <3>2
  <2>3. /\ hung' \in [Services -> SUBSET (Stoppers \cup {"start"})]
        /\ signalled' \in [Services -> {"no", "early", "late"}]
        /\ \A t \in Services \ {s} : hung'[t] = hung[t] /\ signalled'[t] = signalled[t]
    BY DEF LifeInv, LifeTypes, Exit, Reset
  <2>4. /\ open' \in [Services -> BOOLEAN] /\ running' \in [Services -> 0..MaxCalls]
        /\ closed' \in [Services -> SUBSET Item]
        /\ \A t \in Services \ {s} :
             open'[t] = open[t] /\ running'[t] = running[t] /\ closed'[t] = closed[t]
    BY BoundsAssumption DEF LifeInv, LifeTypes, Exit, Reset
  <2> QED BY <2>1, <2>2, <2>3, <2>4, LeavesStore DEF LifeTypes, Others, Undisturbed
<1>2. /\ run'[s] = "down" /\ at'[s] = 1 /\ signalled'[s] = "no" /\ ~open'[s]
      /\ running'[s] = 0 /\ closed'[s] = {} /\ \A w \in Stoppers : stopping'[s][w] = 0
  BY DEF LifeInv, LifeTypes, Exit, Reset, Stoppers
<1>3. StopOK(s)' /\ ServerOK(s)'
  BY <1>2 DEF StopOK, ServerOK, Stoppers
<1>4. IndexOK(s)'
  <2>1. index'[s] = "bare" => cut'[s]
    BY LeavesStore
  <2>2. ~(1 > StepNo(s, "index"))
    BY Steps
  <2> QED BY <1>2, <2>1, <2>2 DEF IndexOK
<1> QED BY <1>1, <1>3, <1>4, OneService DEF ServiceOK

\* As many troubles as were left
LEMMA TroublesLeft ==
  ASSUME LifeInv, Trouble \/ UNCHANGED troubles
  PROVE  troubles' \in 0..MaxTroubles
  BY BoundsAssumption DEF LifeInv, LifeTypes, Trouble

\* What was made stays made as start() goes on
LEMMA StaysMade ==
  ASSUME NEW s \in Services, NEW j \in 1..5, at[s] \in Nat, at'[s] \in Nat, at[s] <= at'[s],
         Made(s, Cleanup(s)[j])
  PROVE  Made(s, Cleanup(s)[j])'
<1> DEFINE i == Cleanup(s)[j]
<1>1. StepNo(s, "collection") \in Nat
  BY Steps
<1>2. i # "repo" => StepNo(s, i) \in Nat
  BY ItemSteps
<1> HIDE DEF i
<1>3. Made(s, i)'
  <2>1. CASE i = "repo"
    BY <1>1, <2>1 DEF Made, i
  <2>2. CASE i \in {"logger", "audit"}
    BY <1>2, <2>2 DEF Made, i
  <2>3. CASE i # "repo" /\ i \notin {"logger", "audit"}
    BY <1>2, <2>3 DEF Made, i
  <2> QED BY <2>1, <2>2, <2>3
<1> QED BY <1>3 DEF i

-----------------------------------------------------------------------------
(* stop() *)

LEMMA CleanGoesOn ==
  ASSUME LifeInv, NEW s \in Services, NEW w \in Stoppers, NEW i \in 0..5,
         Rest(s, i) # {}, Clean(s, w, i)
  PROVE  \E n \in 1..5 :
           /\ n > i /\ Made(s, Cleanup(s)[n])
           /\ stopping' \in [Services -> [Stoppers -> 0..5]] /\ open' \in [Services -> BOOLEAN]
           /\ stopping'[s][w] = n /\ \A v \in Stoppers \ {w} : stopping'[s][v] = stopping[s][v]
           /\ \A t \in Services \ {s} : stopping'[t] = stopping[t] /\ open'[t] = open[t]
           /\ open'[s] => open[s] /\ n # 1
           /\ i = 0 /\ Made(s, "grpc") => n = 1
           /\ UNCHANGED <<run, at, hung, running, index, cut>>
<1> DEFINE n == Min(Rest(s, i))
<1>1. /\ n \in 1..5 /\ n > i /\ Made(s, Cleanup(s)[n])
      /\ \A j \in Rest(s, i) : n <= j
  BY NextToRest
<1>2. /\ stopping' = [stopping EXCEPT ![s][w] = n]
      /\ open' = IF Cleanup(s)[n] = "grpc" THEN Reset(open, s, FALSE) ELSE open
      /\ UNCHANGED <<run, at, hung, running, index, cut>>
  BY DEF Clean
<1>3. i = 0 /\ Made(s, "grpc") => n = 1
  <2>1. i = 0 /\ Made(s, "grpc") => 1 \in Rest(s, i)
    BY CleanupShape DEF Rest
  <2> QED BY <1>1, <2>1
<1> HIDE DEF n
<1>4. stopping \in [Services -> [Stoppers -> 0..5]] /\ open \in [Services -> BOOLEAN]
  BY DEF LifeInv, LifeTypes
<1>5. /\ open' \in [Services -> BOOLEAN] /\ (open'[s] => open[s] /\ n # 1)
      /\ \A t \in Services \ {s} : open'[t] = open[t]
  BY <1>1, <1>2, <1>4, CleanupShape DEF Reset
<1>6. /\ stopping' \in [Services -> [Stoppers -> 0..5]]
      /\ stopping'[s][w] = n /\ \A v \in Stoppers \ {w} : stopping'[s][v] = stopping[s][v]
      /\ \A t \in Services \ {s} : stopping'[t] = stopping[t]
  BY <1>1, <1>2, <1>4
<1> QED BY <1>1, <1>2, <1>3, <1>5, <1>6

\* What stop() has to take down is as it was
LEMMA StillMade ==
  ASSUME LifeInv, NEW s \in Services, at'[s] \in 1..11, at[s] <= at'[s], stopping'[s] = stopping[s]
  PROVE  \A w \in Stoppers : stopping'[s][w] > 0 => Made(s, Cleanup(s)[stopping[s][w]])'
<1> SUFFICES ASSUME NEW w \in Stoppers, stopping'[s][w] > 0
             PROVE  Made(s, Cleanup(s)[stopping[s][w]])'
  OBVIOUS
<1> DEFINE j == stopping[s][w]
<1>1. j \in 1..5 /\ at[s] \in Nat /\ at'[s] \in Nat
  <2>1. j \in 0..5 /\ at[s] \in 1..11
    BY DEF LifeInv, LifeTypes
  <2> QED BY <2>1
<1>2. Made(s, Cleanup(s)[j])
  BY <1>1 DEF LifeInv, ServiceOK, StopOK
<1>3. \A k \in 1..5 : Made(s, Cleanup(s)[k]) => Made(s, Cleanup(s)[k])'
  BY <1>1, StaysMade
<1> QED BY <1>1, <1>2, <1>3

LEMMA SignalKeeps == ASSUME LifeInv, NEW s \in Services, Signal(s) PROVE LifeInv'
<1>1. CASE Rest(s, 0) = {}
  BY <1>1, ExitKeeps, TroublesLeft DEF Signal, Clean
<1>2. CASE Rest(s, 0) # {}
  <2>1. PICK n \in 1..5 :
           /\ Made(s, Cleanup(s)[n])
           /\ stopping' \in [Services -> [Stoppers -> 0..5]] /\ open' \in [Services -> BOOLEAN]
           /\ stopping'[s]["signal"] = n /\ stopping'[s]["catch"] = stopping[s]["catch"]
           /\ \A t \in Services \ {s} : stopping'[t] = stopping[t] /\ open'[t] = open[t]
           /\ open'[s] => open[s] /\ n # 1
           /\ Made(s, "grpc") => n = 1
           /\ UNCHANGED <<run, at, hung, running, index, cut>>
    BY <1>2, CleanGoesOn DEF Signal, Stoppers
  <2>2. /\ signalled' = [signalled EXCEPT ![s] = IF run[s] = "serving" THEN "late" ELSE "early"]
        /\ UNCHANGED closed /\ run[s] # "down" /\ signalled[s] = "no"
    BY <2>1 DEF Signal, Reset
  <2>3. LifeTypes' /\ Others(s)
    BY <2>1, <2>2, TroublesLeft DEF Signal, LifeInv, LifeTypes, Others, Undisturbed
  <2>4. /\ signalled'[s] = (IF run[s] = "serving" THEN "late" ELSE "early")
        /\ StopOK(s) /\ ServerOK(s) /\ IndexOK(s)
    BY <2>2 DEF LifeInv, LifeTypes, ServiceOK
  <2>5. \A i : Made(s, i)' = Made(s, i)
    BY <2>1 DEF Made
  <2>6. StopOK(s)'
    <3>1. \A w \in Stoppers : stopping'[s][w] > 0 => Made(s, Cleanup(s)[stopping'[s][w]])
      BY <2>1, <2>4 DEF StopOK, Stoppers
    <3> QED BY <2>1, <2>2, <2>4, <2>5, <3>1 DEF StopOK
  <2>7. ServerOK(s)'
    <3>1. run[s] = "serving" => n = 1 /\ closed[s] = {}
      BY <2>1, <2>2, <2>4, Steps DEF ServerOK, StopOK, Made
    <3> QED BY <2>1, <2>2, <2>4, <3>1 DEF ServerOK
  <2>8. IndexOK(s)'
    BY <2>1, <2>4 DEF IndexOK
  <2> QED BY <2>3, <2>6, <2>7, <2>8, OneService DEF ServiceOK
<1> QED BY <1>1, <1>2

LEMMA CleanStepKeeps ==
  ASSUME LifeInv, NEW s \in Services, NEW w \in Stoppers, CleanStep(s, w) PROVE LifeInv'
<1> DEFINE i == stopping[s][w]
<1>1. i \in 1..5 /\ Clean(s, w, i) /\ (i = 1 => running[s] = 0)
  BY CleanupShape DEF CleanStep, LifeInv, LifeTypes
<1>2. CASE Rest(s, i) = {}
  BY <1>1, <1>2, ExitKeeps, TroublesLeft DEF CleanStep, Clean
<1>3. CASE Rest(s, i) # {}
  <2>1. PICK n \in 1..5 :
           /\ n > i /\ Made(s, Cleanup(s)[n])
           /\ stopping' \in [Services -> [Stoppers -> 0..5]] /\ open' \in [Services -> BOOLEAN]
           /\ stopping'[s][w] = n /\ \A v \in Stoppers \ {w} : stopping'[s][v] = stopping[s][v]
           /\ \A t \in Services \ {s} : stopping'[t] = stopping[t] /\ open'[t] = open[t]
           /\ open'[s] => open[s] /\ n # 1
           /\ UNCHANGED <<run, at, hung, running, index, cut>>
    BY <1>1, <1>3, CleanGoesOn
  <2>2. run[s] # "down"
    <3>1. w = "signal" \/ w = "catch"
      BY DEF Stoppers
    <3>2. stopping[s]["catch"] > 0 => run[s] = "failing"
      BY DEF LifeInv, ServiceOK, StopOK
    <3>3. stopping[s]["signal"] > 0 => run[s] # "down"
      BY DEF LifeInv, ServiceOK, StopOK
    <3> QED BY <1>1, <3>1, <3>2, <3>3
  <2>3. closed' = [closed EXCEPT ![s] = closed[s] \cup {Cleanup(s)[i]}] /\ UNCHANGED signalled
    BY <2>1, <2>2 DEF CleanStep, Reset
  <2>4. Cleanup(s)[i] \in CleanupItems(s) /\ Cleanup(s)[i] \in Item
    BY <1>1, CleanupShape
  <2>5. LifeTypes' /\ Others(s)
    <3>1. closed' \in [Services -> SUBSET Item] /\ \A t \in Services \ {s} : closed'[t] = closed[t]
      BY <2>3, <2>4 DEF LifeInv, LifeTypes
    <3> QED BY <2>1, <2>3, <3>1, TroublesLeft DEF CleanStep, LifeInv, LifeTypes, Others, Undisturbed
  <2>6. /\ closed'[s] = closed[s] \cup {Cleanup(s)[i]}
        /\ StopOK(s) /\ ServerOK(s) /\ IndexOK(s)
    BY <2>3 DEF LifeInv, LifeTypes, ServiceOK
  <2>7. \A j : Made(s, j)' = Made(s, j)
    BY <2>1 DEF Made
  <2>8. StopOK(s)'
    <3>1. \A v \in Stoppers : stopping'[s][v] > 0 <=> stopping[s][v] > 0
      BY <1>1, <2>1
    <3>2. \A v \in Stoppers : stopping'[s][v] > 0 => Made(s, Cleanup(s)[stopping'[s][v]])
      BY <2>1, <2>6 DEF StopOK
    <3>3. closed'[s] \subseteq CleanupItems(s)
      BY <2>4, <2>6 DEF StopOK
    <3>4. signalled[s] # "no" \/ run[s] = "failing"
      BY <1>1, <2>6 DEF StopOK, Stoppers
    <3> QED BY <2>1, <2>3, <2>6, <2>7, <3>1, <3>2, <3>3, <3>4 DEF StopOK, Stoppers
  <2>9. ServerOK(s)'
    <3>1. signalled[s] = "late" => running[s] = 0
      <4>1. signalled[s] = "late" => w = "signal"
        BY <1>1, <2>6 DEF StopOK, ServerOK, Stoppers
      <4> QED BY <1>1, <2>6, <4>1 DEF ServerOK
    <3> QED BY <2>1, <2>3, <2>6, <3>1 DEF ServerOK
  <2>10. IndexOK(s)'
    BY <2>1, <2>6 DEF IndexOK
  <2> QED BY <2>5, <2>8, <2>9, <2>10, OneService DEF ServiceOK
<1> QED BY <1>2, <1>3

LEMMA CleanFailsKeeps ==
  ASSUME LifeInv, NEW s \in Services, NEW w \in Stoppers, CleanFails(s, w) PROVE LifeInv'
  BY ExitKeeps, TroublesLeft DEF CleanFails

-----------------------------------------------------------------------------
(* start() *)

LEMMA RestartKeeps == ASSUME LifeInv, NEW s \in Services, Restart(s) PROVE LifeInv'
<1>1. run' = [run EXCEPT ![s] = "starting"] /\ run[s] = "down"
      /\ UNCHANGED <<at, stopping, hung, signalled, open, running, closed, index, cut, troubles>>
  BY DEF Restart, Reset
<1>2. LifeTypes' /\ Others(s) /\ run'[s] = "starting"
  BY <1>1 DEF LifeInv, LifeTypes, Others, Undisturbed, Runs
<1>3. StopOK(s) /\ ServerOK(s) /\ IndexOK(s) /\ \A i : Made(s, i)' = Made(s, i)
  BY <1>1 DEF LifeInv, ServiceOK, Made
<1>4. StopOK(s)'
  BY <1>1, <1>2, <1>3 DEF StopOK
<1>5. ServerOK(s)' /\ IndexOK(s)'
  BY <1>1, <1>2, <1>3 DEF ServerOK, StopOK, IndexOK
<1> QED BY <1>2, <1>4, <1>5, OneService DEF ServiceOK

\* start() goes on: what it has come to, and what stop() finds, only grows
LEMMA StartGoesOn ==
  ASSUME LifeInv, NEW s \in Services, run[s] = "starting",
         LifeTypes', Others(s), at[s] <= at'[s],
         run'[s] = "starting" \/ (run'[s] = "serving" /\ at'[s] = 11),
         open'[s] => at'[s] = 11, IndexOK(s)',
         UNCHANGED <<stopping, hung, signalled, running, closed, cut, troubles>>
  PROVE  LifeInv'
<1>1. StopOK(s) /\ ServerOK(s) /\ at'[s] \in 1..11
  BY DEF LifeInv, LifeTypes, ServiceOK
<1>2. signalled[s] # "late"
  BY <1>1 DEF ServerOK
<1>3. StopOK(s)'
  BY <1>1, StillMade DEF StopOK
<1>4. ServerOK(s)'
  BY <1>2 DEF ServerOK
<1> QED BY <1>3, <1>4, OneService DEF ServiceOK

LEMMA StartStepKeeps == ASSUME LifeInv, NEW s \in Services, StartStep(s) PROVE LifeInv'
<1>1. /\ run[s] = "starting"
      /\ UNCHANGED <<stopping, hung, signalled, running, closed, cut, troubles>>
      /\ LifeTypes /\ ServerOK(s) /\ IndexOK(s) /\ at[s] \in 1..11
  BY DEF StartStep, LifeInv, LifeTypes, ServiceOK
<1>2. /\ Step(s) = "collection" <=> at[s] = StepNo(s, "collection")
      /\ Step(s) = "index" <=> at[s] = StepNo(s, "index")
      /\ Step(s) = "grpc" <=> at[s] = 10
      /\ Step(s) = "express" <=> at[s] = 11
      /\ StepNo(s, "collection") \in {3, 6} /\ StepNo(s, "index") = StepNo(s, "collection") + 1
  BY <1>1, Steps DEF Step
<1>3. StepNo(s, "index")' = StepNo(s, "index")
  BY DEF StepNo, Startup
<1>4. CASE Step(s) = "collection" /\ index[s] = "none"
  <2>1. /\ index' = [index EXCEPT ![s] = "bare"] /\ at' = [at EXCEPT ![s] = at[s] + 1]
        /\ UNCHANGED <<run, open>>
    BY <1>4 DEF StartStep, MakeCollection, Reset
  <2>2. LifeTypes' /\ Others(s) /\ at'[s] = at[s] + 1 /\ index'[s] = "bare"
    BY <1>1, <1>2, <1>4, <2>1 DEF LifeTypes, Others, Undisturbed
  <2>3. IndexOK(s)'
    BY <1>1, <1>2, <1>4, <2>1, <2>2 DEF IndexOK
  <2>4. at[s] <= at'[s] /\ run'[s] = "starting" /\ ~open'[s]
    BY <1>1, <1>2, <1>4, <2>1, <2>2 DEF ServerOK
  <2> QED BY <1>1, <2>2, <2>3, <2>4, StartGoesOn
<1>5. CASE Step(s) = "collection" /\ index[s] # "none"
  <2>1. at' = [at EXCEPT ![s] = at[s] + 2] /\ UNCHANGED <<run, open, index>>
    BY <1>5 DEF StartStep, MakeCollection, Reset
  <2>2. LifeTypes' /\ Others(s) /\ at'[s] = at[s] + 2
    BY <1>1, <1>2, <1>5, <2>1 DEF LifeTypes, Others, Undisturbed
  <2>3. IndexOK(s)'
    BY <1>1, <1>2, <1>5, <2>1, <2>2 DEF IndexOK
  <2>4. at[s] <= at'[s] /\ run'[s] = "starting" /\ ~open'[s]
    BY <1>1, <1>2, <1>5, <2>1, <2>2 DEF ServerOK
  <2> QED BY <1>1, <2>2, <2>3, <2>4, StartGoesOn
<1>6. CASE Step(s) = "index"
  <2>1. /\ index' = [index EXCEPT ![s] = "unique"] /\ at' = [at EXCEPT ![s] = at[s] + 1]
        /\ UNCHANGED <<run, open>>
    BY <1>6 DEF StartStep, Reset
  <2>2. LifeTypes' /\ Others(s) /\ at'[s] = at[s] + 1 /\ index'[s] = "unique"
    BY <1>1, <1>2, <1>6, <2>1 DEF LifeTypes, Others, Undisturbed
  <2>3. IndexOK(s)'
    BY <2>2 DEF IndexOK
  <2>4. at[s] <= at'[s] /\ run'[s] = "starting" /\ ~open'[s]
    BY <1>1, <1>2, <1>6, <2>1, <2>2 DEF ServerOK
  <2> QED BY <1>1, <2>2, <2>3, <2>4, StartGoesOn
<1>7. CASE Step(s) = "grpc"
  <2>1. /\ at' = [at EXCEPT ![s] = at[s] + 1] /\ UNCHANGED <<run, index>>
        /\ \E up \in BOOLEAN : open' = [open EXCEPT ![s] = up]
    BY <1>7 DEF StartStep, Reset
  <2>2. LifeTypes' /\ Others(s) /\ at'[s] = 11
    BY <1>1, <1>2, <1>7, <2>1 DEF LifeTypes, Others, Undisturbed
  <2>3. IndexOK(s)'
    BY <1>1, <1>2, <1>7, <2>1, <2>2 DEF IndexOK
  <2> QED BY <1>1, <1>2, <1>7, <2>1, <2>2, <2>3, StartGoesOn
<1>8. CASE Step(s) = "express"
  <2>1. run' = [run EXCEPT ![s] = "serving"] /\ UNCHANGED <<at, open, index>>
    BY <1>8 DEF StartStep, Reset
  <2>2. LifeTypes' /\ Others(s) /\ run'[s] = "serving"
    BY <1>1, <2>1 DEF LifeTypes, Others, Undisturbed, Runs
  <2>3. IndexOK(s)'
    BY <1>1, <1>2, <1>8, <2>1, <2>2 DEF IndexOK
  <2> QED BY <1>1, <1>2, <1>8, <2>1, <2>2, <2>3, StartGoesOn
<1>9. CASE Step(s) \notin {"collection", "index", "grpc", "express"}
  <2>1. at' = [at EXCEPT ![s] = at[s] + 1] /\ UNCHANGED <<run, open, index>>
    BY <1>9 DEF StartStep, Reset
  <2>2. LifeTypes' /\ Others(s) /\ at'[s] = at[s] + 1
    BY <1>1, <1>2, <1>9, <2>1 DEF LifeTypes, Others, Undisturbed
  <2>3. IndexOK(s)'
    <3>1. at'[s] > StepNo(s, "index") => at[s] > StepNo(s, "index")
      BY <1>1, <1>2, <1>9, <2>2
    <3> QED BY <1>1, <1>2, <1>9, <2>1, <3>1 DEF IndexOK
  <2>4. at[s] <= at'[s] /\ run'[s] = "starting" /\ ~open'[s]
    BY <1>1, <1>2, <1>9, <2>1, <2>2 DEF ServerOK
  <2> QED BY <1>1, <2>2, <2>3, <2>4, StartGoesOn
<1> QED BY <1>4, <1>5, <1>6, <1>7, <1>8, <1>9

LEMMA FailKeeps ==
  ASSUME LifeInv, NEW s \in Services, run[s] = "starting", Fail(s), Trouble \/ UNCHANGED troubles
  PROVE  LifeInv'
<1>1. CASE ~(Step(s) \in Caught(s) /\ Rest(s, 0) # {})
  BY <1>1, ExitKeeps, TroublesLeft DEF Fail
<1>2. CASE Step(s) \in Caught(s) /\ Rest(s, 0) # {}
  <2> DEFINE n == Min(Rest(s, 0))
  <2>1. n \in 1..5 /\ Made(s, Cleanup(s)[n])
    BY <1>2, NextToRest
  <2>2. /\ run' = [run EXCEPT ![s] = "failing"] /\ stopping' = [stopping EXCEPT ![s]["catch"] = n]
        /\ UNCHANGED <<at, hung, signalled, open, running, closed>> /\ LeaveStore(s)
    BY <1>2 DEF Fail, Reset
  <2> HIDE DEF n
  <2>3. /\ LifeTypes /\ StopOK(s) /\ ServerOK(s) /\ IndexOK(s)
    BY DEF LifeInv, ServiceOK
  <2>4. /\ stopping' \in [Services -> [Stoppers -> 0..5]]
        /\ \A t \in Services \ {s} : stopping'[t] = stopping[t]
        /\ stopping'[s]["catch"] = n /\ stopping'[s]["signal"] = stopping[s]["signal"]
    BY <2>1, <2>2, <2>3 DEF LifeTypes, Stoppers
  <2>5. LifeTypes' /\ Others(s) /\ run'[s] = "failing"
    BY <2>2, <2>3, <2>4, LeavesStore, TroublesLeft DEF LifeTypes, Others, Undisturbed, Runs
  <2>6. \A i : Made(s, i)' = Made(s, i)
    BY <2>2 DEF Made
  <2>7. StopOK(s)'
    <3>1. \A w \in Stoppers : stopping'[s][w] > 0 => Made(s, Cleanup(s)[stopping'[s][w]])
      BY <2>1, <2>3, <2>4 DEF StopOK, Stoppers
    <3> QED BY <2>1, <2>2, <2>3, <2>4, <2>5, <2>6, <3>1 DEF StopOK
  <2>8. ServerOK(s)'
    BY <2>2, <2>3, <2>5 DEF ServerOK
  <2>9. IndexOK(s)'
    BY <2>2, <2>3, LeavesStore DEF IndexOK
  <2> QED BY <2>5, <2>7, <2>8, <2>9, OneService DEF ServiceOK
<1> QED BY <1>1, <1>2

-----------------------------------------------------------------------------
(* Hangs, calls, and the invariant *)

\* A step that leaves alone all that ServiceOK looks at but the running calls
LEMMA QuietStep ==
  ASSUME LifeInv, NEW s \in Services, LifeTypes', Others(s),
         UNCHANGED <<run, at, stopping, signalled, open, closed, index, cut>>,
         running'[s] > 0 => open[s] \/ running[s] > 0
  PROVE  LifeInv'
<1>1. StopOK(s) /\ ServerOK(s) /\ IndexOK(s) /\ running'[s] \in Nat /\ running[s] \in Nat
  BY BoundsAssumption DEF LifeInv, LifeTypes, ServiceOK
<1>2. \A i : Made(s, i)' = Made(s, i)
  BY DEF Made
<1>3. StopOK(s)'
  BY <1>1, <1>2 DEF StopOK
<1>4. ServerOK(s)'
  BY <1>1 DEF ServerOK
<1>5. IndexOK(s)'
  BY <1>1 DEF IndexOK
<1> QED BY <1>3, <1>4, <1>5, OneService DEF ServiceOK

LEMMA HangKeeps == ASSUME LifeInv, NEW s \in Services, Hang(s) PROVE LifeInv'
<1>1. PICK x \in Stoppers \cup {"start"} : hung' = [hung EXCEPT ![s] = @ \cup {x}]
  BY DEF Hang
<1>2. UNCHANGED <<run, at, stopping, signalled, open, running, closed, index, cut>>
      /\ troubles' \in 0..MaxTroubles
  BY TroublesLeft DEF Hang
<1>3. LifeTypes' /\ Others(s)
  BY <1>1, <1>2 DEF LifeInv, LifeTypes, Others, Undisturbed
<1>4. running'[s] > 0 => running[s] > 0
  BY <1>2
<1> QED BY <1>2, <1>3, <1>4, QuietStep

LEMMA CallBeginsKeeps == ASSUME LifeInv, NEW s \in Services, CallBegins(s) PROVE LifeInv'
<1>1. /\ open[s] /\ running[s] < MaxCalls /\ running' = [running EXCEPT ![s] = running[s] + 1]
      /\ UNCHANGED <<run, at, stopping, hung, signalled, open, closed, index, cut, troubles>>
  BY DEF CallBegins, Reset
<1>2. running[s] + 1 \in 0..MaxCalls
  BY <1>1, BoundsAssumption DEF LifeInv, LifeTypes
<1>3. LifeTypes' /\ Others(s)
  BY <1>1, <1>2 DEF LifeInv, LifeTypes, Others, Undisturbed
<1> QED BY <1>1, <1>3, QuietStep

LEMMA CallEndsKeeps == ASSUME LifeInv, NEW s \in Services, CallEnds(s) PROVE LifeInv'
<1>1. /\ running[s] > 0 /\ running' = [running EXCEPT ![s] = running[s] - 1]
      /\ UNCHANGED <<run, at, stopping, hung, signalled, open, closed, index, cut, troubles>>
  BY DEF CallEnds, Reset
<1>2. running[s] - 1 \in 0..MaxCalls
  BY <1>1, BoundsAssumption DEF LifeInv, LifeTypes
<1>3. LifeTypes' /\ Others(s)
  BY <1>1, <1>2 DEF LifeInv, LifeTypes, Others, Undisturbed
<1> QED BY <1>1, <1>3, QuietStep

LEMMA LifeStarts == LifeInit => LifeInv
<1> SUFFICES ASSUME LifeInit PROVE LifeInv
  OBVIOUS
<1>1. LifeTypes
  BY BoundsAssumption DEF LifeInit, LifeTypes, Runs
<1>2. ASSUME NEW s \in Services PROVE ServiceOK(s)
  BY Steps DEF LifeInit, ServiceOK, StopOK, ServerOK, IndexOK, Stoppers
<1> QED BY <1>1, <1>2 DEF LifeInv

LEMMA LifeStep == LifeInv /\ [LifeNext]_lifeVars => LifeInv'
<1> SUFFICES ASSUME LifeInv, [LifeNext]_lifeVars PROVE LifeInv'
  OBVIOUS
<1>1. ASSUME NEW s \in Services, Restart(s) \/ StartStep(s) \/ StartFails(s) PROVE LifeInv'
  BY <1>1, RestartKeeps, StartStepKeeps, FailKeeps DEF StartFails
<1>2. CASE AdapterDeadline
  BY <1>2, FailKeeps DEF AdapterDeadline, Services
<1>3. ASSUME NEW s \in Services, Hang(s) \/ Signal(s) \/ CallBegins(s) \/ CallEnds(s) PROVE LifeInv'
  BY <1>3, HangKeeps, SignalKeeps, CallBeginsKeeps, CallEndsKeeps
<1>4. ASSUME NEW s \in Services, KillTimer(s) \/ StartTimeout(s) \/ Crash(s) PROVE LifeInv'
  BY <1>4, ExitKeeps, TroublesLeft DEF KillTimer, StartTimeout, Crash
<1>5. ASSUME NEW s \in Services, NEW w \in Stoppers, CleanStep(s, w) \/ CleanFails(s, w) PROVE LifeInv'
  BY <1>5, CleanStepKeeps, CleanFailsKeeps
<1>6. CASE UNCHANGED lifeVars
  <2>1. LifeTypes' /\ Others("coa")
    BY <1>6 DEF lifeVars, LifeInv, LifeTypes, Others, Undisturbed
  <2> QED BY <1>6, <2>1, QuietStep DEF lifeVars, Services
<1> QED BY <1>1, <1>2, <1>3, <1>4, <1>5, <1>6 DEF LifeNext

\* What start(), stop(), the signal and the store have come to fits together,
\* whatever fails, hangs or ends.
THEOREM LifeInvariant == LifeSpec => []LifeInv
  BY LifeStarts, LifeStep, PTL DEF LifeSpec

\* stop() runs only where a signal or a caught rejection started it, and takes
\* down only what start() has made.
THEOREM LifeTypeCorrect == LifeSpec => []LifeTypeOK
<1>1. LifeInv => LifeTypeOK
  <2> SUFFICES ASSUME LifeInv PROVE LifeTypeOK
    OBVIOUS
  <2>1. /\ run \in [Services -> {"down", "starting", "serving", "failing"}]
        /\ stopping \in [Services -> [Stoppers -> 0..5]]
        /\ hung \in [Services -> SUBSET (Stoppers \cup {"start"})]
        /\ signalled \in [Services -> {"no", "early", "late"}]
        /\ open \in [Services -> BOOLEAN] /\ running \in [Services -> 0..MaxCalls]
        /\ index \in [Services -> {"none", "bare", "unique"}] /\ cut \in [Services -> BOOLEAN]
        /\ troubles \in 0..MaxTroubles
    BY DEF LifeInv, LifeTypes, Runs
  <2>2. ASSUME NEW s \in Services
        PROVE  /\ at[s] \in DOMAIN Startup(s)
               /\ closed[s] \subseteq {Cleanup(s)[i] : i \in DOMAIN Cleanup(s)}
               /\ stopping[s]["signal"] > 0 <=> signalled[s] # "no"
               /\ stopping[s]["catch"] > 0 <=> run[s] = "failing"
               /\ \A w \in Stoppers : stopping[s][w] > 0 => Made(s, Cleanup(s)[stopping[s][w]])
    BY Steps DEF LifeInv, LifeTypes, ServiceOK, StopOK, CleanupItems
  <2> QED BY <2>1, <2>2 DEF LifeTypeOK
<1> QED BY <1>1, LifeInvariant, PTL

\* A service that was serving when it was told to stop takes neither repository
\* nor ledger client nor logger from a call that still runs.
THEOREM CallsAlwaysKeepDependencies == LifeSpec => []CallsKeepDependencies
<1>1. LifeInv => CallsKeepDependencies
  BY DEF LifeInv, ServiceOK, ServerOK, CallsKeepDependencies
<1> QED BY <1>1, LifeInvariant, PTL

\* A server that takes calls has the unique index on account ids, unless some
\* process ended between the creation of the collection and that of the index.
THEOREM AlwaysUniqueUnlessCut == LifeSpec => []UniqueUnlessCut
<1>1. LifeInv => UniqueUnlessCut
  <2> SUFFICES ASSUME LifeInv, NEW s \in Services, open[s], index[s] # "unique" PROVE cut[s]
    BY DEF UniqueUnlessCut
  <2>1. at[s] = 11 /\ index[s] \in {"bare", "none"} /\ 11 > StepNo(s, "index")
    BY Steps DEF LifeInv, LifeTypes, ServiceOK, ServerOK
  <2> QED BY <2>1 DEF LifeInv, ServiceOK, IndexOK
<1> QED BY <1>1, LifeInvariant, PTL
=============================================================================
