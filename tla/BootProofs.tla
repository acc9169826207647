----------------------------- MODULE BootProofs -----------------------------
(***************************************************************************)
(* Proofs about init and the image it boots from.                          *)
(*                                                                         *)
(* First the parts of init, each on its own: for every table of tasks and  *)
(* every target a worker runs only after the tasks it depends on have      *)
(* succeeded; networkUp tells the truth for any number of interfaces; what *)
(* the package kmod takes for loaded is so for any modules and             *)
(* dependencies.                                                           *)
(*                                                                         *)
(* Then the machine of module Boot: it uses the task queue as module       *)
(* TaskQueue says, and every step of it keeps what is proved of the        *)
(* network and of the kernel modules.  The image it boots from is complete *)
(* if mkinitrd says so, for any graph of files, and holds every module     *)
(* that the loader comes to.                                               *)
(***************************************************************************)
EXTENDS Boot, TLAPS

-----------------------------------------------------------------------------
(* The parts of init *)

\* A call of start: its task, and which dependency is next.
Frames == [task : Tasks, next : Nat \ {0}]

\* The launching goroutine has waited for every dependency of the task it is
\* about to start, and a closed channel means a worker that has succeeded.
Waited ==
    /\ mode \in {"start", "wait", "making", "go"} => Len(stack) > 0
    /\ mode = "wait" =>
          \A j \in 1..Len(After[Top.task]) : j < waited => chans[After[Top.task][j]] = "closed"
    /\ mode \in {"making", "go"} =>
          \A d \in Depends(Top.task) : chans[d] = "closed"
    /\ mode = "making" => chans[Top.task] = "none"
    /\ mode = "go" => chans[Top.task] # "none"

Finished ==
    /\ \A t \in Tasks : chans[t] = "closed" => worker[t] = "ended" /\ err[t] = "nil"
    /\ \A t \in Tasks : worker[t] = "close" => err[t] = "nil"
    /\ \A t \in Tasks : worker[t] # "none" => chans[t] # "none"
    /\ \A t \in Tasks : worker[t] # "none" => \A d \in Depends(t) : chans[d] = "closed"
    /\ mode = "returned" => chans[target] = "closed"

TaskInv == TaskTypeOK /\ Waited /\ Finished

-----------------------------------------------------------------------------
\* Initially nothing has been started.
LEMMA TaskInitInv == TaskInit => TaskInv
<1> SUFFICES ASSUME TaskInit PROVE TaskInv
  OBVIOUS
<1> USE TasksAssumption
<1>1. TaskTypeOK
  BY DEF TaskInit, TaskTypeOK
<1>2. Waited
  BY DEF TaskInit, Waited
<1>3. Finished
  BY DEF TaskInit, Finished
<1> QED BY <1>1, <1>2, <1>3 DEF TaskInv

\* While there is a call of start, its task is one of the table.
LEMMA TopShape ==
    ASSUME TaskTypeOK, Len(stack) > 0
    PROVE  /\ stack \in Seq(Frames)
           /\ Top \in Frames
           /\ Top.next \in Nat \ {0}
           /\ Top.task \in Tasks
           /\ After[Top.task] \in Seq(Tasks)
           /\ Depends(Top.task) \subseteq Tasks
<1>1. stack \in Seq(Frames)
  BY DEF TaskTypeOK, Frames
<1>2. Top \in Frames
  BY <1>1 DEF Top
<1>3. Top.task \in Tasks /\ Top.next \in Nat \ {0}
  BY <1>2 DEF Frames
<1>4. After[Top.task] \in Seq(Tasks)
  BY <1>3, TasksAssumption
<1>5. Depends(Top.task) \subseteq Tasks
  BY <1>4 DEF Depends
<1> QED BY <1>1, <1>2, <1>3, <1>4, <1>5

\* A sequence without its last element
LEMMA Butlast ==
    ASSUME NEW S, NEW s \in Seq(S), Len(s) > 0
    PROVE  /\ SubSeq(s, 1, Len(s) - 1) \in Seq(S)
           /\ Len(SubSeq(s, 1, Len(s) - 1)) = Len(s) - 1
<1> DEFINE n == Len(s) - 1
<1>1. n \in Nat /\ n <= Len(s)
  OBVIOUS
<1> HIDE DEF n
<1>2. SubSeq(s, 1, n) \in Seq(S) /\ Len(SubSeq(s, 1, n)) = n
  BY <1>1
<1> QED BY <1>1, <1>2 DEF n

\* The goroutine of RunUntil keeps the invariant.
LEMMA LaunchInv == TaskInv /\ Launch => TaskInv'
<1> SUFFICES ASSUME TaskInv, Launch PROVE TaskInv'
  OBVIOUS
<1> USE DEF TaskInv
<1>1. CASE StartDep
  <2>1. Len(stack) > 0 /\ mode' = "start"
    BY <1>1 DEF StartDep, Waited, TaskTypeOK
  <2>2. PICK here \in Seq(Frames) :
           /\ Len(here) = Len(stack)
           /\ \/ stack' = here
              \/ stack' = Append(here, [task |-> After[Top.task][Top.next], next |-> 1])
    <3>1. Top \in Frames
      BY <2>1, TopShape
    <3>2. [stack EXCEPT ![Len(stack)] = [task |-> Top.task, next |-> Top.next + 1]]
             \in Seq(Frames)
      BY <2>1, <3>1, TopShape DEF Frames
    <3>3. Len([stack EXCEPT ![Len(stack)] = [task |-> Top.task, next |-> Top.next + 1]])
             = Len(stack)
      BY <2>1, <3>1, TopShape
    <3> QED BY <1>1, <3>2, <3>3, Zenon DEF StartDep
  <2>3. After[Top.task][Top.next] \in Tasks
    BY <1>1, <2>1, TopShape DEF StartDep
  <2>4. [task |-> After[Top.task][Top.next], next |-> 1] \in Frames
    BY <2>3 DEF Frames
  <2>5. stack' \in Seq(Frames) /\ Len(stack') > 0
    BY <2>1, <2>2, <2>4
  <2>6. TaskTypeOK'
    <3>1. UNCHANGED <<workerVars, process, target, started, waited>>
      BY <1>1 DEF StartDep
    <3> QED BY <2>1, <2>5, <3>1 DEF Frames, TaskTypeOK, workerVars
  <2>7. Waited'
    BY <2>1, <2>5 DEF Waited
  <2>8. Finished'
    BY <1>1, <2>1, Zenon DEF StartDep, Finished, workerVars
  <2> QED BY <2>6, <2>7, <2>8
<1>2. CASE StartGo
  BY <1>2, TopShape DEF StartGo, TaskTypeOK, Waited, Finished, workerVars, Top
<1>3. CASE GoWait
  <2>1. TaskTypeOK' /\ Finished'
    BY <1>3 DEF GoWait, TaskTypeOK, Finished, workerVars
  <2>2. Waited'
    BY <1>3, TopShape DEF GoWait, TaskTypeOK, Waited, workerVars, Top
  <2> QED BY <2>1, <2>2
<1>4. CASE GoLookup
  <2>1. TaskTypeOK' /\ Finished'
    BY <1>4 DEF GoLookup, TaskTypeOK, Finished, workerVars
  <2>2. \A d \in Depends(Top.task) : chans[d] = "closed"
    BY <1>4, TopShape DEF GoLookup, TaskTypeOK, Waited, Depends
  <2>3. Waited'
    BY <1>4, <2>2 DEF GoLookup, Waited, workerVars, Top
  <2> QED BY <2>1, <2>3
<1>5. CASE GoMake
  <2>1. Top.task \in Tasks /\ Depends(Top.task) \subseteq Tasks /\ Top' = Top /\ Len(stack) > 0
    BY <1>5, TopShape DEF GoMake, Waited, Top
  <2>2. chans[Top.task] = "none" /\ chans' = [chans EXCEPT ![Top.task] = "open"]
    BY <1>5 DEF GoMake, Waited
  <2>3. \A t \in Tasks : chans[t] = "closed" <=> chans'[t] = "closed"
    BY <2>1, <2>2 DEF TaskTypeOK
  <2>4. TaskTypeOK'
    BY <1>5, <2>1, <2>2, Zenon DEF GoMake, TaskTypeOK
  <2>5. Waited'
    BY <1>5, <2>1, <2>2, <2>3, Zenon DEF GoMake, Waited, TaskTypeOK
  <2>6. Finished'
    <3>1. \A t \in Tasks : Depends(t) \subseteq Tasks
      BY TasksAssumption DEF Depends
    <3> QED BY <1>5, <2>1, <2>2, <2>3, <3>1 DEF GoMake, Finished, TaskTypeOK
  <2> QED BY <2>4, <2>5, <2>6
<1>6. CASE Go
  <2>1. Top.task \in Tasks /\ Len(stack) > 0
    BY <1>6, TopShape DEF Go, Waited
  <2>2. stack' \in Seq(Frames) /\ Len(stack') = Len(stack) - 1
    BY <1>6, <2>1, TopShape, Butlast DEF Go
  <2>3. mode' \in {"start", "final"} /\ (mode' = "start" => Len(stack') > 0)
    BY <1>6, <2>1, <2>2 DEF Go, TaskTypeOK
  <2>4. TaskTypeOK'
    BY <1>6, <2>1, <2>2, <2>3, Zenon DEF Go, TaskTypeOK, Frames
  <2>5. Waited'
    BY <2>3, Zenon DEF Waited
  <2>6. Finished'
    BY <1>6, <2>1, <2>3 DEF Go, Waited, Finished, TaskTypeOK
  <2> QED BY <2>4, <2>5, <2>6, Zenon
<1>7. CASE FinalWait
  BY <1>7 DEF FinalWait, TaskTypeOK, Waited, Finished, workerVars
<1> QED BY <1>1, <1>2, <1>3, <1>4, <1>5, <1>6, <1>7 DEF Launch

\* The goroutines of the workers, and PrintResults, keep it.
LEMMA WorkersInv ==
    TaskInv /\ ((\E t \in Tasks : Run(t) \/ Report(t)) \/ PrintResults \/ Die) => TaskInv'
<1> SUFFICES ASSUME TaskInv,
                    (\E t \in Tasks : Run(t) \/ Report(t)) \/ PrintResults \/ Die
             PROVE  TaskInv'
  OBVIOUS
<1> USE DEF TaskInv
<1>1. ASSUME NEW t \in Tasks, NEW e \in {"nil", "error"}, WorkerReturn(t, e) PROVE TaskInv'
  <2>1. Waited'
    BY <1>1 DEF WorkerReturn, Waited, launchVars, Top
  <2>2. TaskTypeOK'
    BY <1>1 DEF WorkerReturn, TaskTypeOK, launchVars
  <2>3. Finished'
    BY <1>1, Zenon DEF WorkerReturn, TaskTypeOK, Finished, launchVars
  <2> QED BY <2>1, <2>2, <2>3, Zenon
<1>2. ASSUME NEW t \in Tasks, Exec(t) PROVE TaskInv'
  <2>1. TaskTypeOK'
    BY <1>2, Zenon DEF Exec, TaskTypeOK, launchVars, workerVars
  <2>2. Waited'
    BY <1>2, Zenon DEF Exec, Waited, launchVars, workerVars, Top
  <2>3. Finished'
    BY <1>2, Zenon DEF Exec, Finished, launchVars, workerVars
  <2> QED BY <2>1, <2>2, <2>3, Zenon
<1>3. ASSUME NEW t \in Tasks, SendResult(t) PROVE TaskInv'
  <2>1. Waited'
    BY <1>3 DEF SendResult, Waited, launchVars, Top
  <2>2. TaskTypeOK'
    BY <1>3 DEF SendResult, TaskTypeOK, launchVars
  <2>3. Finished'
    BY <1>3 DEF SendResult, TaskTypeOK, Finished, launchVars
  <2> QED BY <2>1, <2>2, <2>3, Zenon
<1>4. ASSUME NEW t \in Tasks, Done(t) PROVE TaskInv'
  <2>1. CASE process' = process /\ chans' = [chans EXCEPT ![t] = "closed"]
                                /\ worker' = [worker EXCEPT ![t] = "ended"]
    <3>1. \A x \in Tasks : chans[x] = "closed" => chans'[x] = "closed"
      BY <2>1, Zenon DEF TaskTypeOK
    <3>2. \A x \in Tasks : Depends(x) \subseteq Tasks
      BY TasksAssumption DEF Depends
    <3>3. mode = "making" => Top.task \in Tasks /\ Top.task # t
      BY <1>4, TopShape, Zenon DEF Done, Waited, Finished
    <3>4. mode \in {"wait", "go", "making"} => Top.task \in Tasks /\ After[Top.task] \in Seq(Tasks)
      BY TopShape DEF Waited
    <3>5. Top' = Top /\ UNCHANGED launchVars
      BY <1>4, Zenon DEF Done, Top, launchVars
    <3>6. Waited'
      BY <2>1, <3>1, <3>2, <3>3, <3>4, <3>5 DEF Waited, TaskTypeOK, launchVars
    <3>7. TaskTypeOK'
      BY <1>4, <2>1, Zenon DEF Done, TaskTypeOK, launchVars
    <3>8. Finished'
      BY <1>4, <2>1, <3>1, <3>2 DEF Done, TaskTypeOK, Finished, launchVars
    <3> QED BY <3>6, <3>7, <3>8
  <2>2. CASE process' = "raced" /\ UNCHANGED <<chans, worker>>
    BY <1>4, <2>2 DEF Done, TaskTypeOK, Waited, Finished, launchVars, Top
  <2> QED BY <1>4, <2>1, <2>2 DEF Done
<1>5. CASE PrintResults
  <2>1. results' \in Seq(Tasks)
    BY <1>5 DEF PrintResults, TaskTypeOK
  <2>2. TaskTypeOK'
    BY <1>5, <2>1, Zenon DEF PrintResults, TaskTypeOK, launchVars
  <2>3. Waited' /\ Finished'
    BY <1>5, Zenon DEF PrintResults, Waited, Finished, launchVars, Top
  <2> QED BY <2>2, <2>3
<1>6. CASE Die
  <2>1. TaskTypeOK'
    BY <1>6, Zenon DEF Die, TaskTypeOK, launchVars, workerVars
  <2>2. Waited'
    BY <1>6, Zenon DEF Die, Waited, launchVars, workerVars, Top
  <2>3. Finished'
    BY <1>6, Zenon DEF Die, Finished, launchVars, workerVars
  <2> QED BY <2>1, <2>2, <2>3, Zenon
<1> QED BY <1>1, <1>2, <1>3, <1>4, <1>5, <1>6 DEF Run, Report

\* Nothing changes in a step of something else.
LEMMA TaskStutter == TaskInv /\ UNCHANGED taskVars => TaskInv'
<1> SUFFICES ASSUME TaskInv, UNCHANGED taskVars PROVE TaskInv'
  OBVIOUS
<1> USE DEF TaskInv, taskVars, launchVars, workerVars
<1>1. TaskTypeOK'
  BY Zenon DEF TaskTypeOK
<1>2. Waited'
  BY Zenon DEF Waited, Top
<1>3. Finished'
  BY Zenon DEF Finished
<1> QED BY <1>1, <1>2, <1>3

\* Every step of the task queue, and every stutter, keeps the invariant.
LEMMA TaskStep == TaskInv /\ [TaskNext]_taskVars => TaskInv'
BY LaunchInv, WorkersInv, TaskStutter, Zenon DEF TaskNext

\* A closed channel stands for a worker that has succeeded.
LEMMA TaskInvImplies == TaskInv => DependenciesFirst /\ TargetDone
<1> SUFFICES ASSUME TaskInv PROVE DependenciesFirst /\ TargetDone
  OBVIOUS
<1>1. \A t \in Tasks : Depends(t) \subseteq Tasks
  BY TasksAssumption DEF Depends
<1> QED BY <1>1 DEF TaskInv, TaskTypeOK, Finished, DependenciesFirst, TargetDone

-----------------------------------------------------------------------------
\* A worker runs only when every task it is After has returned without error,
\* and RunUntil returns only when the target has, for every table of tasks.
THEOREM TasksInOrder == TaskSpec => [](DependenciesFirst /\ TargetDone)
<1>1. TaskInit => TaskInv
  BY TaskInitInv
<1>2. TaskInv /\ [TaskNext]_taskVars => TaskInv'
  BY TaskStep
<1>3. TaskInv => DependenciesFirst /\ TargetDone
  BY TaskInvImplies
<1> QED BY <1>1, <1>2, <1>3, PTL DEF TaskSpec

-----------------------------------------------------------------------------
(* Network *)

\* An interface that got past RouteAdd owns the default route; only it has
\* written resolv.conf, and it has no entry in errs.
Routers == {"none", "router", "gateway", "server"}
Leases == [router : Routers, dns : SUBSET (Routers \cup {"dns", "public"})]

NetTyped ==
    /\ ifc \in [Interfaces -> {"none", "ifup", "dhcp", "addr", "route", "dns", "configured",
                               "failed", "storing", "tick", "ended"}]
    /\ config \in [Interfaces -> Leases]
    /\ errs \subseteq Interfaces

Owned ==
    /\ \A i \in Interfaces : ifc[i] \in {"addr", "route", "dns"} =>
          config[i].router # "none" /\ config[i].dns # {}
    /\ \A i \in Interfaces : ifc[i] \in {"route", "dns", "configured"} => i \in addrs
    /\ \A i \in Interfaces : ifc[i] \in {"dns", "configured"} =>
          route.iface = i /\ route.gw # "none"
    /\ \A i \in Interfaces : ifc[i] = "configured" => resolv.iface = i
    /\ \A i \in errs : ifc[i] \in {"tick", "ended"}
    /\ resolv.iface # NoIface =>
          /\ resolv.iface \in Interfaces
          /\ resolv.iface = route.iface /\ route.iface \in addrs /\ route.gw # "none"
          /\ resolv.dns # {}
          /\ ifc[resolv.iface] \in {"configured", "failed", "storing", "tick", "ended"}

Returned ==
    /\ cancelled => resolv.iface # NoIface
    /\ nerr = "nil" => resolv.iface # NoIface
    /\ cancelled => \E i \in Interfaces \ errs : ifc[i] \in {"tick", "ended"}
    /\ nerr = "error" => errs = Interfaces
    /\ net = "idle" => \A i \in Interfaces : ifc[i] = "none"

NetInv == NetTyped /\ Owned /\ Returned

\* Before networkUp there is nothing.
LEMMA NetInitInv == NetInit => NetInv
<1> SUFFICES ASSUME NetInit PROVE NetInv
  OBVIOUS
<1>1. NoSettings \in Leases
  BY Zenon DEF NoSettings, Leases, Routers
<1>2. NetTyped
  BY <1>1, Zenon DEF NetInit, NetTyped
<1>3. Owned
  BY Zenon DEF NetInit, Owned
<1>4. Returned
  BY DEF NetInit, Returned
<1> QED BY <1>2, <1>3, <1>4 DEF NetInv

\* What dhcpc returns names a router and at least one name server.
LEMMA SettingsShape ==
    ASSUME NEW ack \in Acks, Router(ack) # "none"
    PROVE  /\ Settings(ack) \in Leases
           /\ Settings(ack).router # "none"
           /\ Settings(ack).dns # {}
<1>1. Router(ack) \in Routers
  BY DEF Router, Routers
<1>2. Settings(ack) \in Leases
  BY <1>1, Zenon DEF Settings, Leases, Routers
<1> QED BY <1>2 DEF Settings

\* A step of configure leaves alone what networkUp looks at.
LEMMA ReturnedKept ==
    ASSUME NEW i \in Interfaces, NEW x, NetTyped, Returned,
           ifc[i] \notin {"none", "tick", "ended"}, ifc' = [ifc EXCEPT ![i] = x],
           UNCHANGED <<errs, nerr, net, cancelled>>,
           resolv'.iface = resolv.iface \/ resolv'.iface = i
    PROVE  Returned'
<1>1. resolv.iface # NoIface => resolv'.iface # NoIface
  BY NetworkAssumption, Zenon
<1>2. \A j \in Interfaces : ifc[j] \in {"none", "tick", "ended"} => ifc'[j] = ifc[j]
  BY DEF NetTyped
<1> QED BY <1>1, <1>2 DEF Returned

\* A goroutine that moves to x keeps what is owned, if x claims no more than is so.
LEMMA OwnedKept ==
    ASSUME NEW i \in Interfaces, NEW x, NetTyped, Owned,
           ifc' = [ifc EXCEPT ![i] = x], UNCHANGED route,
           \A j \in Interfaces : j # i => config'[j] = config[j],
           addrs \subseteq addrs', errs' \subseteq errs \cup {i},
           x \in {"addr", "route", "dns"} => config'[i].router # "none" /\ config'[i].dns # {},
           x \in {"route", "dns", "configured"} => i \in addrs',
           x \in {"dns", "configured"} => route.iface = i /\ route.gw # "none",
           x = "configured" => resolv'.iface = i,
           i \in errs' => x \in {"tick", "ended"},
           \/ resolv' = resolv
           \/ /\ resolv'.iface = i /\ resolv'.dns # {}
              /\ i = route.iface /\ i \in addrs' /\ route.gw # "none",
           resolv'.iface = i => x \in {"configured", "failed", "storing", "tick", "ended"},
           \A j \in Interfaces : j # i /\ ifc[j] = "configured" => resolv' = resolv
    PROVE  Owned'
<1>1. ifc'[i] = x /\ \A j \in Interfaces : j # i => ifc'[j] = ifc[j]
  BY Zenon DEF NetTyped
<1>2. \A j \in Interfaces : ifc'[j] \in {"addr", "route", "dns"} =>
          config'[j].router # "none" /\ config'[j].dns # {}
  BY <1>1 DEF Owned
<1>3. \A j \in Interfaces : ifc'[j] \in {"route", "dns", "configured"} => j \in addrs'
  BY <1>1, Zenon DEF Owned
<1>4. \A j \in Interfaces : ifc'[j] \in {"dns", "configured"} =>
          route'.iface = j /\ route'.gw # "none"
  BY <1>1, Zenon DEF Owned
<1>5. \A j \in Interfaces : ifc'[j] = "configured" => resolv'.iface = j
  BY <1>1 DEF Owned
<1>6. \A j \in errs' : ifc'[j] \in {"tick", "ended"}
  BY <1>1, Zenon DEF Owned, NetTyped
<1>7. resolv'.iface # NoIface =>
          /\ resolv'.iface \in Interfaces
          /\ resolv'.iface = route'.iface /\ route'.iface \in addrs' /\ route'.gw # "none"
          /\ resolv'.dns # {}
          /\ ifc'[resolv'.iface] \in {"configured", "failed", "storing", "tick", "ended"}
  BY <1>1 DEF Owned
<1> QED BY <1>2, <1>3, <1>4, <1>5, <1>6, <1>7, Zenon DEF Owned

\* Shared by the steps of configure
LEMMA NoSettingsLease == NoSettings \in Leases
BY DEF NoSettings, Leases, Routers

LEMMA DhcpInv ==
    ASSUME NEW i \in Interfaces, NetTyped, Owned, Returned, Dhcp(i)
    PROVE  NetTyped' /\ Owned' /\ Returned'
<1>1. /\ ifc[i] = "dhcp"
      /\ UNCHANGED <<net, nerr, cancelled, addrs, route, resolv, errs>>
  BY DEF Dhcp
<1>2. PICK set \in Leases, x \in {"addr", "failed"} :
         /\ x = "addr" => set.router # "none" /\ set.dns # {}
         /\ config' = [config EXCEPT ![i] = set] /\ ifc' = [ifc EXCEPT ![i] = x]
  BY SettingsShape, NoSettingsLease, Zenon DEF Dhcp, Return, Continue
<1>3. NetTyped'
  BY <1>1, <1>2, Zenon DEF NetTyped
<1>4. Owned'
  BY <1>1, <1>2, OwnedKept, Zenon DEF NetTyped, Owned
<1>5. Returned'
  BY <1>1, <1>2, ReturnedKept, Zenon
<1> QED BY <1>3, <1>4, <1>5, Zenon

LEMMA RouteAddInv ==
    ASSUME NEW i \in Interfaces, NetTyped, Owned, Returned, RouteAdd(i)
    PROVE  NetTyped' /\ Owned' /\ Returned'
<1>1. /\ ifc[i] = "route"
      /\ UNCHANGED <<net, nerr, cancelled, addrs, resolv, errs>>
  BY DEF RouteAdd
<1>2. CASE Return(i, "failed") /\ UNCHANGED route
  <2>1. NetTyped'
    BY <1>1, <1>2, NoSettingsLease, Zenon DEF NetTyped, Return
  <2>2. Owned'
    BY <1>1, <1>2, OwnedKept, Zenon DEF NetTyped, Owned, Return
  <2>3. Returned'
    BY <1>1, <1>2, ReturnedKept, Zenon DEF Return
  <2> QED BY <2>1, <2>2, <2>3, Zenon
<1>3. CASE /\ route.iface = NoIface
           /\ route' = [iface |-> i, gw |-> config[i].router]
           /\ ifc' = [ifc EXCEPT ![i] = "dns"]
           /\ UNCHANGED config
  <2>1. NetTyped'
    BY <1>1, <1>3, Zenon DEF NetTyped
  <2>2. resolv.iface = NoIface /\ \A j \in Interfaces : ifc[j] \notin {"dns", "configured"}
    BY <1>3, NetworkAssumption, Zenon DEF Owned
  <2>3. Owned'
    BY <1>1, <1>3, <2>2 DEF NetTyped, Owned
  <2>4. Returned'
    BY <1>1, <1>3, ReturnedKept, Zenon
  <2> QED BY <2>1, <2>3, <2>4, Zenon
<1> QED BY <1>2, <1>3, Zenon DEF RouteAdd

\* The goroutine of one interface keeps the invariant.
LEMMA GoroutineInv ==
    ASSUME NEW i \in Interfaces, NetInv, Goroutine(i)
    PROVE  NetInv'
<1> USE NetworkAssumption DEF NetInv
<1>1. CASE Ifup(i)
  <2>1. NetTyped'
    BY NoSettingsLease, <1>1, Zenon DEF Ifup, Continue, Return, NetTyped
  <2>2. Owned'
    <3>1. PICK x \in {"dhcp", "failed"} : ifc' = [ifc EXCEPT ![i] = x]
      BY <1>1, Zenon DEF Ifup, Continue, Return
    <3>2. \A j \in Interfaces : j # i => config'[j] = config[j]
      BY <1>1, Zenon DEF Ifup, Return, NetTyped
    <3>3. ifc[i] = "ifup" /\ i \notin errs /\ resolv.iface # i
      BY <1>1, Zenon DEF Ifup, Owned
    <3> QED BY <1>1, <3>1, <3>2, <3>3, OwnedKept, Zenon DEF Ifup
  <2>3. Returned'
    BY <1>1, ReturnedKept DEF Ifup, Continue, Return
  <2> QED BY <2>1, <2>2, <2>3, Zenon
<1>2. CASE Dhcp(i)
  BY <1>2, DhcpInv
<1>3. CASE AddrAdd(i)
  <2>1. NetTyped'
    BY NoSettingsLease, <1>3 DEF AddrAdd, Continue, Return, NetTyped
  <2>2. Owned'
    <3>1. PICK x \in {"route", "failed"} : ifc' = [ifc EXCEPT ![i] = x]
                                        /\ (x = "route" => i \in addrs' /\ config' = config)
      BY <1>3, Zenon DEF AddrAdd, Continue, Return
    <3>2. \A j \in Interfaces : j # i => config'[j] = config[j]
      BY <1>3, Zenon DEF AddrAdd, Return, NetTyped
    <3>3. /\ ifc[i] = "addr" /\ i \notin errs /\ resolv.iface # i
          /\ config[i].router # "none" /\ config[i].dns # {}
      BY <1>3, Zenon DEF AddrAdd, Owned
    <3>4. addrs \subseteq addrs'
      BY <1>3, Zenon DEF AddrAdd
    <3> QED BY <1>3, <3>1, <3>2, <3>3, <3>4, OwnedKept, Zenon DEF AddrAdd
  <2>3. Returned'
    BY <1>3, ReturnedKept DEF AddrAdd, Continue, Return
  <2> QED BY <2>1, <2>2, <2>3
<1>4. CASE RouteAdd(i)
  BY <1>4, RouteAddInv
<1>5. CASE SaveDNS(i)
  <2>1. NetTyped'
    BY NoSettingsLease, <1>5 DEF SaveDNS, Return, NetTyped
  <2>2. Owned'
    <3>1. /\ ifc[i] = "dns"
          /\ UNCHANGED <<net, nerr, cancelled, addrs, route, errs>>
          /\ config' = [config EXCEPT ![i] = NoSettings]
      BY <1>5, Zenon DEF SaveDNS, Return
    <3>2. /\ config[i].dns # {} /\ i \in addrs /\ route.iface = i /\ route.gw # "none"
          /\ i \notin errs /\ \A j \in Interfaces : j # i => ifc[j] # "configured"
      BY <3>1, Zenon DEF NetTyped, Owned
    <3>3. \A j \in Interfaces : j # i => config'[j] = config[j]
      BY <3>1 DEF NetTyped
    <3>4. CASE ifc' = [ifc EXCEPT ![i] = "failed"] /\ UNCHANGED resolv
      BY <3>1, <3>2, <3>3, <3>4, OwnedKept, Zenon
    <3>5. ASSUME NEW how \in {"configured", "failed"},
                 ifc' = [ifc EXCEPT ![i] = how],
                 resolv' = [iface |-> i, dns |-> config[i].dns]
          PROVE  Owned'
      BY <3>1, <3>2, <3>3, <3>5, OwnedKept, Zenon
    <3> QED BY <1>5, <3>4, <3>5, Zenon DEF SaveDNS, Return
  <2>3. Returned'
    BY <1>5, ReturnedKept DEF SaveDNS, Return
  <2> QED BY <2>1, <2>2, <2>3
<1>6. CASE Cancel(i)
  <2>1. NetTyped'
    BY <1>6 DEF Cancel, NetTyped
  <2>2. Owned'
    BY <1>6, OwnedKept, Zenon DEF Cancel, NetTyped, Owned
  <2>3. Returned'
    BY <1>6, <2>1 DEF Cancel, NetTyped, Owned, Returned
  <2> QED BY <2>1, <2>2, <2>3
<1>7. CASE StoreBegin(i)
  <2>1. NetTyped'
    BY <1>7, Zenon DEF StoreBegin, NetTyped
  <2>2. Owned'
    BY <1>7, OwnedKept, Zenon DEF StoreBegin, NetTyped, Owned
  <2>3. Returned'
    BY <1>7, <2>1 DEF StoreBegin, NetTyped, Owned, Returned
  <2> QED BY <2>1, <2>2, <2>3, Zenon
<1>8. CASE StoreEnd(i)
  <2>1. NetTyped'
    BY <1>8, Zenon DEF StoreEnd, NetTyped
  <2>2. Owned'
    BY <1>8, OwnedKept, Zenon DEF StoreEnd, NetTyped, Owned
  <2>3. Returned'
    BY <1>8, <2>1, Zenon DEF StoreEnd, NetTyped, Owned, Returned
  <2> QED BY <2>1, <2>2, <2>3, Zenon
<1> QED BY <1>1, <1>2, <1>3, <1>4, <1>5, <1>6, <1>7, <1>8, Zenon DEF Goroutine, Configure

\* A step of networkUp itself keeps the invariant.
LEMMA NetStepInv ==
    ASSUME NetInv, NetStep
    PROVE  NetInv'
<1> USE NetworkAssumption DEF NetInv
<1>1. CASE NetStart
  <2>1. errs = {} /\ resolv.iface = NoIface
    BY <1>1, Zenon DEF NetStart, NetTyped, Owned, Returned
  <2>2. NetTyped'
    BY <1>1, Zenon DEF NetStart, NetTyped
  <2>3. Owned'
    BY <1>1, <2>1, <2>2 DEF NetStart, NetTyped, Owned
  <2>4. Returned'
    BY <1>1, <2>1, <2>2, Zenon DEF NetStart, NetTyped, Owned, Returned
  <2> QED BY <2>2, <2>3, <2>4
<1>2. CASE NetDone
  <2>1. NetTyped'
    BY <1>2, Zenon DEF NetDone, NetTyped
  <2>2. Owned'
    BY <1>2 DEF NetDone, Owned
  <2>3. Returned'
    BY <1>2, Zenon DEF NetDone, Returned
  <2> QED BY <2>1, <2>2, <2>3, Zenon
<1>3. ASSUME NEW i \in Interfaces, Tick(i) PROVE NetInv'
  <2>1. NetTyped'
    BY <1>3, Zenon DEF Tick, NetTyped
  <2>2. Owned'
    BY <1>3, <2>1, Zenon DEF Tick, NetTyped, Owned
  <2>3. Returned'
    BY <1>3, <2>1, Zenon DEF Tick, NetTyped, Owned, Returned
  <2> QED BY <2>1, <2>2, <2>3, Zenon
<1> QED BY <1>1, <1>2, <1>3 DEF NetStep

\* Every step of the network part, and every stutter, keeps its invariant.
LEMMA NetInvStep == NetInv /\ [NetNext]_netVars => NetInv'
<1>1. NetInv /\ UNCHANGED netVars => NetInv'
  <2> SUFFICES ASSUME NetInv, UNCHANGED netVars PROVE NetInv'
    OBVIOUS
  <2>1. NetTyped'
    BY Zenon DEF NetInv, NetTyped, netVars
  <2>2. Owned'
    BY Zenon DEF NetInv, Owned, netVars
  <2>3. Returned'
    BY Zenon DEF NetInv, Returned, netVars
  <2> QED BY <2>1, <2>2, <2>3 DEF NetInv
<1> QED BY <1>1, GoroutineInv, NetStepInv, Zenon DEF NetNext

\* The invariant gives the three properties of networkUp.
LEMMA NetInvImplies == NetInv => UpMeansConfigured /\ GivesUpLast
BY NetworkAssumption DEF NetInv, NetTyped, Owned, Returned,
       UpMeansConfigured, GivesUpLast

-----------------------------------------------------------------------------
(* Kernel modules *)

KmodInv == KernelClosed /\ LoadedInKernel

\* Before loadDeviceModules nothing is taken for loaded.
LEMMA KmodInitInv == KmodInit => KmodInv
BY DEF KmodInit, KmodInv, LoadedInKernel

\* finit_module accepts a module only with its dependencies, so marking them is right.
LEMMA KmodStepInv ==
    ASSUME KmodInv, KmodStep
    PROVE  KmodInv'
<1> USE DEF KmodInv
<1>1. CASE KmodStart \/ WalkDevice \/ WalkEnd \/ LoadAlias \/ LoadAliasEnd \/ LoadDep
  BY <1>1, Zenon DEF KmodStart, WalkDevice, WalkEnd, LoadAlias, LoadAliasEnd, LoadDep,
              KernelClosed, LoadedInKernel, DepSet
<1>2. CASE LoadModule
  <2> DEFINE m == KTop.module
             failed == KTop.failed
  <2>1. PICK e \in FinitModule(m) :
          /\ IF e \in {"ok", "EEXIST", "ENODEV"}
             THEN loaded' = loaded \cup {m} \cup (IF failed THEN DepSet(m) ELSE {})
             ELSE loaded' = loaded
          /\ kernel' = IF e = "ok" THEN kernel \cup {m} ELSE kernel
          /\ nodev' = IF e = "ENODEV" THEN nodev \cup {m} ELSE nodev
          /\ UNCHANGED deps
    BY <1>2, Zenon DEF LoadModule
  <2> HIDE DEF m, failed
  <2>2. e \in {"ok", "EEXIST", "ENODEV"} => DepSet(m) \subseteq kernel \cup Builtin
    BY <2>1, Zenon DEF FinitModule, KernelClosed
  <2>3. \A x : DepSet(x)' = DepSet(x)
    BY <2>1, Zenon DEF DepSet
  <2>4. e = "EEXIST" => m \in kernel \cup Builtin
    BY <2>1, Zenon DEF FinitModule
  <2>5. KernelClosed'
    BY <2>1, <2>2, <2>3, Zenon DEF KernelClosed
  <2>6. LoadedInKernel'
    BY <2>1, <2>2, <2>4 DEF LoadedInKernel
  <2> QED BY <2>5, <2>6, Zenon
<1> QED BY <1>1, <1>2, Zenon DEF KmodStep

-----------------------------------------------------------------------------
(* The machine *)

\* A worker that has returned has returned nil or an error.
ErrsKnown ==
    /\ kpc = "returned" => kerr \in {"nil", "error"}
    /\ seed = "returned" => serr \in {"nil", "error"}
    /\ net = "returned" => nerr \in {"nil", "error"}

\* Each step of the machine is a step of the task queue, or leaves it alone.
LEMMA TaskPart ==
    ASSUME ErrsKnown, [Next]_vars
    PROVE  [TaskNext]_taskVars
<1>1. ASSUME NEW i \in Interfaces, Configuring(i) PROVE [TaskNext]_taskVars
  BY <1>1 DEF Configuring, TaskNext
<1>2. ASSUME NEW g \in Generators, Generating(g) PROVE [TaskNext]_taskVars
  BY <1>2 DEF Generating
<1>3. CASE Launching \/ Printing
  BY <1>3 DEF Launching, Printing, TaskNext
<1>4. ASSUME NEW t \in Tasks, Reporting(t) PROVE [TaskNext]_taskVars
  BY <1>4 DEF Reporting, TaskNext
<1>5. ASSUME NEW t \in Tasks, Worker(t) PROVE [TaskNext]_taskVars
  <2>1. CASE Wait(t) \/ Shell(t) \/ Mount(t)
    BY <2>1 DEF Wait, Shell, Mount, TaskNext, Run
  <2>2. CASE LoadDeviceModules(t)
    BY <2>2 DEF LoadDeviceModules, TaskNext, Run, ErrsKnown
  <2>3. CASE SeedRandomGenerator(t)
    BY <2>3 DEF SeedRandomGenerator, TaskNext, Run, ErrsKnown
  <2>4. CASE NetworkUp(t)
    BY <2>4 DEF NetworkUp, TaskNext, Run, ErrsKnown
  <2> QED BY <1>5, <2>1, <2>2, <2>3, <2>4 DEF Worker
<1>6. CASE PowerOn \/ Build \/ UNCHANGED vars
  BY <1>6 DEF PowerOn, Build, vars
<1> QED BY <1>1, <1>2, <1>3, <1>4, <1>5, <1>6 DEF Next

\* ... and the same of networkUp and its goroutines
LEMMA NetPart ==
    ASSUME [Next]_vars
    PROVE  [NetNext]_netVars
<1>1. ASSUME NEW i \in Interfaces, Configuring(i) PROVE [NetNext]_netVars
  BY <1>1 DEF Configuring, NetNext
<1>2. ASSUME NEW t \in Tasks, Worker(t) PROVE [NetNext]_netVars
  BY <1>2 DEF Worker, Wait, Shell, Mount, LoadDeviceModules, SeedRandomGenerator, NetworkUp,
              NetNext, outsideTasks
<1>3. ASSUME NEW t \in Tasks, Reporting(t) PROVE [NetNext]_netVars
  BY <1>3 DEF Reporting, outsideTasks
<1>4. ASSUME NEW g \in Generators, Generating(g) PROVE [NetNext]_netVars
  BY <1>4 DEF Generating
<1>5. CASE Launching \/ Printing \/ PowerOn \/ Build \/ UNCHANGED vars
  BY <1>5 DEF Launching, Printing, PowerOn, Build, outsideTasks, vars
<1> QED BY <1>1, <1>2, <1>3, <1>4, <1>5 DEF Next

\* ... and of the package kmod, but for the image that appears at power on
LEMMA KmodPart ==
    ASSUME [Next]_vars
    PROVE  KmodStep \/ UNCHANGED <<deps, loaded, kernel, nodev, kpc, kerr>>
<1>1. ASSUME NEW i \in Interfaces, Configuring(i)
      PROVE  UNCHANGED <<deps, loaded, kernel, nodev, kpc, kerr>>
  BY <1>1, Zenon DEF Configuring, kmodVars
<1>2. ASSUME NEW t \in Tasks, Worker(t)
      PROVE  KmodStep \/ UNCHANGED <<deps, loaded, kernel, nodev, kpc, kerr>>
  BY <1>2 DEF Worker, Wait, Shell, Mount, LoadDeviceModules, SeedRandomGenerator, NetworkUp,
              kmodVars, outsideTasks
<1>3. ASSUME NEW t \in Tasks, Reporting(t)
      PROVE  UNCHANGED <<deps, loaded, kernel, nodev, kpc, kerr>>
  BY <1>3 DEF Reporting, outsideTasks, kmodVars
<1>4. ASSUME NEW g \in Generators, Generating(g)
      PROVE  UNCHANGED <<deps, loaded, kernel, nodev, kpc, kerr>>
  BY <1>4, Zenon DEF Generating, kmodVars
<1>5. CASE Launching \/ Printing \/ PowerOn \/ Build \/ UNCHANGED vars
  BY <1>5 DEF Launching, Printing, PowerOn, Build, outsideTasks, vars, kmodVars
<1> QED BY <1>1, <1>2, <1>3, <1>4, <1>5 DEF Next

\* ... and of the package rand
LEMMA RandPart ==
    ASSUME [Next]_vars
    PROVE  SeedStep \/ (\E g \in Generators : Generator(g)) \/ UNCHANGED randVars
<1>1. ASSUME NEW i \in Interfaces, Configuring(i) PROVE UNCHANGED randVars
  BY <1>1 DEF Configuring
<1>2. ASSUME NEW t \in Tasks, Worker(t) PROVE SeedStep \/ UNCHANGED randVars
  BY <1>2 DEF Worker, Wait, Shell, Mount, LoadDeviceModules, SeedRandomGenerator, NetworkUp,
              outsideTasks
<1>3. ASSUME NEW t \in Tasks, Reporting(t) PROVE UNCHANGED randVars
  BY <1>3 DEF Reporting, outsideTasks
<1>4. ASSUME NEW g \in Generators, Generating(g) PROVE Generator(g)
  BY <1>4 DEF Generating
<1>5. CASE Launching \/ Printing \/ PowerOn \/ Build \/ UNCHANGED vars
  BY <1>5 DEF Launching, Printing, PowerOn, Build, outsideTasks, vars
<1> QED BY <1>1, <1>2, <1>3, <1>4, <1>5 DEF Next

\* No worker returns anything but nil or an error.
LEMMA ErrsKnownStep ==
    ASSUME ErrsKnown, [Next]_vars
    PROVE  ErrsKnown'
<1>1. kpc' = "returned" => kerr' \in {"nil", "error"}
  <2>1. CASE KmodStep
    BY <2>1, Zenon DEF KmodStep, KmodStart, WalkDevice, WalkEnd, LoadAlias, LoadAliasEnd, LoadDep,
                LoadModule, LoadReturn, ErrsKnown
  <2> QED BY <2>1, KmodPart, Zenon DEF ErrsKnown
<1>2. seed' = "returned" => serr' \in {"nil", "error"}
  <2>1. CASE SeedStep \/ \E g \in Generators : Generator(g)
    BY <2>1 DEF SeedStep, SeedStart, SeedOpen, SeedIoctl, ReceiveLarge, ReceiveSmall,
                Generator, Generate, Cancelled, ErrsKnown
  <2> QED BY <2>1, RandPart DEF ErrsKnown, randVars
<1>3. net' = "returned" => nerr' \in {"nil", "error"}
  <2>1. CASE NetNext
    BY <2>1, Zenon DEF NetNext, NetStep, NetStart, NetDone, Tick, Goroutine, Configure, Ifup, Dhcp,
                AddrAdd, RouteAdd, SaveDNS, Cancel, StoreBegin, StoreEnd, ErrsKnown
  <2> QED BY <2>1, NetPart, Zenon DEF ErrsKnown, netVars
<1> QED BY <1>1, <1>2, <1>3 DEF ErrsKnown

BootInv == TaskInv /\ NetInv /\ KmodInv /\ ErrsKnown

\* Every step of the machine keeps the invariants of its parts.
LEMMA BootInvStep == BootInv /\ [Next]_vars => BootInv'
<1> SUFFICES ASSUME BootInv, [Next]_vars PROVE BootInv'
  OBVIOUS
<1> USE DEF BootInv
<1>1. TaskInv'
  BY TaskPart, TaskStep
<1>2. NetInv'
  BY NetPart, NetInvStep
<1>3. KmodInv'
  <2>1. CASE UNCHANGED <<deps, loaded, kernel, nodev, kpc, kerr>>
    BY <2>1 DEF KmodInv, KernelClosed, LoadedInKernel, DepSet
  <2> QED BY <2>1, KmodPart, KmodStepInv
<1>4. ErrsKnown'
  BY ErrsKnownStep
<1> QED BY <1>1, <1>2, <1>3, <1>4

\* A machine that is off satisfies them.
LEMMA BootInitInv == Init => BootInv
<1> SUFFICES ASSUME Init PROVE BootInv
  OBVIOUS
<1>1. TaskInit /\ NetInit /\ KmodInit /\ RandInit
  BY DEF Init
<1>2. ErrsKnown
  BY <1>1 DEF NetInit, KmodInit, RandInit, ErrsKnown
<1> QED BY <1>1, <1>2, TaskInitInv, NetInitInv, KmodInitInv DEF BootInv

\* The machine runs its tasks as the task queue allows.
THEOREM BootImplementsTasks == Spec => TaskSpec
<1>1. Init => TaskInit
  BY DEF Init
<1>2. BootInv /\ [Next]_vars => [TaskNext]_taskVars
  BY TaskPart DEF BootInv
<1> QED BY <1>1, <1>2, BootInitInv, BootInvStep, PTL DEF Spec, TaskSpec

\* What networkUp says of the network is so, for any number of interfaces.
THEOREM NetworkConfigured ==
    Spec => [](UpMeansConfigured /\ GivesUpLast)
<1>1. BootInv => UpMeansConfigured /\ GivesUpLast
  BY NetInvImplies DEF BootInv
<1> QED BY <1>1, BootInitInv, BootInvStep, PTL DEF Spec

\* What the package kmod takes for loaded the kernel has, or has no device for.
THEOREM ModulesLoaded == Spec => []LoadedInKernel
<1>1. BootInv => LoadedInKernel
  BY DEF BootInv, KmodInv
<1> QED BY <1>1, BootInitInv, BootInvStep, PTL DEF Spec

-----------------------------------------------------------------------------
(* The image *)

Members(s) == {s[i] : i \in 1..Len(s)}

BuildTyped ==
    /\ needs \in Graphs
    /\ wanted \in Seq(STRING) /\ visit \in Seq(STRING)
    /\ visited \subseteq Files /\ fs = Copied \cup visited /\ copied \subseteq Files
    /\ written \in [Paths -> Nat]

\* What was asked for, and what a visited file needs, was visited or is still
\* to be; nothing is left when the archive is opened.
SearchInv ==
    /\ build = "search" =>
          /\ Members(Wanted) \subseteq visited \cup Members(visit) \cup Members(wanted)
          /\ \A f \in visited : Needed(f) \subseteq visited \cup Members(visit)
    /\ build = "write" \/ Built =>
          /\ Members(Wanted) \subseteq visited
          /\ \A f \in visited : Needed(f) \subseteq visited

\* The archive so far: a file is in it only after the loop came to it, and
\* with its directories; as long as rc is 0 no file was left out.
ArchiveInv ==
    /\ \A p \in Paths : written[p] <= 1
    /\ build = "search" => copied = {}
    /\ \A f \in Files \ copied : written[f] = 0
    /\ \A f \in Files : written[f] = 1 => \A d \in DirSet(f) : written[d] = 1
    /\ rc = 0 => ~torn /\ \A f \in copied : written[f] = 1
    /\ build # "exit" => written["TRAILER!!!"] = 0
    /\ Built => written["TRAILER!!!"] = 1 /\ fs \subseteq copied

BuildInv == BuildTyped /\ SearchInv /\ ArchiveInv

KFrames == [module : image, next : Nat, failed : BOOLEAN]

\* The modules of the image have their dependencies there, and every call of
\* loadPath is for a module of the image.
ModulesInv ==
    /\ deps = [m \in Modules |-> needs[m]]
    /\ power = "off" => kpc = "idle"
    /\ image \subseteq Modules
    /\ \A m \in image : DepSet(m) \subseteq image
    /\ kpc = "load" => kstack \in Seq(KFrames) /\ kstack # <<>>

\* What is left of a sequence, and what two make together
LEMMA TailMembers ==
    ASSUME NEW s \in Seq(STRING), s # <<>>
    PROVE  /\ Tail(s) \in Seq(STRING) /\ Head(s) \in STRING
           /\ Members(s) = {Head(s)} \cup Members(Tail(s))
<1>1. Tail(s) \in Seq(STRING) /\ Head(s) \in STRING /\ Head(s) = s[1]
      /\ Len(s) \in Nat /\ Len(s) > 0 /\ Len(Tail(s)) = Len(s) - 1
  OBVIOUS
<1>2. \A i \in 1..(Len(s) - 1) : Tail(s)[i] = s[i + 1]
  OBVIOUS
<1>3. \A i \in 1..Len(s) : i = 1 \/ (i - 1 \in 1..(Len(s) - 1) /\ s[i] = Tail(s)[i - 1])
  BY <1>1, <1>2
<1>4. Members(s) \subseteq {Head(s)} \cup Members(Tail(s))
  BY <1>1, <1>3 DEF Members
<1>5. {Head(s)} \cup Members(Tail(s)) \subseteq Members(s)
  <2>1. 1 \in 1..Len(s) /\ \A i \in 1..(Len(s) - 1) : i + 1 \in 1..Len(s)
    BY <1>1
  <2> QED BY <1>1, <1>2, <2>1 DEF Members
<1> QED BY <1>1, <1>4, <1>5

LEMMA ConcatMembers ==
    ASSUME NEW s \in Seq(STRING), NEW t \in Seq(STRING)
    PROVE  /\ s \o t \in Seq(STRING)
           /\ Members(s \o t) = Members(s) \cup Members(t)
<1>1. s \o t \in Seq(STRING) /\ Len(s \o t) = Len(s) + Len(t) /\ Len(s) \in Nat /\ Len(t) \in Nat
  OBVIOUS
<1>2. \A i \in 1..Len(s) : i \in 1..Len(s \o t) /\ (s \o t)[i] = s[i]
  BY <1>1
<1>3. \A i \in 1..Len(t) : Len(s) + i \in 1..Len(s \o t) /\ (s \o t)[Len(s) + i] = t[i]
  BY <1>1
<1>4. \A i \in 1..Len(s \o t) :
         \/ i \in 1..Len(s) /\ (s \o t)[i] = s[i]
         \/ i - Len(s) \in 1..Len(t) /\ (s \o t)[i] = t[i - Len(s)]
  BY <1>1
<1>5. Members(s \o t) \subseteq Members(s) \cup Members(t)
  BY <1>4 DEF Members
<1>6. Members(s) \subseteq Members(s \o t) /\ Members(t) \subseteq Members(s \o t)
  BY <1>2, <1>3, Zenon DEF Members
<1> QED BY <1>1, <1>5, <1>6

\* Nothing is searched yet.
LEMMA BuildInitInv == Init => BuildInv
<1> SUFFICES ASSUME Init PROVE BuildInv
  OBVIOUS
<1>1. BuildInit /\ needs \in Graphs
  BY DEF Init
<1>2. BuildTyped
  BY <1>1, PathsAssumption DEF BuildInit, BuildTyped
<1>3. SearchInv
  BY <1>1 DEF BuildInit, SearchInv, Built
<1>4. ArchiveInv
  BY <1>1 DEF BuildInit, ArchiveInv, Built, Paths
<1> QED BY <1>2, <1>3, <1>4 DEF BuildInv

\* A step of the search that visits a name, found or visited before
LEMMA FollowInv ==
    ASSUME BuildInv, build = "search", visit # <<>>, Head(visit) \in Present, Follow(Head(visit))
    PROVE  BuildInv'
<1> DEFINE name == Head(visit)
           rest == Members(Tail(visit))
<1>1. needs \in [Files -> Seq(STRING)] /\ name \in Files /\ needs[name] \in Seq(STRING)
  BY GraphsAssumption, Zenon DEF BuildInv, BuildTyped, Files
<1>2. /\ Tail(visit) \in Seq(STRING)
      /\ Members(visit) = {name} \cup rest
      /\ needs[name] \o Tail(visit) \in Seq(STRING)
      /\ Members(needs[name] \o Tail(visit)) = Needed(name) \cup rest
  BY <1>1, TailMembers, ConcatMembers, Zenon DEF BuildInv, BuildTyped, Members, Needed
<1>3. /\ visited' = visited \cup {name} /\ fs' = fs \cup {name}
      /\ UNCHANGED <<needs, build, wanted, written, copied, torn, rc>>
      /\ visit' \in Seq(STRING)
      /\ Members(visit') = IF name \in visited THEN rest ELSE Needed(name) \cup rest
  BY <1>2, Zenon DEF Follow
<1> HIDE DEF name, rest
<1>4. BuildTyped'
  BY <1>1, <1>3 DEF BuildInv, BuildTyped
<1>5. \A f : Needed(f)' = Needed(f)
  BY <1>3 DEF Needed
<1>6. SearchInv'
  <2>1. Members(Wanted) \subseteq visited' \cup Members(visit') \cup Members(wanted)
    BY <1>2, <1>3 DEF BuildInv, SearchInv
  <2>2. \A f \in visited' : Needed(f) \subseteq visited' \cup Members(visit')
    BY <1>2, <1>3, Zenon DEF BuildInv, SearchInv
  <2> QED BY <1>3, <1>5, <2>1, <2>2 DEF SearchInv, Built
<1>7. ArchiveInv'
  BY <1>3 DEF BuildInv, ArchiveInv, Built
<1> QED BY <1>4, <1>6, <1>7 DEF BuildInv

\* The loops over what is wanted, the end of the search and a missing name
LEMMA SearchEndInv ==
    ASSUME BuildInv, NextWanted \/ VisitMissing \/ OpenOutput
    PROVE  BuildInv'
<1>1. \A f : Needed(f)' = Needed(f)
  BY Zenon DEF NextWanted, VisitMissing, OpenOutput, Needed
<1>2. ArchiveInv'
  BY DEF BuildInv, ArchiveInv, NextWanted, VisitMissing, OpenOutput, Built
<1>3. CASE NextWanted
  <2>1. /\ build = "search" /\ visit = <<>> /\ visit' = <<Head(wanted)>> /\ wanted' = Tail(wanted)
        /\ UNCHANGED <<needs, build, visited, fs, written, copied, torn, rc>>
    BY <1>3, Zenon DEF NextWanted
  <2>2. /\ wanted' \in Seq(STRING) /\ visit' \in Seq(STRING)
        /\ Members(wanted) = {Head(wanted)} \cup Members(wanted')
    BY <1>3, <2>1, TailMembers DEF NextWanted, BuildInv, BuildTyped
  <2>3. Members(visit) = {} /\ Members(visit') = {Head(wanted)}
    BY <2>1 DEF Members
  <2>4. BuildTyped'
    BY <2>1, <2>2, Zenon DEF BuildInv, BuildTyped
  <2>5. SearchInv'
    BY <1>1, <2>1, <2>2, <2>3 DEF BuildInv, SearchInv, Built
  <2> QED BY <1>2, <2>4, <2>5 DEF BuildInv
<1>4. CASE VisitMissing
  <2>1. BuildTyped'
    BY <1>4, Zenon DEF VisitMissing, BuildInv, BuildTyped
  <2>2. SearchInv'
    BY <1>4 DEF VisitMissing, SearchInv, Built
  <2> QED BY <1>2, <2>1, <2>2, Zenon DEF BuildInv
<1>5. CASE OpenOutput
  <2>1. BuildTyped'
    BY <1>5 DEF OpenOutput, BuildInv, BuildTyped
  <2>2. Members(visit) = {} /\ Members(wanted) = {}
    BY <1>5 DEF OpenOutput, Members
  <2>3. SearchInv'
    BY <1>1, <1>5, <2>2, Zenon DEF OpenOutput, BuildInv, SearchInv, Built
  <2> QED BY <1>2, <2>1, <2>3, Zenon DEF BuildInv
<1> QED BY <1>3, <1>4, <1>5, Zenon

\* Writing new directories of f, and perhaps f itself, keeps the archive in order.
LEMMA WroteFile ==
    ASSUME BuildInv, NEW f \in Files \ copied, NEW ps, Wrote(ps),
           ps \subseteq NewDirs(f) \/ ps = NewDirs(f) \cup {f}
    PROVE  /\ written' \in [Paths -> Nat]
           /\ \A p \in Paths : written'[p] <= 1
           /\ \A g \in Files \ {f} : written'[g] = written[g]
           /\ f \in ps => written'[f] = 1
           /\ \A g \in Files : written'[g] = 1 => \A d \in DirSet(g) : written'[d] = 1
           /\ written'["TRAILER!!!"] = written["TRAILER!!!"]
<1>1. /\ written \in [Paths -> Nat] /\ \A p \in Paths : written[p] <= 1
      /\ written[f] = 0
      /\ \A g \in Files : written[g] = 1 => \A d \in DirSet(g) : written[d] = 1
  BY Zenon DEF BuildInv, BuildTyped, ArchiveInv
<1>2. /\ \A g \in Files : g \in Paths /\ g \notin NewDirs(f)
                                       /\ \A d \in DirSet(g) : d \in Paths \ Files
      /\ "TRAILER!!!" \in Paths /\ "TRAILER!!!" \notin NewDirs(f) /\ "TRAILER!!!" \notin Files
      /\ NewDirs(f) \subseteq Paths /\ \A d \in NewDirs(f) : written[d] = 0
  BY PathsAssumption, Zenon DEF Paths, NewDirs
<1>3. \A d \in DirSet(f) : d \in NewDirs(f) \/ written[d] = 1
  <2>1. SUFFICES ASSUME NEW d \in DirSet(f), d \notin NewDirs(f) PROVE written[d] = 1
    OBVIOUS
  <2>2. d \in Paths
    BY <1>2, Zenon
  <2>3. PICK n \in Nat : n = written[d] /\ n <= 1
    BY <1>1, <2>2, Zenon
  <2>4. n # 0
    BY <2>1, <2>3, Zenon DEF NewDirs
  <2>5. n = 1
    BY <2>3, <2>4
  <2> QED BY <2>3, <2>5
<1>4. \A p \in Paths : written'[p] = IF p \in ps THEN 1 ELSE written[p]
  BY <1>1, <1>2 DEF Wrote
<1>5. written' \in [Paths -> Nat] /\ \A p \in Paths : written'[p] <= 1
  <2>1. written' \in [Paths -> Nat]
    BY <1>1 DEF Wrote
  <2> QED BY <1>1, <1>4, <2>1
<1>6. \A g \in Files \ {f} : g \notin ps /\ written'[g] = written[g]
  BY <1>2, <1>4, Zenon
<1>7. \A g \in Files : \A d \in DirSet(g) : written[d] = 1 => written'[d] = 1
  BY <1>2, <1>4, Zenon
<1>8. f \in ps \/ written'[f] = 0
  BY <1>1, <1>2, <1>4, Zenon
<1>9. f \in ps => \A d \in DirSet(f) : written'[d] = 1
  BY <1>2, <1>3, <1>4
<1>10. \A g \in Files : written'[g] = 1 => \A d \in DirSet(g) : written'[d] = 1
  BY <1>1, <1>6, <1>7, <1>8, <1>9
<1> QED BY <1>2, <1>4, <1>5, <1>6, <1>10, Zenon

\* The loop that writes the files keeps the invariant.
LEMMA CopyInv ==
    ASSUME BuildInv, NEW f \in Files, CopyFile(f) \/ CopyFail(f) \/ CopyTorn(f)
    PROVE  BuildInv'
<1>1. /\ build = "write" /\ f \in fs \ copied /\ copied' = copied \cup {f}
      /\ UNCHANGED <<needs, build, wanted, visit, visited, fs>>
  BY DEF CopyFile, CopyFail, CopyTorn
<1>2. written["TRAILER!!!"] = 0 /\ written[f] = 0
  BY <1>1, Zenon DEF BuildInv, ArchiveInv
<1>3. SearchInv'
  <2>1. \A g : Needed(g)' = Needed(g)
    BY <1>1, Zenon DEF Needed
  <2>2. ~Built'
    BY <1>1 DEF Built
  <2> QED BY <1>1, <2>1, <2>2, Zenon DEF BuildInv, SearchInv
<1>4. /\ written' \in [Paths -> Nat]
      /\ \A p \in Paths : written'[p] <= 1
      /\ \A g \in Files \ {f} : written'[g] = written[g]
      /\ \A g \in Files : written'[g] = 1 => \A d \in DirSet(g) : written'[d] = 1
      /\ written'["TRAILER!!!"] = written["TRAILER!!!"]
  <2>1. CASE CopyFile(f)
    BY <1>1, <2>1, WroteFile, Zenon DEF CopyFile
  <2>2. CASE CopyFail(f)
    BY <2>2, Zenon DEF CopyFail, BuildInv, BuildTyped, ArchiveInv
  <2>3. CASE CopyTorn(f)
    <3>1. PICK n \in 0..Len(Dirs[f]) : Wrote(NewDirs(f) \cap {Dirs[f][i] : i \in 1..n})
      BY <2>3, Zenon DEF CopyTorn
    <3>2. NewDirs(f) \cap {Dirs[f][i] : i \in 1..n} \subseteq NewDirs(f)
      BY Zenon
    <3> HIDE DEF NewDirs
    <3> QED BY <1>1, <3>1, <3>2, WroteFile, Zenon
  <2> QED BY <2>1, <2>2, <2>3
<1>5. rc' = 0 => rc = 0 /\ torn' = torn /\ written'[f] = 1
  <2>1. CASE CopyFile(f)
    <3>1. Wrote(NewDirs(f) \cup {f}) /\ UNCHANGED <<rc, torn>>
      BY <2>1 DEF CopyFile
    <3>2. f \in NewDirs(f) \cup {f}
      OBVIOUS
    <3>3. written'[f] = 1
      BY <1>1, <3>1, <3>2, WroteFile, Zenon
    <3> QED BY <3>1, <3>3
  <2>2. CASE CopyFail(f) \/ CopyTorn(f)
    <3>1. rc' = 11
      BY <2>2, Zenon DEF CopyFail, CopyTorn
    <3> QED BY <3>1
  <2> QED BY <2>1, <2>2
<1>6. BuildTyped'
  BY <1>1, <1>4, Zenon DEF BuildInv, BuildTyped
<1>7. ArchiveInv'
  <2>1. \A g \in Files \ copied' : written'[g] = 0
    BY <1>1, <1>4, Zenon DEF BuildInv, ArchiveInv
  <2>2. rc' = 0 => ~torn' /\ \A g \in copied' : written'[g] = 1
    BY <1>1, <1>4, <1>5 DEF BuildInv, BuildTyped, ArchiveInv
  <2> QED BY <1>1, <1>2, <1>4, <2>1, <2>2, Zenon DEF ArchiveInv, Built
<1> QED BY <1>3, <1>6, <1>7, Zenon DEF BuildInv

\* So does the end of the command.
LEMMA CloseInv ==
    ASSUME BuildInv, CloseArchive
    PROVE  BuildInv'
<1>1. /\ build = "write" /\ fs \subseteq copied /\ build' = "exit"
      /\ UNCHANGED <<needs, wanted, visit, visited, fs, copied>>
      /\ written["TRAILER!!!"] = 0
  BY DEF CloseArchive, BuildInv, ArchiveInv
<1>2. SearchInv'
  <2>1. \A g : Needed(g)' = Needed(g)
    BY <1>1, Zenon DEF Needed
  <2> QED BY <1>1, <2>1 DEF BuildInv, SearchInv
<1>3. CASE Wrote({"TRAILER!!!"}) /\ UNCHANGED <<torn, rc>>
  <2>1. /\ "TRAILER!!!" \in Paths /\ "TRAILER!!!" \notin Files
        /\ \A f \in Files : f \in Paths /\ \A d \in DirSet(f) : d \in Paths /\ d # "TRAILER!!!"
    BY PathsAssumption DEF Paths
  <2>2. /\ written' \in [Paths -> Nat] /\ written'["TRAILER!!!"] = 1
        /\ \A p \in Paths \ {"TRAILER!!!"} : written'[p] = written[p]
    BY <1>1, <1>3, <2>1 DEF Wrote, BuildInv, BuildTyped
  <2>3. BuildTyped'
    BY <1>1, <2>2, Zenon DEF BuildInv, BuildTyped
  <2>4. ArchiveInv'
    <3>1. \A p \in Paths : written'[p] <= 1
      BY <2>1, <2>2 DEF BuildInv, ArchiveInv
    <3>2. \A f \in Files : written'[f] = written[f] /\ \A d \in DirSet(f) : written'[d] = written[d]
      BY <2>1, <2>2, Zenon
    <3>3. /\ \A f \in Files \ copied' : written'[f] = 0
          /\ \A f \in Files : written'[f] = 1 => \A d \in DirSet(f) : written'[d] = 1
      BY <1>1, <3>2, Zenon DEF BuildInv, ArchiveInv
    <3>4. rc' = 0 => ~torn' /\ \A f \in copied' : written'[f] = 1
      BY <1>1, <1>3, <3>2 DEF BuildInv, BuildTyped, ArchiveInv
    <3> QED BY <1>1, <2>2, <3>1, <3>3, <3>4, Zenon DEF ArchiveInv, Built
  <2> QED BY <1>2, <2>3, <2>4 DEF BuildInv
<1>4. CASE torn' = TRUE /\ rc' = 11 /\ UNCHANGED written
  <2>1. BuildTyped'
    BY <1>1, <1>4, Zenon DEF BuildInv, BuildTyped
  <2>2. ArchiveInv'
    BY <1>1, <1>4 DEF BuildInv, ArchiveInv, Built
  <2> QED BY <1>2, <2>1, <2>2, Zenon DEF BuildInv
<1> QED BY <1>3, <1>4, Zenon DEF CloseArchive

LEMMA BuildStepInv == BuildInv /\ (BuildStep \/ UNCHANGED buildVars) => BuildInv'
<1>1. ASSUME BuildInv, Search \/ Add PROVE BuildInv'
  BY <1>1, FollowInv, Zenon DEF Search, Add, Tree
<1>2. ASSUME BuildInv, UNCHANGED buildVars PROVE BuildInv'
  <2>1. /\ needs' = needs /\ build' = build /\ wanted' = wanted /\ visit' = visit
        /\ visited' = visited /\ fs' = fs /\ written' = written /\ copied' = copied
        /\ torn' = torn /\ rc' = rc
    BY <1>2 DEF buildVars
  <2>2. (\A g : Needed(g)' = Needed(g)) /\ Built' = Built
    BY <2>1, Zenon DEF Needed, Built
  <2>3. BuildTyped'
    BY <1>2, <2>1, Zenon DEF BuildInv, BuildTyped
  <2>4. SearchInv'
    BY <1>2, <2>1, <2>2, Zenon DEF BuildInv, SearchInv
  <2>5. ArchiveInv'
    BY <1>2, <2>1, <2>2, Zenon DEF BuildInv, ArchiveInv
  <2> QED BY <2>3, <2>4, <2>5 DEF BuildInv
<1> QED BY <1>1, <1>2, SearchEndInv, CopyInv, CloseInv DEF BuildStep

LEMMA BuildComplete == BuildInv => ImageComplete
<1> SUFFICES ASSUME BuildInv PROVE ImageComplete
  OBVIOUS
<1>1. fs \subseteq Files
  BY Zenon DEF BuildInv, BuildTyped, Files
<1>2. \A f \in fs : written[f] = 1 => \A d \in DirSet(f) : written[d] = 1
  BY <1>1, Zenon DEF BuildInv, ArchiveInv
<1>3. ASSUME Built PROVE /\ ~torn /\ written["TRAILER!!!"] = 1
                         /\ Copied \cup {Wanted[i] : i \in 1..Len(Wanted)} \subseteq fs
                         /\ \A f \in fs : written[f] = 1 /\ (f \in visited => Needed(f) \subseteq fs)
  BY <1>3 DEF BuildInv, BuildTyped, SearchInv, ArchiveInv, Members, Built
<1> QED BY <1>2, <1>3 DEF ImageComplete, BuildInv, ArchiveInv

-----------------------------------------------------------------------------
(* The modules of the image *)

\* Each step of the machine is one of package kmod on a machine that is on, or
\* turns it on, or leaves the package alone; only a step of mkinitrd changes
\* the build.
LEMMA ModulesPart ==
    ASSUME [Next]_vars
    PROVE  \/ KmodStep /\ power = "on" /\ power' = power /\ UNCHANGED buildVars
           \/ PowerOn
           \/ (BuildStep \/ UNCHANGED buildVars) /\ UNCHANGED <<kmodVars, power>>
<1>1. ASSUME NEW i \in Interfaces, Configuring(i) PROVE UNCHANGED <<buildVars, kmodVars, power>>
  BY <1>1, Zenon DEF Configuring
<1>2. ASSUME NEW t \in Tasks, Worker(t)
      PROVE  \/ KmodStep /\ power = "on" /\ power' = power /\ UNCHANGED buildVars
             \/ UNCHANGED <<buildVars, kmodVars, power>>
  <2>1. CASE LoadDeviceModules(t)
    BY <2>1, Zenon DEF LoadDeviceModules, Running, Alive
  <2>2. CASE Wait(t) \/ Shell(t) \/ Mount(t) \/ SeedRandomGenerator(t) \/ NetworkUp(t)
    BY <2>2, Zenon DEF Wait, Shell, Mount, SeedRandomGenerator, NetworkUp, outsideTasks
  <2> QED BY <1>2, <2>1, <2>2, Zenon DEF Worker
<1>3. ASSUME NEW t \in Tasks, Reporting(t) PROVE UNCHANGED <<buildVars, kmodVars, power>>
  BY <1>3, Zenon DEF Reporting, outsideTasks
<1>4. ASSUME NEW g \in Generators, Generating(g) PROVE UNCHANGED <<buildVars, kmodVars, power>>
  BY <1>4, Zenon DEF Generating
<1>5. CASE Launching \/ Printing \/ UNCHANGED vars
  BY <1>5, Zenon DEF Launching, Printing, outsideTasks, vars
<1>6. CASE Build
  BY <1>6, Zenon DEF Build
<1> QED BY <1>1, <1>2, <1>3, <1>4, <1>5, <1>6, Zenon DEF Next

\* A stack of calls after a call, and after the last call has gone on
LEMMA LaterFrame ==
    ASSUME NEW c \in KFrames, NEW fail
    PROVE  Later(c, fail) \in KFrames
<1>1. c.next + 1 \in Nat /\ c.module \in image
  BY DEF KFrames
<1>2. (c.failed \/ fail) \in BOOLEAN
  BY Zenon
<1> QED BY <1>1, <1>2, Zenon DEF Later, KFrames

LEMMA Appended ==
    ASSUME NEW S, NEW s \in Seq(S), NEW x \in S
    PROVE  Append(s, x) \in Seq(S) /\ Append(s, x) # <<>>
<1>1. Append(s, x) \in Seq(S) /\ Len(Append(s, x)) = Len(s) + 1 /\ Len(s) \in Nat
  OBVIOUS
<1>2. Len(<<>>) = 0
  OBVIOUS
<1> QED BY <1>1, <1>2

LEMMA Replaced ==
    ASSUME NEW S, NEW s \in Seq(S), NEW n \in 1..Len(s), NEW x \in S
    PROVE  [s EXCEPT ![n] = x] \in Seq(S) /\ [s EXCEPT ![n] = x] # <<>>
<1>1. [s EXCEPT ![n] = x] \in Seq(S) /\ Len([s EXCEPT ![n] = x]) = Len(s)
  OBVIOUS
<1>2. Len(<<>>) = 0 /\ Len(s) # 0
  OBVIOUS
<1> QED BY <1>1, <1>2

\* The stack of loadPath stays a stack of modules of the image.
LEMMA KmodStackInv ==
    ASSUME ModulesInv, KmodStep
    PROVE  kpc' = "load" => kstack' \in Seq(KFrames) /\ kstack' # <<>>
<1>1. CASE KmodStart \/ WalkDevice \/ WalkEnd \/ LoadAliasEnd
  BY <1>1 DEF KmodStart, WalkDevice, WalkEnd, LoadAliasEnd
<1>2. CASE LoadAlias
  <2> SUFFICES ASSUME kpc' = "load" PROVE kstack' \in Seq(KFrames) /\ kstack' # <<>>
    OBVIOUS
  <2>1. PICK c \in KFrames : kstack' = <<c>>
    BY <1>2, Zenon DEF LoadAlias, Known, KFrames
  <2> QED BY <2>1
<1>3. ASSUME kpc = "load"
      PROVE  /\ kstack \in Seq(KFrames) /\ Len(kstack) \in Nat \ {0}
             /\ KTop \in KFrames /\ KBelow \in Seq(KFrames) /\ Len(KBelow) = Len(kstack) - 1
  <2>1. kstack \in Seq(KFrames) /\ kstack # <<>>
    BY <1>3 DEF ModulesInv
  <2>2. Len(kstack) \in Nat \ {0} /\ KTop \in KFrames
    BY <2>1 DEF KTop
  <2> QED BY <2>1, <2>2, Butlast DEF KBelow
<1>4. CASE LoadDep
  <2> DEFINE dep == deps[KTop.module][KTop.next]
             call == [module |-> dep, next |-> 1, failed |-> FALSE]
  <2>1. kpc = "load"
    BY <1>4 DEF LoadDep
  <2>2. \/ kstack' = Append(KBelow, Later(KTop, dep \notin loaded))
        \/ kstack' = Append(kstack, call) /\ dep \in image
    BY <1>4, Zenon DEF LoadDep
  <2>3. dep \in image => call \in KFrames
    BY DEF KFrames
  <2> HIDE DEF call, dep
  <2> QED BY <1>3, <2>1, <2>2, <2>3, LaterFrame, Appended, Zenon
<1>5. CASE LoadModule
  <2>1. kpc = "load" /\ \E e : LoadReturn(e)
    BY <1>5, Zenon DEF LoadModule
  <2>2. PICK e : LoadReturn(e)
    BY <2>1, Zenon
  <2>3. CASE Len(kstack) = 1
    BY <2>2, <2>3 DEF LoadReturn
  <2>4. CASE Len(kstack) # 1
    <3> DEFINE n == Len(KBelow)
    <3>1. n \in 1..Len(KBelow) /\ KBelow \in Seq(KFrames)
      BY <1>3, <2>1, <2>4
    <3>2. KBelow[n] \in KFrames
      BY <3>1
    <3>3. kstack' = [KBelow EXCEPT ![n] = Later(KBelow[n], e # "nil")]
      BY <2>2, <2>4, Zenon DEF LoadReturn
    <3> HIDE DEF n
    <3> QED BY <3>1, <3>2, <3>3, LaterFrame, Replaced, Zenon
  <2> QED BY <2>3, <2>4
<1> QED BY <1>1, <1>2, <1>4, <1>5, Zenon DEF KmodStep

\* Package kmod keeps the invariant: image and dependencies are given.
LEMMA KmodModulesInv ==
    ASSUME ModulesInv, KmodStep, power = "on", power' = power, UNCHANGED buildVars
    PROVE  ModulesInv'
<1>1. UNCHANGED <<deps, image, needs>>
  BY Zenon DEF KmodStep, KmodStart, WalkDevice, WalkEnd, LoadAlias, LoadAliasEnd, LoadDep, LoadModule,
               buildVars
<1>2. KFrames' = KFrames /\ \A m : DepSet(m)' = DepSet(m)
  BY <1>1, Zenon DEF KFrames, DepSet
<1>3. power' # "off"
  OBVIOUS
<1> QED BY <1>1, <1>2, <1>3, KmodStackInv, Zenon DEF ModulesInv

\* The image a machine starts from is closed under dependencies, because the
\* search of mkinitrd was.
LEMMA PowerOnModulesInv ==
    ASSUME ModulesInv, BuildInv, PowerOn
    PROVE  ModulesInv'
<1>1. /\ Built /\ power' = "on" /\ kpc = "idle" /\ image' = fs \cap Modules
      /\ UNCHANGED <<deps, needs, kpc, kstack>>
  BY Zenon DEF PowerOn, ModulesInv, buildVars
<1>2. \A m \in fs \cap Modules : DepSet(m) = Needed(m)
  BY Zenon DEF ModulesInv, DepSet, Needed
<1>3. \A m \in fs \cap Modules : Needed(m) \subseteq visited
  BY <1>1, GraphsAssumption, Zenon DEF BuildInv, BuildTyped, SearchInv
<1>4. \A m \in fs \cap Modules : Needed(m) \cap Files \subseteq Modules
  BY GraphsAssumption, Zenon DEF BuildInv, BuildTyped, Needed
<1>5. \A m \in fs \cap Modules : DepSet(m) \subseteq fs \cap Modules
  BY <1>2, <1>3, <1>4 DEF BuildInv, BuildTyped
<1>6. \A m : DepSet(m)' = DepSet(m)
  BY <1>1, Zenon DEF DepSet
<1>7. kpc' # "load" /\ power' # "off"
  BY <1>1
<1> QED BY <1>1, <1>5, <1>6, <1>7, Zenon DEF ModulesInv

ImageInv == BuildInv /\ ModulesInv

\* The build and the image it ends in keep the invariant.
LEMMA ImageInvStep == ImageInv /\ [Next]_vars => ImageInv'
<1> SUFFICES ASSUME ImageInv, [Next]_vars PROVE ImageInv'
  OBVIOUS
<1> USE DEF ImageInv
<1>1. CASE KmodStep /\ power = "on" /\ power' = power /\ UNCHANGED buildVars
  BY <1>1, KmodModulesInv, BuildStepInv, Zenon
<1>2. CASE PowerOn
  <2>1. UNCHANGED buildVars
    BY <1>2, Zenon DEF PowerOn
  <2> QED BY <1>2, <2>1, PowerOnModulesInv, BuildStepInv, Zenon
<1>3. CASE (BuildStep \/ UNCHANGED buildVars) /\ UNCHANGED <<kmodVars, power>>
  <2>1. UNCHANGED <<needs, deps, image, kpc, kstack, power>>
    BY <1>3, Zenon DEF BuildStep, NextWanted, Search, Add, Follow, VisitMissing, OpenOutput,
                       CloseArchive, CopyFile, CopyFail, CopyTorn, buildVars, kmodVars
  <2>2. KFrames' = KFrames /\ \A m : DepSet(m)' = DepSet(m)
    BY <2>1, Zenon DEF KFrames, DepSet
  <2>3. ModulesInv'
    BY <2>1, <2>2, Zenon DEF ModulesInv
  <2> QED BY <1>3, <2>3, BuildStepInv, Zenon
<1> QED BY <1>1, <1>2, <1>3, ModulesPart, Zenon

LEMMA ImageInitInv == Init => ImageInv
<1> SUFFICES ASSUME Init PROVE ImageInv
  OBVIOUS
<1>1. KmodInit /\ deps = [m \in Modules |-> needs[m]] /\ image = {}
  BY Zenon DEF Init
<1>2. ModulesInv
  BY <1>1 DEF KmodInit, ModulesInv
<1> QED BY <1>2, BuildInitInv DEF ImageInv

\* A build that exits with 0 has made a complete archive, whatever the
\* files, their dependencies and the failures of the loop.
THEOREM ImageIsComplete == Spec => []ImageComplete
<1>1. ImageInv => ImageComplete
  BY BuildComplete DEF ImageInv
<1> QED BY <1>1, ImageInitInv, ImageInvStep, PTL DEF Spec

\* The loader of a booted machine never misses a module of the image: what
\* mkinitrd searched at build time covers what loadPath follows.
THEOREM NoModuleMissing == Spec => []NothingMissing
<1>1. ImageInv => NothingMissing
  <2> SUFFICES ASSUME ImageInv, kpc = "load" PROVE DepSet(KTop.module) \subseteq image
    BY DEF NothingMissing
  <2>1. kstack \in Seq(KFrames) /\ kstack # <<>>
    BY DEF ImageInv, ModulesInv
  <2>2. KTop \in KFrames
    BY <2>1 DEF KTop
  <2>3. KTop.module \in image
    BY <2>2 DEF KFrames
  <2> QED BY <2>3 DEF ImageInv, ModulesInv
<1> QED BY <1>1, ImageInitInv, ImageInvStep, PTL DEF Spec
=============================================================================
