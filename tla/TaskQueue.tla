----------------------------- MODULE TaskQueue -----------------------------
(***************************************************************************)
(* initramfs/pid1/main.go and tasks.go: how init runs its tasks.  `start'  *)
(* walks the dependency tree depth first; q.Go waits for a task's          *)
(* dependencies, makes the task's channel and starts a goroutine for its   *)
(* worker; the goroutine sends the result to PrintResults and closes the   *)
(* channel if the worker returned no error.                                *)
(*                                                                         *)
(* q.tasks, the map of channels, is written under q.mu and read without    *)
(* it.  A read that overlaps a write is a data race: nothing happens, or   *)
(* the runtime ends the process.                                           *)
(***************************************************************************)
EXTENDS Sequences, Integers

CONSTANTS Tasks,       \* names of tasks
          After,       \* After[t]: the tasks t depends on, a sequence
          Targets,     \* tasks RunUntil may be called with
          ResultsSize  \* capacity of q.results, 16 in the code

ASSUME TasksAssumption ==
    /\ After \in [Tasks -> Seq(Tasks)]
    /\ Targets \subseteq Tasks
    /\ ResultsSize \in Nat \ {0}

VARIABLES
    target,   \* the parameter of RunUntil
    started,  \* tasks whose Started flag is set
    stack,    \* calls of start: tasks, and which dependency is next
    mode,     \* the launching goroutine: "start", "wait", "making", "go",
              \* "final" or "returned"
    waited,   \* the dependency q.Wait has come to
    chans,    \* q.tasks: "none", "open" or "closed"
    worker,   \* a task's goroutine: "none", "run", "send", "close", "ended"
    err,      \* err[t]: what its worker returned: "none", "nil" or "error"
    results,  \* the channel q.results
    process   \* "alive", "raced" (ended by the runtime) or "shell" (replaced
              \* by syscall.Exec)

launchVars == <<target, started, stack, mode, waited>>
workerVars == <<chans, worker, err, results>>
taskVars == <<launchVars, workerVars, process>>

Depends(t) == {After[t][i] : i \in 1..Len(After[t])}

TaskInit ==
    /\ target \in Targets
    /\ started = {}
    /\ stack = <<[task |-> target, next |-> 1]>>
    /\ mode = "start"
    /\ waited = 1
    /\ chans = [t \in Tasks |-> "none"]
    /\ worker = [t \in Tasks |-> "none"]
    /\ err = [t \in Tasks |-> "none"]
    /\ results = <<>>
    /\ process = "alive"

Top == stack[Len(stack)]

-----------------------------------------------------------------------------
(* The goroutine of RunUntil *)

\* start: the next dependency; start(dep) returns at once if it is Started
StartDep ==
    /\ process = "alive" /\ mode = "start"
    /\ Top.next <= Len(After[Top.task])
    /\ LET dep == After[Top.task][Top.next]
           here == [stack EXCEPT ![Len(stack)] = [task |-> Top.task, next |-> Top.next + 1]]
       IN stack' = IF dep \in started THEN here
                   ELSE Append(here, [task |-> dep, next |-> 1])
    /\ UNCHANGED <<target, started, mode, waited, workerVars, process>>

\* start, after its loop: Started = true and the call of q.Go
StartGo ==
    /\ process = "alive" /\ mode = "start"
    /\ Top.next > Len(After[Top.task])
    /\ started' = started \cup {Top.task}
    /\ mode' = "wait" /\ waited' = 1
    /\ UNCHANGED <<target, stack, workerVars, process>>

\* A wrong q.Wait: it comes back when the dependency's channel exists.
GoWaitOpen ==
    /\ process = "alive" /\ mode = "wait"
    /\ waited <= Len(After[Top.task])
    /\ chans[After[Top.task][waited]] # "none"
    /\ waited' = waited + 1
    /\ UNCHANGED <<target, started, stack, mode, workerVars, process>>

\* q.Wait: the dependency's channel is closed
GoWait ==
    /\ process = "alive" /\ mode = "wait"
    /\ waited <= Len(After[Top.task])
    /\ chans[After[Top.task][waited]] = "closed"
    /\ waited' = waited + 1
    /\ UNCHANGED <<target, started, stack, mode, workerVars, process>>

\* q.ch reads the map; a missing channel is about to be stored ...
GoLookup ==
    /\ process = "alive" /\ mode = "wait"
    /\ waited > Len(After[Top.task])
    /\ mode' = IF chans[Top.task] = "none" THEN "making" ELSE "go"
    /\ UNCHANGED <<target, started, stack, waited, workerVars, process>>

\* ... and is stored
GoMake ==
    /\ process = "alive" /\ mode = "making"
    /\ chans' = [chans EXCEPT ![Top.task] = "open"]
    /\ mode' = "go"
    /\ UNCHANGED <<target, started, stack, waited, worker, err, results, process>>

\* q.Go: `go q.do', unless the task is done; start returns to its caller
Go ==
    /\ process = "alive" /\ mode = "go"
    /\ worker' = IF chans[Top.task] = "closed" THEN worker
                 ELSE [worker EXCEPT ![Top.task] = "run"]
    /\ stack' = SubSeq(stack, 1, Len(stack) - 1)
    /\ mode' = IF Len(stack) = 1 THEN "final" ELSE "start"
    /\ UNCHANGED <<target, started, waited, chans, err, results, process>>

\* RunUntil: q.Wait(t)
FinalWait ==
    /\ process = "alive" /\ mode = "final"
    /\ chans[target] = "closed"
    /\ mode' = "returned"
    /\ UNCHANGED <<target, started, stack, waited, workerVars, process>>

Launch == StartDep \/ StartGo \/ GoWait \/ GoLookup \/ GoMake \/ Go \/ FinalWait

-----------------------------------------------------------------------------
(* The goroutines of the workers, and PrintResults *)

\* The worker of t returns e.
WorkerReturn(t, e) ==
    /\ process = "alive" /\ worker[t] = "run"
    /\ err' = [err EXCEPT ![t] = e]
    /\ worker' = [worker EXCEPT ![t] = "send"]
    /\ UNCHANGED <<launchVars, chans, results, process>>

\* q.results <- result{task, err}
SendResult(t) ==
    /\ process = "alive" /\ worker[t] = "send"
    /\ Len(results) < ResultsSize
    /\ results' = Append(results, t)
    /\ worker' = [worker EXCEPT ![t] = IF err[t] = "nil" THEN "close" ELSE "ended"]
    /\ UNCHANGED <<launchVars, chans, err, process>>

\* A wrong done: nobody learns of it.
DoneSilent(t) ==
    /\ process = "alive" /\ worker[t] = "close"
    /\ worker' = [worker EXCEPT ![t] = "ended"]
    /\ UNCHANGED <<launchVars, chans, err, results, process>>

\* done: q.ch reads the map, close(ch)
Done(t) ==
    /\ process = "alive" /\ worker[t] = "close"
    /\ \/ /\ chans' = [chans EXCEPT ![t] = "closed"]
          /\ worker' = [worker EXCEPT ![t] = "ended"]
          /\ process' = process
       \/ /\ mode = "making"
          /\ process' = "raced"
          /\ UNCHANGED <<chans, worker>>
    /\ UNCHANGED <<launchVars, err, results>>

\* PrintResults takes the next result and logs it
PrintResults ==
    /\ process = "alive" /\ results # <<>>
    /\ results' = Tail(results)
    /\ UNCHANGED <<launchVars, chans, worker, err, process>>

\* syscall.Exec in a worker replaces the process.
Exec(t) ==
    /\ process = "alive" /\ worker[t] = "run"
    /\ process' = "shell"
    /\ UNCHANGED <<launchVars, workerVars>>

\* The runtime finds a data race outside this package and ends the process.
Die ==
    /\ process = "alive"
    /\ process' = "raced"
    /\ UNCHANGED <<launchVars, workerVars>>

Run(t) ==
    \/ \E e \in {"nil", "error"} : WorkerReturn(t, e)
    \/ Exec(t)

Report(t) == SendResult(t) \/ Done(t)

TaskNext == Launch \/ (\E t \in Tasks : Run(t) \/ Report(t)) \/ PrintResults \/ Die

\* What the tasks do is left open here.
TaskSpec == TaskInit /\ [][TaskNext]_taskVars

-----------------------------------------------------------------------------
(* Properties *)

TaskTypeOK ==
    /\ target \in Tasks /\ started \subseteq Tasks
    /\ stack \in Seq([task : Tasks, next : Nat \ {0}])
    /\ mode \in {"start", "wait", "making", "go", "final", "returned"}
    /\ waited \in Nat
    /\ chans \in [Tasks -> {"none", "open", "closed"}]
    /\ worker \in [Tasks -> {"none", "run", "send", "close", "ended"}]
    /\ err \in [Tasks -> {"none", "nil", "error"}]
    /\ results \in Seq(Tasks)
    /\ process \in {"alive", "raced", "shell"}

\* A task's worker runs only when every task it is After has returned without
\* an error: a failed task keeps everything behind it from starting.
DependenciesFirst ==
    \A t \in Tasks : worker[t] # "none" =>
        \A d \in Depends(t) : worker[d] = "ended" /\ err[d] = "nil"

\* RunUntil returns only when the target's worker has returned without error.
TargetDone == mode = "returned" => err[target] = "nil"
=============================================================================
