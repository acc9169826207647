-------------------------------- MODULE Boot --------------------------------
(***************************************************************************)
(* A machine boots from an image mkinitrd has built: initramfs/pid1 runs   *)
(* the tasks of Run (module TaskQueue), among them the ones that mount     *)
(* file systems, load kernel modules (Kmod), seed the random generator     *)
(* (Rand) and bring up the network (Network).                              *)
(***************************************************************************)
EXTENDS TaskQueue, Mkinitrd, Kmod, Rand, Network, TLC

CONSTANTS Do,      \* Do[t]: what the worker of t is
          Graphs   \* dependencies of modules and libraries that are tried

\* What a module depends on is a module, if it is there at all; modules get
\* into the image only by the search.
ASSUME GraphsAssumption ==
    /\ Graphs \subseteq [Files -> Seq(STRING)]
    /\ Modules \subseteq Files \ Copied
    /\ \A g \in Graphs, m \in Modules :
          {g[m][i] : i \in 1..Len(g[m])} \cap Files \subseteq Modules

VARIABLES
    power,   \* "off" while the image is built, then "on"
    mounts   \* file systems mountDevSysProc has mounted, in order

vars == <<taskVars, buildVars, kmodVars, randVars, netVars, power, mounts>>

Init ==
    /\ needs \in Graphs
    /\ deps = [m \in Modules |-> needs[m]]
    /\ BuildInit /\ TaskInit /\ KmodInit /\ RandInit /\ NetInit
    /\ image = {}
    /\ power = "off"
    /\ mounts = <<>>

\* The command that builds the image
Build ==
    /\ BuildStep
    /\ UNCHANGED <<taskVars, kmodVars, randVars, netVars, power, mounts>>

\* The machine starts from the image
PowerOn ==
    /\ power = "off" /\ Built
    /\ power' = "on"
    /\ image' = fs \cap Modules
    /\ UNCHANGED <<taskVars, buildVars, deps, kpc, kerr, device, seen, alias, kstack,
                   loaded, kernel, nodev, randVars, netVars, mounts>>

Alive == power = "on" /\ process = "alive"
Running(t, what) == Alive /\ Do[t] = what /\ worker[t] = "run"

-----------------------------------------------------------------------------
(* Goroutines of the task queue *)

outsideTasks == <<buildVars, kmodVars, randVars, netVars, power, mounts>>

Launching == Alive /\ Launch /\ UNCHANGED outsideTasks
Reporting(t) == Alive /\ Report(t) /\ UNCHANGED outsideTasks
Printing == Alive /\ PrintResults /\ UNCHANGED outsideTasks

-----------------------------------------------------------------------------
(* The workers *)

\* The dummy tasks of Run
Wait(t) ==
    /\ Running(t, "wait") /\ WorkerReturn(t, "nil")
    /\ UNCHANGED outsideTasks

\* Debug shell: Exec returns only if it fails
Shell(t) ==
    /\ Running(t, "shell")
    /\ Exec(t) \/ WorkerReturn(t, "error")
    /\ UNCHANGED outsideTasks

MountOrder == <<"proc", "sysfs", "devtmpfs">>

\* mountDevSysProc, one file system at a time; EBUSY counts as mounted
Mount(t) ==
    /\ Running(t, "mount")
    /\ IF Len(mounts) = Len(MountOrder)
       THEN WorkerReturn(t, "nil") /\ UNCHANGED mounts
       ELSE \/ /\ mounts' = Append(mounts, MountOrder[Len(mounts) + 1])
               /\ UNCHANGED taskVars
            \/ WorkerReturn(t, "error") /\ UNCHANGED mounts
    /\ UNCHANGED <<buildVars, kmodVars, randVars, netVars, power>>

LoadDeviceModules(t) ==
    /\ Running(t, "modules")
    /\ \/ KmodStep /\ UNCHANGED taskVars
       \/ kpc = "returned" /\ WorkerReturn(t, kerr) /\ UNCHANGED kmodVars
    /\ UNCHANGED <<buildVars, randVars, netVars, power, mounts>>

SeedRandomGenerator(t) ==
    /\ Running(t, "random")
    /\ \/ SeedStep /\ UNCHANGED taskVars
       \/ seed = "returned" /\ WorkerReturn(t, serr) /\ UNCHANGED randVars
    /\ UNCHANGED <<buildVars, kmodVars, netVars, power, mounts>>

NetworkUp(t) ==
    /\ Running(t, "network")
    /\ \/ NetStep /\ UNCHANGED taskVars
       \/ net = "returned" /\ WorkerReturn(t, nerr) /\ UNCHANGED netVars
    /\ UNCHANGED <<buildVars, kmodVars, randVars, power, mounts>>

Worker(t) ==
    \/ Wait(t) \/ Shell(t) \/ Mount(t)
    \/ LoadDeviceModules(t) \/ SeedRandomGenerator(t) \/ NetworkUp(t)

-----------------------------------------------------------------------------
(* Goroutines of workers, which may outlive them *)

Generating(g) ==
    /\ Alive /\ Generator(g)
    /\ UNCHANGED <<taskVars, buildVars, kmodVars, netVars, power, mounts>>

Configuring(i) ==
    /\ Alive /\ Goroutine(i)
    /\ IF netrace' = "fatal" THEN Die ELSE UNCHANGED taskVars
    /\ UNCHANGED <<buildVars, kmodVars, randVars, power, mounts>>

Next ==
    \/ \E i \in Interfaces : Configuring(i)
    \/ \E g \in Generators : Generating(g)
    \/ Launching \/ Printing
    \/ \E t \in Tasks : Reporting(t) \/ Worker(t)
    \/ PowerOn \/ Build

Spec == Init /\ [][Next]_vars

\* Timers are not off by less than 256 ns for ever.
Jitters(g) ==
    /\ ReceiveLarge(g)
    /\ \E t \in Tasks : Running(t, "random")
    /\ UNCHANGED <<taskVars, buildVars, kmodVars, netVars, power, mounts>>

\* Some goroutine that can run does.
Fairness == WF_vars(Next) /\ \A g \in Generators : SF_vars(Jitters(g))

FairSpec == Spec /\ Fairness

-----------------------------------------------------------------------------
(* Properties *)

\* An image mkinitrd built holds every module that Load asks for: the search
\* at build time follows the dependencies the loader follows at boot.
NothingMissing ==
    kpc = "load" => DepSet(KTop.module) \subseteq image

\* Every goroutine of Seed ends, the ones that offer a number nobody takes
\* included, unless the process ends first.
GeneratorsEnd ==
    \A g \in Generators : seed = "ioctl" ~> (gen[g] = "ended" \/ process # "alive")

\* A machine that is powered on reaches the shell or another target, or a
\* task reports an error, or a data race has happened.
BootEnds ==
    power = "on" ~> \/ process # "alive" \/ mode = "returned"
                    \/ netrace # "none"
                    \/ \E t \in Tasks : err[t] = "error"
=============================================================================
