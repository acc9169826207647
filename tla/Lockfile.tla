------------------------------ MODULE Lockfile ------------------------------
(***************************************************************************)
(* nbd/daemon/lockfile.go: daemons that share a cache directory.  Lock     *)
(* opens (or creates) the lock file and takes flock on what it opened;     *)
(* Close unlocks, closes and removes the file by its name.  A daemon that  *)
(* dies lets go of its lock and leaves the file.                           *)
(***************************************************************************)
EXTENDS Naturals, FiniteSets

CONSTANTS Daemons,    \* processes, each of which may run again and again
          Inodes,     \* files that may exist under the name, one at a time
          CleanExit   \* daemons that reach Close; the others are killed

ASSUME LockfileAssumption == CleanExit \subseteq Daemons /\ 0 \notin Inodes

VARIABLES
    named,   \* the inode the name leads to, 0 when there is no file
    kpc,     \* kpc[d]: "idle", "opened", "running", "unlocked" or "closed"
    opened,  \* opened[d]: the inode d has open, 0 when none
    flock    \* flock[i]: the daemons (one at most) that hold the lock of i

lockVars == <<named, kpc, opened, flock>>

LockInit ==
    /\ named = 0
    /\ kpc = [d \in Daemons |-> "idle"]
    /\ opened = [d \in Daemons |-> 0]
    /\ flock = [i \in Inodes |-> {}]

\* Inodes nobody has open and no name leads to can be used again.
Unused == Inodes \ ({named} \cup {opened[d] : d \in Daemons})

-----------------------------------------------------------------------------
\* os.OpenFile(path, os.O_WRONLY|os.O_CREATE, 0600)
LockOpen(d) ==
    /\ kpc[d] = "idle"
    /\ \/ named # 0 /\ UNCHANGED named
       \/ named = 0 /\ named' \in Unused
    /\ opened' = [opened EXCEPT ![d] = named']
    /\ kpc' = [kpc EXCEPT ![d] = "opened"]
    /\ UNCHANGED flock

\* A wrong Lock: LOCK_SH in the place of LOCK_EX.
LockShared(d) ==
    /\ kpc[d] = "opened"
    /\ flock' = [flock EXCEPT ![opened[d]] = @ \union {d}]
    /\ kpc' = [kpc EXCEPT ![d] = "running"]
    /\ UNCHANGED <<named, opened>>

\* syscall.Flock(..., LOCK_EX|LOCK_NB) succeeds ...
LockTake(d) ==
    /\ kpc[d] = "opened" /\ flock[opened[d]] = {}
    /\ flock' = [flock EXCEPT ![opened[d]] = {d}]
    /\ kpc' = [kpc EXCEPT ![d] = "running"]
    /\ UNCHANGED <<named, opened>>

\* ... or the lock is taken, and Lock returns the error.
LockFail(d) ==
    /\ kpc[d] = "opened" /\ flock[opened[d]] # {}
    /\ opened' = [opened EXCEPT ![d] = 0]
    /\ kpc' = [kpc EXCEPT ![d] = "idle"]
    /\ UNCHANGED <<named, flock>>

\* Close: LOCK_UN ...
CloseUnlock(d) ==
    /\ d \in CleanExit /\ kpc[d] = "running"
    /\ flock' = [flock EXCEPT ![opened[d]] = @ \ {d}]
    /\ kpc' = [kpc EXCEPT ![d] = "unlocked"]
    /\ UNCHANGED <<named, opened>>

\* ... l.f.Close() ...
CloseFile(d) ==
    /\ kpc[d] = "unlocked"
    /\ opened' = [opened EXCEPT ![d] = 0]
    /\ kpc' = [kpc EXCEPT ![d] = "closed"]
    /\ UNCHANGED <<named, flock>>

\* ... os.Remove(l.f.Name()), whatever the name leads to by then.
CloseRemove(d) ==
    /\ kpc[d] = "closed"
    /\ named' = 0
    /\ kpc' = [kpc EXCEPT ![d] = "idle"]
    /\ UNCHANGED <<opened, flock>>

\* The process dies; the kernel closes its files.
KillDaemon(d) ==
    /\ kpc[d] # "idle"
    /\ flock' = [i \in Inodes |-> flock[i] \ {d}]
    /\ opened' = [opened EXCEPT ![d] = 0]
    /\ kpc' = [kpc EXCEPT ![d] = "idle"]
    /\ UNCHANGED named

LockNext ==
    \E d \in Daemons :
        \/ LockOpen(d) \/ LockTake(d) \/ LockFail(d)
        \/ CloseUnlock(d) \/ CloseFile(d) \/ CloseRemove(d)
        \/ KillDaemon(d)

LockSpec == LockInit /\ [][LockNext]_lockVars

-----------------------------------------------------------------------------
(* Properties *)

\* Every variable has its type, and a daemon that runs or is about to unlock
\* holds the lock of the file it opened.
LockTypeOK ==
    /\ named \in Inodes \cup {0}
    /\ kpc \in [Daemons -> {"idle", "opened", "running", "unlocked", "closed"}]
    /\ opened \in [Daemons -> Inodes \cup {0}]
    /\ flock \in [Inodes -> SUBSET Daemons]
    /\ \A d \in Daemons : kpc[d] \in {"opened", "running", "unlocked"} <=> opened[d] # 0
    /\ \A d \in Daemons, i \in Inodes : d \in flock[i] <=> kpc[d] = "running" /\ opened[d] = i

\* "Exclusive lock on local cache directory" (daemon.go:39): one daemon runs.
DirectoryExclusive ==
    \A d, e \in Daemons : kpc[d] = "running" /\ kpc[e] = "running" => d = e

\* What Lock and Close do achieve: two daemons run at once only if one of
\* them was left with a file that has lost its name.
SharedOnlyAfterRemove ==
    \A d, e \in Daemons :
        kpc[d] = "running" /\ kpc[e] = "running" /\ d # e =>
            opened[d] # named \/ opened[e] # named
=============================================================================
