-------------------------------- MODULE Rand --------------------------------
(***************************************************************************)
(* initramfs/pid1/do_random.go and initramfs/rand/seed.go: the task that   *)
(* seeds the kernel's generator.  Goroutines measure the jitter of timers  *)
(* and offer it on an unbuffered channel; Seed takes what it needs and     *)
(* cancels them.  Of a number only matters whether it is zero, and whether *)
(* it is large enough for Seed to take bits from it.                       *)
(***************************************************************************)
EXTENDS Naturals

CONSTANTS Generators,  \* goroutines of Seed, 48 in the code
          Chunks       \* half bytes Seed collects, 1024 in the code

ASSUME RandAssumption == Chunks \in Nat \ {0}

VARIABLES
    seed,    \* seedRandomGenerator: "idle", "open", "seeding", "ioctl", "returned"
    serr,    \* what it returned
    chunks,  \* half bytes collected
    gen      \* gen[g]: "none", "sleep", "ended", or the number it offers

randVars == <<seed, serr, chunks, gen>>

RandInit ==
    /\ seed = "idle"
    /\ serr = "none"
    /\ chunks = 0
    /\ gen = [g \in Generators |-> "none"]

SeedStart ==
    /\ seed = "idle"
    /\ seed' = "open"
    /\ UNCHANGED <<serr, chunks, gen>>

\* /dev/urandom opens and Seed starts its goroutines, or it does not open
SeedOpen ==
    /\ seed = "open"
    /\ \/ /\ seed' = "seeding"
          /\ gen' = [g \in Generators |-> "sleep"]
          /\ UNCHANGED serr
       \/ /\ seed' = "returned" /\ serr' = "error"
          /\ UNCHANGED gen
    /\ UNCHANGED chunks

\* nanoGenerator: the timer fires; an exact one is not offered
Generate(g) ==
    /\ gen[g] = "sleep"
    /\ gen' = [gen EXCEPT ![g] = "some"]
    /\ UNCHANGED <<seed, serr, chunks>>

\* Seed receives a number that is large enough, ...
ReceiveLarge(g) ==
    /\ seed = "seeding" /\ gen[g] = "some"
    /\ gen' = [gen EXCEPT ![g] = "sleep"]
    /\ chunks' = chunks + 1
    /\ seed' = IF chunks' = Chunks THEN "ioctl" ELSE seed
    /\ UNCHANGED serr

\* ... one that is too small, or zero, whose trailing zeroes it drops for ever
ReceiveSmall(g) ==
    /\ seed = "seeding" /\ gen[g] \in {"zero", "some"}
    /\ gen' = [gen EXCEPT ![g] = "sleep"]
    /\ seed' = IF gen[g] = "zero" THEN "spinning" ELSE seed
    /\ UNCHANGED <<serr, chunks>>

\* Wrong ends of a generator: it looks at the context only while it sleeps.
CancelledAsleep(g) ==
    /\ seed \in {"ioctl", "returned"}
    /\ gen[g] = "sleep"
    /\ gen' = [gen EXCEPT ![g] = "ended"]
    /\ UNCHANGED <<seed, serr, chunks>>

\* Both selects of a generator see that Seed has returned
Cancelled(g) ==
    /\ seed \in {"ioctl", "returned"}
    /\ gen[g] \in {"sleep", "zero", "some"}
    /\ gen' = [gen EXCEPT ![g] = "ended"]
    /\ UNCHANGED <<seed, serr, chunks>>

\* RNDADDENTROPY
SeedIoctl ==
    /\ seed = "ioctl"
    /\ seed' = "returned"
    /\ serr' \in {"nil", "error"}
    /\ UNCHANGED <<chunks, gen>>

Generator(g) == Generate(g) \/ Cancelled(g)
SeedStep ==
    \/ SeedStart \/ SeedOpen \/ SeedIoctl
    \/ \E g \in Generators : ReceiveLarge(g) \/ ReceiveSmall(g)
=============================================================================
