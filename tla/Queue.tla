------------------------------- MODULE Queue -------------------------------
(***************************************************************************)
(* nbd/s3/queue.go: the two-level priority queue that limits connections   *)
(* to the object store, and the way Cache.fetch (nbd/s3/cache.go) uses two *)
(* of them at once: first the process-wide globalConnectionQueue (Shared), *)
(* then the queue of the cache object, released in the opposite order.     *)
(*                                                                         *)
(* A queue is three buffered channels of the same capacity.  Nothing tells *)
(* one token from another, so a channel is its number of tokens.           *)
(***************************************************************************)
EXTENDS Naturals, FiniteSets

CONSTANTS Callers,    \* goroutines that run Cache.fetch
          Objects,    \* open cache objects, each with a queue of its own
          Shared,     \* globalConnectionQueue
          ObjectOf,   \* the cache object a caller fetches for
          Size,       \* capacity of each queue's channels
          Cancellable,\* callers whose chunk another goroutine may fetch first
          Closable    \* objects that may be closed

Queues == Objects \union {Shared}
Lanes == {"normal", "low"}

ASSUME QueueAssumption ==
    /\ IsFiniteSet(Callers)
    /\ Shared \notin Objects
    /\ ObjectOf \in [Callers -> Objects]
    /\ Size \in [Queues -> Nat \ {0}]
    /\ Closable \subseteq Objects

VARIABLES
    slots,    \* slots[q]: tokens in q.global
    normal,   \* normal[q]: tokens in q.normal
    low,      \* low[q]: tokens in q.low
    closed,   \* queues whose context is done
    pc,       \* pc[c]: the select statement the caller is at
    at,       \* at[c]: the queue that statement works on
    lane,     \* lane[c]: Acquire ("normal") or AcquireLowPriority ("low")
    ctxDone   \* callers whose own context is done

vars == <<slots, normal, low, closed, pc, at, lane, ctxDone>>

(***************************************************************************)
(* Where a caller can be.  "enter" and "claim" are the two selects of      *)
(* Acquire, "drain", "prefer" and "leave" the three of Release; in "hold"  *)
(* Acquire has returned nil and the transfer is running.                   *)
(***************************************************************************)
PCs == {"idle", "enter", "claim", "hold", "drain", "prefer", "leave"}

\* The channels count tokens, only objects' queues are ever closed (nothing
\* closes globalConnectionQueue), and callers are at selects of the code.
TypeOK ==
    /\ slots \in [Queues -> Nat]
    /\ normal \in [Queues -> Nat]
    /\ low \in [Queues -> Nat]
    /\ closed \subseteq Objects
    /\ pc \in [Callers -> PCs]
    /\ at \in [Callers -> Queues]
    /\ lane \in [Callers -> Lanes]
    /\ ctxDone \subseteq Callers

Init ==
    /\ slots = [q \in Queues |-> 0]
    /\ normal = [q \in Queues |-> 0]
    /\ low = [q \in Queues |-> 0]
    /\ closed = {}
    /\ pc = [c \in Callers |-> "idle"]
    /\ at = [c \in Callers |-> Shared]
    /\ lane = [c \in Callers |-> "normal"]
    /\ ctxDone = {}

Go(c, where) == pc' = [pc EXCEPT ![c] = where]
Put(ch, q) == [ch EXCEPT ![q] = @ + 1]
Take(ch, q) == [ch EXCEPT ![q] = @ - 1]

-----------------------------------------------------------------------------
(* Acquire and AcquireLowPriority over (Shared, object) *)

Start(c, l) ==
    /\ pc[c] = "idle"
    /\ Go(c, "enter")
    /\ at' = [at EXCEPT ![c] = Shared]
    /\ lane' = [lane EXCEPT ![c] = l]
    /\ ctxDone' = IF ObjectOf[c] \in closed THEN ctxDone \union {c} ELSE ctxDone
    /\ UNCHANGED <<slots, normal, low, closed>>

\* First select: a token into the lane of the caller's priority.
EnterNormal(c) ==
    /\ pc[c] = "enter" /\ lane[c] = "normal"
    /\ normal[at[c]] < Size[at[c]]
    /\ normal' = Put(normal, at[c])
    /\ Go(c, "claim")
    /\ UNCHANGED <<slots, low, closed, at, lane, ctxDone>>

EnterLow(c) ==
    /\ pc[c] = "enter" /\ lane[c] = "low"
    /\ low[at[c]] < Size[at[c]]
    /\ low' = Put(low, at[c])
    /\ Go(c, "claim")
    /\ UNCHANGED <<slots, normal, closed, at, lane, ctxDone>>

\* A wrong Claim: the semaphore has room for one caller too many.
ClaimOneMore(c) ==
    /\ pc[c] = "claim"
    /\ slots[at[c]] <= Size[at[c]]
    /\ slots' = Put(slots, at[c])
    /\ IF at[c] = Shared
       THEN Go(c, "enter") /\ at' = [at EXCEPT ![c] = ObjectOf[c]]
       ELSE Go(c, "hold") /\ UNCHANGED at
    /\ UNCHANGED <<normal, low, closed, lane, ctxDone>>

\* Second select: a token into q.global.  The multi-queue Acquire goes on
\* to the next queue, or returns nil after the last one.
Claim(c) ==
    /\ pc[c] = "claim"
    /\ slots[at[c]] < Size[at[c]]
    /\ slots' = Put(slots, at[c])
    /\ IF at[c] = Shared
       THEN Go(c, "enter") /\ at' = [at EXCEPT ![c] = ObjectOf[c]]
       ELSE Go(c, "hold") /\ UNCHANGED at
    /\ UNCHANGED <<normal, low, closed, lane, ctxDone>>

\* A wrong end: the queue that could not be acquired is released as well.
GiveUpAndReleaseAll(c) ==
    /\ pc[c] \in {"enter", "claim"}
    /\ c \in ctxDone \/ at[c] \in closed
    /\ IF at[c] = Shared
       THEN Go(c, "idle") /\ ctxDone' = ctxDone \ {c}
       ELSE Go(c, "drain") /\ UNCHANGED ctxDone
    /\ UNCHANGED <<slots, normal, low, closed, at, lane>>

\* Either select may notice a finished context instead, even when a token
\* could be sent.  Acquire returns the cause; a token already in the lane
\* stays there.  The multi-queue Acquire then releases the queues it has.
GiveUp(c) ==
    /\ pc[c] \in {"enter", "claim"}
    /\ c \in ctxDone \/ at[c] \in closed
    /\ IF at[c] = Shared
       THEN Go(c, "idle") /\ UNCHANGED at
            /\ ctxDone' = ctxDone \ {c}
       ELSE Go(c, "drain") /\ at' = [at EXCEPT ![c] = Shared]
            /\ UNCHANGED ctxDone
    /\ UNCHANGED <<slots, normal, low, closed, lane>>

-----------------------------------------------------------------------------
(* Release(object, Shared) *)

\* The transfer is over: fetch's deferred Release starts on the object's queue.
Finish(c) ==
    /\ pc[c] = "hold"
    /\ Go(c, "drain")
    /\ UNCHANGED <<slots, normal, low, closed, at, lane, ctxDone>>

\* Release of at[c] has returned: the Shared queue is next, then fetch ends.
Released(c) ==
    IF at[c] = Shared
    THEN Go(c, "idle") /\ UNCHANGED at /\ ctxDone' = ctxDone \ {c}
    ELSE Go(c, "drain") /\ at' = [at EXCEPT ![c] = Shared]
         /\ UNCHANGED ctxDone

Drain(c) ==
    /\ pc[c] = "drain"
    /\ slots[at[c]] > 0
    /\ slots' = Take(slots, at[c])
    /\ Go(c, "prefer")
    /\ UNCHANGED <<normal, low, closed, at, lane, ctxDone>>

\* A wrong preference: the low lane moves first.
PreferLow(c) ==
    /\ pc[c] = "prefer"
    /\ IF low[at[c]] > 0
       THEN low' = Take(low, at[c]) /\ Released(c)
       ELSE Go(c, "leave") /\ UNCHANGED <<low, at, ctxDone>>
    /\ UNCHANGED <<slots, normal, closed, lane>>

\* The select with a default: a token of the normal lane if there is one.
PreferNormal(c) ==
    /\ pc[c] = "prefer"
    /\ IF normal[at[c]] > 0
       THEN normal' = Take(normal, at[c]) /\ Released(c)
       ELSE Go(c, "leave") /\ UNCHANGED <<normal, at, ctxDone>>
    /\ UNCHANGED <<slots, low, closed, lane>>

LeaveNormal(c) ==
    /\ pc[c] = "leave"
    /\ normal[at[c]] > 0
    /\ normal' = Take(normal, at[c])
    /\ Released(c)
    /\ UNCHANGED <<slots, low, closed, lane>>

LeaveLow(c) ==
    /\ pc[c] = "leave"
    /\ low[at[c]] > 0
    /\ low' = Take(low, at[c])
    /\ Released(c)
    /\ UNCHANGED <<slots, normal, closed, lane>>

\* The two blocking selects of Release return early on a closed queue.
ReleaseClosed(c) ==
    /\ pc[c] \in {"drain", "leave"}
    /\ at[c] \in closed
    /\ Released(c)
    /\ UNCHANGED <<slots, normal, low, closed, lane>>

-----------------------------------------------------------------------------
(* Contexts *)

\* fetch's context ends because the chunk was fetched elsewhere.  Only the
\* selects of Acquire look at it; a transfer it cuts short is a Finish.
Cancel(c) ==
    /\ c \in Cancellable \ ctxDone
    /\ pc[c] \in {"enter", "claim"}
    /\ ctxDone' = ctxDone \union {c}
    /\ UNCHANGED <<slots, normal, low, closed, pc, at, lane>>

\* Cache.Close: the cache's context is the parent of its queue's and of the
\* contexts of all its fetches.  Nothing closes globalConnectionQueue.
Close(o) ==
    /\ o \in Closable \ closed
    /\ closed' = closed \union {o}
    /\ ctxDone' = ctxDone \union {c \in Callers : ObjectOf[c] = o /\ pc[c] # "idle"}
    /\ UNCHANGED <<slots, normal, low, pc, at, lane>>

-----------------------------------------------------------------------------
Acquiring(c) == EnterNormal(c) \/ EnterLow(c) \/ Claim(c) \/ GiveUp(c)

Releasing(c) ==
    \/ Drain(c) \/ PreferNormal(c) \/ LeaveNormal(c) \/ LeaveLow(c)
    \/ ReleaseClosed(c)

Next ==
    \/ \E c \in Callers :
          \/ \E l \in Lanes : Start(c, l)
          \/ Acquiring(c)
          \/ Finish(c)
          \/ Releasing(c)
          \/ Cancel(c)
    \/ \E o \in Objects : Close(o)

Spec == Init /\ [][Next]_vars

\* Blocked senders of a Go channel are served in order, hence strong
\* fairness for the sends; a transfer ends, and Release runs to its end.
Fairness ==
    \A c \in Callers :
        /\ SF_vars(EnterNormal(c)) /\ SF_vars(EnterLow(c)) /\ SF_vars(Claim(c))
        /\ WF_vars(GiveUp(c)) /\ WF_vars(Finish(c)) /\ WF_vars(Releasing(c))

FairSpec == Spec /\ Fairness

-----------------------------------------------------------------------------
(* Properties *)

\* c has a token of its own in q.global: Acquire of q has returned nil and
\* Release of q has not taken the token back.
OwnsSlot(c, q) ==
    \/ at[c] = q /\ pc[c] \in {"hold", "drain"}
    \/ q = Shared /\ at[c] # Shared

\* c has sent a token into a lane of q that its Release has to take back.
OwesLane(c, q) ==
    \/ at[c] = q /\ pc[c] \in {"claim", "hold", "drain", "prefer", "leave"}
    \/ q = Shared /\ at[c] # Shared

SlotOwners(q) == {c \in Callers : OwnsSlot(c, q)}
LaneOwers(q) == {c \in Callers : OwesLane(c, q)}

\* The semaphore counts exactly the callers between Acquire and Release, in
\* every queue that is not closed, whatever was cancelled in between; a
\* closed queue may keep more tokens, never fewer.
SlotsExact ==
    \A q \in Queues :
        /\ slots[q] >= Cardinality(SlotOwners(q))
        /\ q \notin closed => slots[q] = Cardinality(SlotOwners(q))

\* Tokens of the lanes are anonymous and Release prefers the normal lane, so
\* a caller often takes back another one's token.  There is still one token
\* left for everyone who has to take one.
LanesCoverOwers ==
    \A q \in Queues : normal[q] + low[q] >= Cardinality(LaneOwers(q))

\* "Calling Release() without previously calling Acquire() ... will result
\* in dead lock" (queue.go:46): after an Acquire it never does, not even
\* the Release of a half-done multi-queue Acquire.
ReleaseNeverBlocks ==
    \A c \in Callers :
        /\ pc[c] = "drain" => slots[at[c]] > 0
        /\ pc[c] = "leave" => normal[at[c]] + low[at[c]] > 0

Transfers(o) == {c \in Callers : pc[c] = "hold" /\ ObjectOf[c] = o}
AllTransfers == {c \in Callers : pc[c] = "hold"}

\* connLimitPerObject and connLimitGlobal (queue.go:69): the transfers in
\* progress are limited per object and over all objects.
ConnectionLimit ==
    /\ \A o \in Objects : Cardinality(Transfers(o)) <= Size[o]
    /\ Cardinality(AllTransfers) <= Size[Shared]

\* An Acquire of normal priority returns, however many callers compete for
\* the two queues, if no context ends while its owner waits.
AcquireReturns ==
    \A c \in Callers :
        (pc[c] = "enter" /\ lane[c] = "normal") ~> (pc[c] = "hold")
=============================================================================
