---------------------------- MODULE PartsProofs -----------------------------
(***************************************************************************)
(* Proofs about three parts that share no state.                           *)
(*                                                                         *)
(* The connection queue, for any finite set of callers, any number of      *)
(* objects and any capacities: one step moves one caller, so the sets      *)
(* SlotOwners(q) and LaneOwers(q) gain or lose at most that caller (lemma  *)
(* CountMoves), and the channel counters change by the same amount, or by  *)
(* less.                                                                   *)
(*                                                                         *)
(* The copier, for any number of goroutines and chunks: a chunk is copied, *)
(* or on the list, or taken by a goroutine (Taken), and goroutines end     *)
(* only when the list is empty.                                            *)
(*                                                                         *)
(* lib/sandbox, for all commands and files and for outputs of any length:  *)
(* ResultTrue.  Two invariants are behind it.  The files of the commands   *)
(* are where the commands run, and the commands before the next one have   *)
(* succeeded (Ordered).  And Read, after each of the chunks, has got as    *)
(* far in the buffer as the chunks go; a write appends to both, and        *)
(* changes nothing in front (Kept).                                        *)
(***************************************************************************)
EXTENDS Queue, Copier, Sandbox,
        FiniteSetTheorems, SequenceTheorems, WellFoundedInduction, TLAPS

-----------------------------------------------------------------------------
(* The connection queue *)

Bit(b) == IF b THEN 1 ELSE 0

\* The places a caller can be at: always on its own route, idle only with
\* the shared queue behind it, transferring only with both queues.
OnRoute ==
    \A c \in Callers :
        /\ at[c] \in {Shared, ObjectOf[c]}
        /\ pc[c] = "idle" => at[c] = Shared
        /\ pc[c] = "hold" => at[c] = ObjectOf[c]

\* No channel holds more tokens than it has room for.
WithinCapacity == \A q \in Queues : slots[q] <= Size[q]

IndInv ==
    /\ TypeOK
    /\ OnRoute
    /\ WithinCapacity
    /\ SlotsExact
    /\ LanesCoverOwers

-----------------------------------------------------------------------------
\* A set that differs from another at most in c differs in size accordingly.
LEMMA CountOne ==
    ASSUME NEW S, NEW T, NEW c, IsFiniteSet(S), IsFiniteSet(T), S \ {c} = T \ {c}
    PROVE  Cardinality(T) = Cardinality(S) + Bit(c \in T) - Bit(c \in S)
<1>0. PICK R : R = S \ {c}
  BY Zenon
<1>1. IsFiniteSet(R) /\ Cardinality(R) \in Nat
  BY <1>0, FS_RemoveElement, FS_CardinalityType
<1>2. Cardinality(S) = Cardinality(R) + Bit(c \in S)
  <2>1. CASE c \in S
    <3>1. S = R \union {c} /\ c \notin R
      BY <1>0, <2>1
    <3>2. Cardinality(S) = Cardinality(R) + 1
      BY <1>1, <3>1, FS_AddElement
    <3> QED BY <2>1, <3>2, <1>1 DEF Bit
  <2>2. CASE c \notin S
    <3>1. S = R
      BY <1>0, <2>2
    <3> QED BY <2>2, <3>1, <1>1 DEF Bit
  <2> QED BY <2>1, <2>2
<1>3. Cardinality(T) = Cardinality(R) + Bit(c \in T)
  <2>1. CASE c \in T
    <3>1. T = R \union {c} /\ c \notin R
      BY <1>0, <2>1
    <3>2. Cardinality(T) = Cardinality(R) + 1
      BY <1>1, <3>1, FS_AddElement
    <3> QED BY <2>1, <3>2, <1>1 DEF Bit
  <2>2. CASE c \notin T
    <3>1. T = R
      BY <1>0, <2>2
    <3> QED BY <2>2, <3>1, <1>1 DEF Bit
  <2> QED BY <2>1, <2>2
<1>4. Bit(c \in S) \in Int /\ Bit(c \in T) \in Int
  BY DEF Bit
<1> QED BY <1>1, <1>2, <1>3, <1>4

\* The counted sets are finite, before and after a step.
LEMMA OwnersFinite ==
    ASSUME NEW q
    PROVE  /\ IsFiniteSet(SlotOwners(q)) /\ Cardinality(SlotOwners(q)) \in Nat
           /\ IsFiniteSet(LaneOwers(q)) /\ Cardinality(LaneOwers(q)) \in Nat
           /\ IsFiniteSet(SlotOwners(q)') /\ Cardinality(SlotOwners(q)') \in Nat
           /\ IsFiniteSet(LaneOwers(q)') /\ Cardinality(LaneOwers(q)') \in Nat
<1>1. /\ SlotOwners(q) \subseteq Callers /\ LaneOwers(q) \subseteq Callers
      /\ SlotOwners(q)' \subseteq Callers /\ LaneOwers(q)' \subseteq Callers
  BY DEF SlotOwners, LaneOwers
<1> QED BY <1>1, QueueAssumption, FS_Subset, FS_CardinalityType

\* A step of one caller changes the counts by what it changes for that caller.
LEMMA CountMoves ==
    ASSUME NEW c \in Callers, NEW q,
           \A d \in Callers \ {c} : pc'[d] = pc[d] /\ at'[d] = at[d]
    PROVE  /\ Cardinality(SlotOwners(q)') =
                Cardinality(SlotOwners(q)) + Bit(OwnsSlot(c, q)') - Bit(OwnsSlot(c, q))
           /\ Cardinality(LaneOwers(q)') =
                Cardinality(LaneOwers(q)) + Bit(OwesLane(c, q)') - Bit(OwesLane(c, q))
<1>1. /\ SlotOwners(q)' \ {c} = SlotOwners(q) \ {c}
      /\ LaneOwers(q)' \ {c} = LaneOwers(q) \ {c}
  BY DEF SlotOwners, LaneOwers, OwnsSlot, OwesLane
<1>2. /\ Cardinality(SlotOwners(q)') =
           Cardinality(SlotOwners(q)) + Bit(c \in SlotOwners(q)') - Bit(c \in SlotOwners(q))
      /\ Cardinality(LaneOwers(q)') =
           Cardinality(LaneOwers(q)) + Bit(c \in LaneOwers(q)') - Bit(c \in LaneOwers(q))
  BY <1>1, CountOne, OwnersFinite
<1>3. /\ (c \in SlotOwners(q)') <=> OwnsSlot(c, q)'
      /\ (c \in SlotOwners(q)) <=> OwnsSlot(c, q)
      /\ (c \in LaneOwers(q)') <=> OwesLane(c, q)'
      /\ (c \in LaneOwers(q)) <=> OwesLane(c, q)
  BY DEF SlotOwners, LaneOwers
<1> QED BY <1>2, <1>3 DEF Bit

-----------------------------------------------------------------------------
(* One lemma per action *)

LEMMA StartPreserves ==
    ASSUME IndInv, NEW c \in Callers, NEW l \in Lanes, Start(c, l)
    PROVE  IndInv'
<1> USE QueueAssumption DEF Go, Put, Take
<1>1. TypeOK' /\ OnRoute' /\ WithinCapacity'
  BY DEF IndInv, TypeOK, OnRoute, WithinCapacity, PCs, Lanes, Queues, Start
<1>2. ASSUME NEW q \in Queues
      PROVE  /\ slots'[q] >= Cardinality(SlotOwners(q)')
             /\ q \notin closed' => slots'[q] = Cardinality(SlotOwners(q)')
             /\ normal'[q] + low'[q] >= Cardinality(LaneOwers(q)')
  <2>1. \A d \in Callers \ {c} : pc'[d] = pc[d] /\ at'[d] = at[d]
    BY DEF IndInv, TypeOK, Start
  <2>2. /\ Cardinality(SlotOwners(q)') =
             Cardinality(SlotOwners(q)) + Bit(OwnsSlot(c, q)') - Bit(OwnsSlot(c, q))
        /\ Cardinality(LaneOwers(q)') =
             Cardinality(LaneOwers(q)) + Bit(OwesLane(c, q)') - Bit(OwesLane(c, q))
    BY <2>1, CountMoves
  <2> QED
    BY <2>2, OwnersFinite
    DEF IndInv, TypeOK, OnRoute, SlotsExact, LanesCoverOwers, OwnsSlot, OwesLane,
        Bit, Queues, Start
<1> QED BY <1>1, <1>2 DEF IndInv, SlotsExact, LanesCoverOwers

LEMMA EnterNormalPreserves ==
    ASSUME IndInv, NEW c \in Callers, EnterNormal(c)
    PROVE  IndInv'
<1> USE QueueAssumption DEF Go, Put, Take
<1>1. TypeOK' /\ OnRoute' /\ WithinCapacity'
  BY DEF IndInv, TypeOK, OnRoute, WithinCapacity, PCs, Lanes, Queues, EnterNormal
<1>2. ASSUME NEW q \in Queues
      PROVE  /\ slots'[q] >= Cardinality(SlotOwners(q)')
             /\ q \notin closed' => slots'[q] = Cardinality(SlotOwners(q)')
             /\ normal'[q] + low'[q] >= Cardinality(LaneOwers(q)')
  <2>1. \A d \in Callers \ {c} : pc'[d] = pc[d] /\ at'[d] = at[d]
    BY DEF IndInv, TypeOK, EnterNormal
  <2>2. /\ Cardinality(SlotOwners(q)') =
             Cardinality(SlotOwners(q)) + Bit(OwnsSlot(c, q)') - Bit(OwnsSlot(c, q))
        /\ Cardinality(LaneOwers(q)') =
             Cardinality(LaneOwers(q)) + Bit(OwesLane(c, q)') - Bit(OwesLane(c, q))
    BY <2>1, CountMoves
  <2> QED
    BY <2>2, OwnersFinite
    DEF IndInv, TypeOK, OnRoute, SlotsExact, LanesCoverOwers, OwnsSlot, OwesLane,
        Bit, Queues, EnterNormal
<1> QED BY <1>1, <1>2 DEF IndInv, SlotsExact, LanesCoverOwers

LEMMA EnterLowPreserves ==
    ASSUME IndInv, NEW c \in Callers, EnterLow(c)
    PROVE  IndInv'
<1> USE QueueAssumption DEF Go, Put, Take
<1>1. TypeOK' /\ OnRoute' /\ WithinCapacity'
  BY DEF IndInv, TypeOK, OnRoute, WithinCapacity, PCs, Lanes, Queues, EnterLow
<1>2. ASSUME NEW q \in Queues
      PROVE  /\ slots'[q] >= Cardinality(SlotOwners(q)')
             /\ q \notin closed' => slots'[q] = Cardinality(SlotOwners(q)')
             /\ normal'[q] + low'[q] >= Cardinality(LaneOwers(q)')
  <2>1. \A d \in Callers \ {c} : pc'[d] = pc[d] /\ at'[d] = at[d]
    BY DEF IndInv, TypeOK, EnterLow
  <2>2. /\ Cardinality(SlotOwners(q)') =
             Cardinality(SlotOwners(q)) + Bit(OwnsSlot(c, q)') - Bit(OwnsSlot(c, q))
        /\ Cardinality(LaneOwers(q)') =
             Cardinality(LaneOwers(q)) + Bit(OwesLane(c, q)') - Bit(OwesLane(c, q))
    BY <2>1, CountMoves
  <2> QED
    BY <2>2, OwnersFinite
    DEF IndInv, TypeOK, OnRoute, SlotsExact, LanesCoverOwers, OwnsSlot, OwesLane,
        Bit, Queues, EnterLow
<1> QED BY <1>1, <1>2 DEF IndInv, SlotsExact, LanesCoverOwers

LEMMA ClaimPreserves ==
    ASSUME IndInv, NEW c \in Callers, Claim(c)
    PROVE  IndInv'
<1> USE QueueAssumption DEF Go, Put, Take
<1>1. TypeOK' /\ OnRoute' /\ WithinCapacity'
  BY DEF IndInv, TypeOK, OnRoute, WithinCapacity, PCs, Lanes, Queues, Claim
<1>2. ASSUME NEW q \in Queues
      PROVE  /\ slots'[q] >= Cardinality(SlotOwners(q)')
             /\ q \notin closed' => slots'[q] = Cardinality(SlotOwners(q)')
             /\ normal'[q] + low'[q] >= Cardinality(LaneOwers(q)')
  <2>1. \A d \in Callers \ {c} : pc'[d] = pc[d] /\ at'[d] = at[d]
    BY DEF IndInv, TypeOK, Claim
  <2>2. /\ Cardinality(SlotOwners(q)') =
             Cardinality(SlotOwners(q)) + Bit(OwnsSlot(c, q)') - Bit(OwnsSlot(c, q))
        /\ Cardinality(LaneOwers(q)') =
             Cardinality(LaneOwers(q)) + Bit(OwesLane(c, q)') - Bit(OwesLane(c, q))
    BY <2>1, CountMoves
  <2> QED
    BY <2>2, OwnersFinite
    DEF IndInv, TypeOK, OnRoute, SlotsExact, LanesCoverOwers, OwnsSlot, OwesLane,
        Bit, Queues, Claim
<1> QED BY <1>1, <1>2 DEF IndInv, SlotsExact, LanesCoverOwers

LEMMA GiveUpPreserves ==
    ASSUME IndInv, NEW c \in Callers, GiveUp(c)
    PROVE  IndInv'
<1> USE QueueAssumption DEF Go, Put, Take
<1>1. TypeOK' /\ OnRoute' /\ WithinCapacity'
  BY DEF IndInv, TypeOK, OnRoute, WithinCapacity, PCs, Lanes, Queues, GiveUp
<1>2. ASSUME NEW q \in Queues
      PROVE  /\ slots'[q] >= Cardinality(SlotOwners(q)')
             /\ q \notin closed' => slots'[q] = Cardinality(SlotOwners(q)')
             /\ normal'[q] + low'[q] >= Cardinality(LaneOwers(q)')
  <2>1. \A d \in Callers \ {c} : pc'[d] = pc[d] /\ at'[d] = at[d]
    BY DEF IndInv, TypeOK, GiveUp
  <2>2. /\ Cardinality(SlotOwners(q)') =
             Cardinality(SlotOwners(q)) + Bit(OwnsSlot(c, q)') - Bit(OwnsSlot(c, q))
        /\ Cardinality(LaneOwers(q)') =
             Cardinality(LaneOwers(q)) + Bit(OwesLane(c, q)') - Bit(OwesLane(c, q))
    BY <2>1, CountMoves
  <2> QED
    BY <2>2, OwnersFinite
    DEF IndInv, TypeOK, OnRoute, SlotsExact, LanesCoverOwers, OwnsSlot, OwesLane,
        Bit, Queues, GiveUp
<1> QED BY <1>1, <1>2 DEF IndInv, SlotsExact, LanesCoverOwers

LEMMA FinishPreserves ==
    ASSUME IndInv, NEW c \in Callers, Finish(c)
    PROVE  IndInv'
<1> USE QueueAssumption DEF Go, Put, Take
<1>1. TypeOK' /\ OnRoute' /\ WithinCapacity'
  BY DEF IndInv, TypeOK, OnRoute, WithinCapacity, PCs, Lanes, Queues, Finish
<1>2. ASSUME NEW q \in Queues
      PROVE  /\ slots'[q] >= Cardinality(SlotOwners(q)')
             /\ q \notin closed' => slots'[q] = Cardinality(SlotOwners(q)')
             /\ normal'[q] + low'[q] >= Cardinality(LaneOwers(q)')
  <2>1. \A d \in Callers \ {c} : pc'[d] = pc[d] /\ at'[d] = at[d]
    BY DEF IndInv, TypeOK, Finish
  <2>2. /\ Cardinality(SlotOwners(q)') =
             Cardinality(SlotOwners(q)) + Bit(OwnsSlot(c, q)') - Bit(OwnsSlot(c, q))
        /\ Cardinality(LaneOwers(q)') =
             Cardinality(LaneOwers(q)) + Bit(OwesLane(c, q)') - Bit(OwesLane(c, q))
    BY <2>1, CountMoves
  <2> QED
    BY <2>2, OwnersFinite
    DEF IndInv, TypeOK, OnRoute, SlotsExact, LanesCoverOwers, OwnsSlot, OwesLane,
        Bit, Queues, Finish
<1> QED BY <1>1, <1>2 DEF IndInv, SlotsExact, LanesCoverOwers

LEMMA DrainPreserves ==
    ASSUME IndInv, NEW c \in Callers, Drain(c)
    PROVE  IndInv'
<1> USE QueueAssumption DEF Go, Put, Take
<1>1. TypeOK' /\ OnRoute' /\ WithinCapacity'
  BY DEF IndInv, TypeOK, OnRoute, WithinCapacity, PCs, Lanes, Queues, Drain
<1>2. ASSUME NEW q \in Queues
      PROVE  /\ slots'[q] >= Cardinality(SlotOwners(q)')
             /\ q \notin closed' => slots'[q] = Cardinality(SlotOwners(q)')
             /\ normal'[q] + low'[q] >= Cardinality(LaneOwers(q)')
  <2>1. \A d \in Callers \ {c} : pc'[d] = pc[d] /\ at'[d] = at[d]
    BY DEF IndInv, TypeOK, Drain
  <2>2. /\ Cardinality(SlotOwners(q)') =
             Cardinality(SlotOwners(q)) + Bit(OwnsSlot(c, q)') - Bit(OwnsSlot(c, q))
        /\ Cardinality(LaneOwers(q)') =
             Cardinality(LaneOwers(q)) + Bit(OwesLane(c, q)') - Bit(OwesLane(c, q))
    BY <2>1, CountMoves
  <2> QED
    BY <2>2, OwnersFinite
    DEF IndInv, TypeOK, OnRoute, SlotsExact, LanesCoverOwers, OwnsSlot, OwesLane,
        Bit, Queues, Drain
<1> QED BY <1>1, <1>2 DEF IndInv, SlotsExact, LanesCoverOwers

LEMMA PreferNormalPreserves ==
    ASSUME IndInv, NEW c \in Callers, PreferNormal(c)
    PROVE  IndInv'
<1> USE QueueAssumption DEF Go, Put, Take
<1>1. TypeOK' /\ OnRoute' /\ WithinCapacity'
  BY DEF IndInv, TypeOK, OnRoute, WithinCapacity, PCs, Lanes, Queues, PreferNormal, Released
<1>2. ASSUME NEW q \in Queues
      PROVE  /\ slots'[q] >= Cardinality(SlotOwners(q)')
             /\ q \notin closed' => slots'[q] = Cardinality(SlotOwners(q)')
             /\ normal'[q] + low'[q] >= Cardinality(LaneOwers(q)')
  <2>1. \A d \in Callers \ {c} : pc'[d] = pc[d] /\ at'[d] = at[d]
    BY DEF IndInv, TypeOK, PreferNormal, Released
  <2>2. /\ Cardinality(SlotOwners(q)') =
             Cardinality(SlotOwners(q)) + Bit(OwnsSlot(c, q)') - Bit(OwnsSlot(c, q))
        /\ Cardinality(LaneOwers(q)') =
             Cardinality(LaneOwers(q)) + Bit(OwesLane(c, q)') - Bit(OwesLane(c, q))
    BY <2>1, CountMoves
  <2> QED
    BY <2>2, OwnersFinite
    DEF IndInv, TypeOK, OnRoute, SlotsExact, LanesCoverOwers, OwnsSlot, OwesLane,
        Bit, Queues, PreferNormal, Released
<1> QED BY <1>1, <1>2 DEF IndInv, SlotsExact, LanesCoverOwers

LEMMA LeaveNormalPreserves ==
    ASSUME IndInv, NEW c \in Callers, LeaveNormal(c)
    PROVE  IndInv'
<1> USE QueueAssumption DEF Go, Put, Take
<1>1. TypeOK' /\ OnRoute' /\ WithinCapacity'
  BY DEF IndInv, TypeOK, OnRoute, WithinCapacity, PCs, Lanes, Queues, LeaveNormal, Released
<1>2. ASSUME NEW q \in Queues
      PROVE  /\ slots'[q] >= Cardinality(SlotOwners(q)')
             /\ q \notin closed' => slots'[q] = Cardinality(SlotOwners(q)')
             /\ normal'[q] + low'[q] >= Cardinality(LaneOwers(q)')
  <2>1. \A d \in Callers \ {c} : pc'[d] = pc[d] /\ at'[d] = at[d]
    BY DEF IndInv, TypeOK, LeaveNormal, Released
  <2>2. /\ Cardinality(SlotOwners(q)') =
             Cardinality(SlotOwners(q)) + Bit(OwnsSlot(c, q)') - Bit(OwnsSlot(c, q))
        /\ Cardinality(LaneOwers(q)') =
             Cardinality(LaneOwers(q)) + Bit(OwesLane(c, q)') - Bit(OwesLane(c, q))
    BY <2>1, CountMoves
  <2> QED
    BY <2>2, OwnersFinite
    DEF IndInv, TypeOK, OnRoute, SlotsExact, LanesCoverOwers, OwnsSlot, OwesLane,
        Bit, Queues, LeaveNormal, Released
<1> QED BY <1>1, <1>2 DEF IndInv, SlotsExact, LanesCoverOwers

LEMMA LeaveLowPreserves ==
    ASSUME IndInv, NEW c \in Callers, LeaveLow(c)
    PROVE  IndInv'
<1> USE QueueAssumption DEF Go, Put, Take
<1>1. TypeOK' /\ OnRoute' /\ WithinCapacity'
  BY DEF IndInv, TypeOK, OnRoute, WithinCapacity, PCs, Lanes, Queues, LeaveLow, Released
<1>2. ASSUME NEW q \in Queues
      PROVE  /\ slots'[q] >= Cardinality(SlotOwners(q)')
             /\ q \notin closed' => slots'[q] = Cardinality(SlotOwners(q)')
             /\ normal'[q] + low'[q] >= Cardinality(LaneOwers(q)')
  <2>1. \A d \in Callers \ {c} : pc'[d] = pc[d] /\ at'[d] = at[d]
    BY DEF IndInv, TypeOK, LeaveLow, Released
  <2>2. /\ Cardinality(SlotOwners(q)') =
             Cardinality(SlotOwners(q)) + Bit(OwnsSlot(c, q)') - Bit(OwnsSlot(c, q))
        /\ Cardinality(LaneOwers(q)') =
             Cardinality(LaneOwers(q)) + Bit(OwesLane(c, q)') - Bit(OwesLane(c, q))
    BY <2>1, CountMoves
  <2> QED
    BY <2>2, OwnersFinite
    DEF IndInv, TypeOK, OnRoute, SlotsExact, LanesCoverOwers, OwnsSlot, OwesLane,
        Bit, Queues, LeaveLow, Released
<1> QED BY <1>1, <1>2 DEF IndInv, SlotsExact, LanesCoverOwers

LEMMA ReleaseClosedPreserves ==
    ASSUME IndInv, NEW c \in Callers, ReleaseClosed(c)
    PROVE  IndInv'
<1> USE QueueAssumption DEF Go, Put, Take
<1>1. TypeOK' /\ OnRoute' /\ WithinCapacity'
  BY DEF IndInv, TypeOK, OnRoute, WithinCapacity, PCs, Lanes, Queues, ReleaseClosed, Released
<1>2. ASSUME NEW q \in Queues
      PROVE  /\ slots'[q] >= Cardinality(SlotOwners(q)')
             /\ q \notin closed' => slots'[q] = Cardinality(SlotOwners(q)')
             /\ normal'[q] + low'[q] >= Cardinality(LaneOwers(q)')
  <2>1. \A d \in Callers \ {c} : pc'[d] = pc[d] /\ at'[d] = at[d]
    BY DEF IndInv, TypeOK, ReleaseClosed, Released
  <2>2. /\ Cardinality(SlotOwners(q)') =
             Cardinality(SlotOwners(q)) + Bit(OwnsSlot(c, q)') - Bit(OwnsSlot(c, q))
        /\ Cardinality(LaneOwers(q)') =
             Cardinality(LaneOwers(q)) + Bit(OwesLane(c, q)') - Bit(OwesLane(c, q))
    BY <2>1, CountMoves
  <2> QED
    BY <2>2, OwnersFinite
    DEF IndInv, TypeOK, OnRoute, SlotsExact, LanesCoverOwers, OwnsSlot, OwesLane,
        Bit, Queues, ReleaseClosed, Released
<1> QED BY <1>1, <1>2 DEF IndInv, SlotsExact, LanesCoverOwers

LEMMA CancelPreserves ==
    ASSUME IndInv, NEW c \in Callers, Cancel(c)
    PROVE  IndInv'
<1> USE QueueAssumption DEF Go, Put, Take
<1>1. TypeOK' /\ OnRoute' /\ WithinCapacity'
  BY DEF IndInv, TypeOK, OnRoute, WithinCapacity, PCs, Lanes, Queues, Cancel
<1>2. ASSUME NEW q \in Queues
      PROVE  /\ slots'[q] >= Cardinality(SlotOwners(q)')
             /\ q \notin closed' => slots'[q] = Cardinality(SlotOwners(q)')
             /\ normal'[q] + low'[q] >= Cardinality(LaneOwers(q)')
  <2>1. \A d \in Callers \ {c} : pc'[d] = pc[d] /\ at'[d] = at[d]
    BY DEF IndInv, TypeOK, Cancel
  <2>2. /\ Cardinality(SlotOwners(q)') =
             Cardinality(SlotOwners(q)) + Bit(OwnsSlot(c, q)') - Bit(OwnsSlot(c, q))
        /\ Cardinality(LaneOwers(q)') =
             Cardinality(LaneOwers(q)) + Bit(OwesLane(c, q)') - Bit(OwesLane(c, q))
    BY <2>1, CountMoves
  <2> QED
    BY <2>2, OwnersFinite
    DEF IndInv, TypeOK, OnRoute, SlotsExact, LanesCoverOwers, OwnsSlot, OwesLane,
        Bit, Queues, Cancel
<1> QED BY <1>1, <1>2 DEF IndInv, SlotsExact, LanesCoverOwers

LEMMA ClosePreserves ==
    ASSUME IndInv, NEW o \in Objects, Close(o)
    PROVE  IndInv'
<1>1. TypeOK' /\ OnRoute' /\ WithinCapacity'
  BY QueueAssumption DEF IndInv, TypeOK, OnRoute, WithinCapacity, Queues, Close
<1>2. ASSUME NEW q \in Queues
      PROVE  SlotOwners(q)' = SlotOwners(q) /\ LaneOwers(q)' = LaneOwers(q)
  BY DEF SlotOwners, LaneOwers, OwnsSlot, OwesLane, Close
<1>3. SlotsExact' /\ LanesCoverOwers'
  BY <1>2 DEF IndInv, SlotsExact, LanesCoverOwers, Close
<1> QED BY <1>1, <1>3 DEF IndInv

LEMMA StutterPreserves ==
    ASSUME IndInv, UNCHANGED vars
    PROVE  IndInv'
BY DEF IndInv, vars, TypeOK, OnRoute, WithinCapacity, SlotsExact, LanesCoverOwers,
       SlotOwners, LaneOwers, OwnsSlot, OwesLane

LEMMA InitInvariant == Init => IndInv
<1> SUFFICES ASSUME Init PROVE IndInv
  OBVIOUS
<1>1. TypeOK /\ OnRoute /\ WithinCapacity
  BY QueueAssumption DEF Init, TypeOK, OnRoute, WithinCapacity, PCs, Lanes, Queues
<1>2. \A q \in Queues : SlotOwners(q) = {} /\ LaneOwers(q) = {}
  BY DEF Init, SlotOwners, LaneOwers, OwnsSlot, OwesLane
<1>3. SlotsExact /\ LanesCoverOwers
  BY <1>2, FS_EmptySet DEF Init, SlotsExact, LanesCoverOwers
<1> QED BY <1>1, <1>3 DEF IndInv

LEMMA StepPreserves == IndInv /\ [Next]_vars => IndInv'
<1> SUFFICES ASSUME IndInv, [Next]_vars PROVE IndInv'
  OBVIOUS
<1>1. ASSUME NEW c \in Callers, NEW l \in Lanes, Start(c, l) PROVE IndInv'
  BY <1>1, StartPreserves
<1>2. ASSUME NEW c \in Callers, Acquiring(c) PROVE IndInv'
  BY <1>2, EnterNormalPreserves, EnterLowPreserves, ClaimPreserves, GiveUpPreserves
  DEF Acquiring
<1>3. ASSUME NEW c \in Callers, Finish(c) PROVE IndInv'
  BY <1>3, FinishPreserves
<1>4. ASSUME NEW c \in Callers, Releasing(c) PROVE IndInv'
  BY <1>4, DrainPreserves, PreferNormalPreserves, LeaveNormalPreserves,
     LeaveLowPreserves, ReleaseClosedPreserves
  DEF Releasing
<1>5. ASSUME NEW c \in Callers, Cancel(c) PROVE IndInv'
  BY <1>5, CancelPreserves
<1>6. ASSUME NEW o \in Objects, Close(o) PROVE IndInv'
  BY <1>6, ClosePreserves
<1>7. CASE UNCHANGED vars
  BY <1>7, StutterPreserves
<1> QED BY <1>1, <1>2, <1>3, <1>4, <1>5, <1>6, <1>7 DEF Next

-----------------------------------------------------------------------------
(* What the invariant gives *)

\* A caller that owns a slot finds one, a caller that owes a lane token
\* finds one.
LEMMA InvariantUnblocks == IndInv => ReleaseNeverBlocks
<1> SUFFICES ASSUME IndInv, NEW c \in Callers
             PROVE  /\ pc[c] = "drain" => slots[at[c]] > 0
                    /\ pc[c] = "leave" => normal[at[c]] + low[at[c]] > 0
  BY DEF ReleaseNeverBlocks
<1>1. at[c] \in Queues /\ slots[at[c]] \in Nat
      /\ normal[at[c]] \in Nat /\ low[at[c]] \in Nat
  BY DEF IndInv, TypeOK
<1>2. ASSUME NEW S, IsFiniteSet(S), c \in S PROVE Cardinality(S) > 0
  BY <1>2, FS_EmptySet, FS_CardinalityType
<1>3. pc[c] = "drain" => c \in SlotOwners(at[c])
  BY DEF SlotOwners, OwnsSlot
<1>4. pc[c] = "leave" => c \in LaneOwers(at[c])
  BY DEF LaneOwers, OwesLane
<1> QED
  BY <1>1, <1>2, <1>3, <1>4, OwnersFinite DEF IndInv, SlotsExact, LanesCoverOwers

LEMMA InvariantLimits == IndInv => ConnectionLimit
<1> SUFFICES ASSUME IndInv PROVE ConnectionLimit
  OBVIOUS
<1>1. ASSUME NEW q \in Queues, NEW S, S \subseteq SlotOwners(q)
      PROVE  Cardinality(S) <= Size[q]
  <2>1. Cardinality(S) <= Cardinality(SlotOwners(q)) /\ Cardinality(S) \in Nat
    BY <1>1, OwnersFinite, FS_Subset, FS_CardinalityType
  <2>2. Cardinality(SlotOwners(q)) <= slots[q] /\ slots[q] <= Size[q]
    BY DEF IndInv, SlotsExact, WithinCapacity
  <2>3. slots[q] \in Nat /\ Size[q] \in Nat
    BY QueueAssumption DEF IndInv, TypeOK
  <2> QED BY <2>1, <2>2, <2>3, OwnersFinite
<1>2. \A o \in Objects : Transfers(o) \subseteq SlotOwners(o)
  BY DEF IndInv, OnRoute, Transfers, SlotOwners, OwnsSlot
<1>3. AllTransfers \subseteq SlotOwners(Shared)
  BY QueueAssumption DEF IndInv, OnRoute, AllTransfers, SlotOwners, OwnsSlot
<1> QED BY <1>1, <1>2, <1>3 DEF ConnectionLimit, Queues

\* Every variable keeps its type under every step of queue.go.
THEOREM TypeCorrect == Spec => []TypeOK
<1>1. IndInv => TypeOK
  BY DEF IndInv
<1> QED BY <1>1, InitInvariant, StepPreserves, PTL DEF Spec

\* q.global counts exactly the callers between Acquire and Release, however
\* acquisitions, cancellations and closings interleave (Queue!SlotsExact).
THEOREM SlotsStayExact == Spec => []SlotsExact
<1>1. IndInv => SlotsExact
  BY DEF IndInv
<1> QED BY <1>1, InitInvariant, StepPreserves, PTL DEF Spec

\* The lanes hold a token for everyone who must take one back.
THEOREM LanesStayCovered == Spec => []LanesCoverOwers
<1>1. IndInv => LanesCoverOwers
  BY DEF IndInv
<1> QED BY <1>1, InitInvariant, StepPreserves, PTL DEF Spec

\* Release after Acquire never waits, although tokens are anonymous and a
\* caller may take back a token of the other lane (queue.go:46-66).
THEOREM ReleaseDoesNotBlock == Spec => []ReleaseNeverBlocks
BY InitInvariant, StepPreserves, InvariantUnblocks, PTL DEF Spec

\* connLimitPerObject and connLimitGlobal are never exceeded.
THEOREM LimitsHold == Spec => []ConnectionLimit
BY InitInvariant, StepPreserves, InvariantLimits, PTL DEF Spec

-----------------------------------------------------------------------------
(* The copier *)

\* A chunk is copied, or waits to be, or some goroutine has taken it.
Taken(c) ==
    \/ CellsOf(c) \subseteq dest
    \/ \E i \in 1..Len(todo) : todo[i] = c
    \/ \E w \in Workers : task[w] = c

\* A goroutine writes what the source has in the chunk it has taken, and ends
\* only when no chunk is left.
CopierTyped ==
    /\ size \in Nat /\ todo \in Seq(Nat)
    /\ task \in [Workers -> Int] /\ buf \in [Workers -> SUBSET Int]
    /\ dest \subseteq 0..size - 1
    /\ \A w \in Workers : buf[w] # {} => buf[w] = CellsOf(task[w])
    /\ \A w \in Workers : task[w] = Gone => todo = <<>>
    /\ cpc # "copy" => \A w \in Workers : task[w] = Gone

\* The comparison fails only if the source has a part of a chunk at its end.
MismatchAtEnd == exit = "mismatch" => size % CopyChunk # 0

CopyInv ==
    /\ CopierTyped
    /\ \A c \in 0..TotalChunks - 1 : Taken(c)
    /\ MismatchAtEnd

\* The shuffled list has every chunk.
LEMMA Shuffled ==
    ASSUME NEW n \in Nat, NEW q \in Bijection(1..n, 0..n - 1)
    PROVE  q \in Seq(Nat) /\ \A c \in 0..n - 1 : \E i \in 1..Len(q) : q[i] = c
<1>1. q \in [1..n -> 0..n - 1] /\ \A c \in 0..n - 1 : \E i \in 1..n : q[i] = c
  BY Zenon DEF Bijection, Injection, Surjection
<1>2. q \in [1..n -> Nat]
  BY <1>1
<1>3. q \in Seq(Nat) /\ Len(q) = n
  BY <1>2
<1> QED
  BY <1>1, <1>3

\* What the source has in whole chunks has been copied when nothing is taken.
LEMMA AllCopied ==
    ASSUME CopyInv, cpc # "copy"
    PROVE  dest = 0..size - 1 \/ size % CopyChunk # 0
<1>1. SUFFICES ASSUME size % CopyChunk = 0, NEW x \in 0..size - 1 PROVE x \in dest
  BY DEF CopyInv, CopierTyped
<1>2. PICK n \in Nat : n = size
  BY DEF CopyInv, CopierTyped
<1>3. PICK w \in Workers : TRUE
  BY CopierAssumption
<1>4. \A v \in Workers : task[v] = Gone
  BY Zenon DEF CopyInv, CopierTyped
<1>5. todo = <<>>
  BY <1>3, <1>4, Zenon DEF CopyInv, CopierTyped
<1> DEFINE c == x \div CopyChunk
<1>6. c \in 0..(n \div CopyChunk) - 1
  <2>1. n % CopyChunk = 0 /\ x \in 0..n - 1
    BY <1>1, <1>2
  <2>2. PICK b \in Nat \ {0} : b = CopyChunk
    BY CopierAssumption
  <2>3. n = (n \div b) * b /\ n \div b \in Nat
    BY <2>1, <2>2
  <2>4. x \div b \in Nat /\ (x \div b) * b <= x
    BY <2>1, <2>2
  <2>5. PICK y \in Nat, q \in Nat : y = x \div b /\ q = n \div b
    BY <2>3, <2>4
  <2>6. y * b < q * b
    <3>1. y * b <= x /\ x < n /\ n = q * b /\ x \in Nat
      BY <2>1, <2>3, <2>4, <2>5
    <3>2. y * b \in Nat /\ q * b \in Nat
      BY <2>2, <2>5
    <3> QED BY <3>1, <3>2
  <2>7. y < q
    <3>1. SUFFICES ASSUME q <= y PROVE q * b <= y * b
      BY <2>2, <2>5, <2>6, <3>1
    <3> QED BY <2>2, <2>5, <3>1
  <2> QED BY <2>2, <2>5, <2>7
<1>7. Taken(c)
  BY <1>2, <1>6 DEF CopyInv, TotalChunks
<1>8. CellsOf(c) \subseteq dest
  <2>1. c \in Nat
    BY <1>2, <1>6
  <2>2. \A v \in Workers : task[v] # c
    BY <1>4, <2>1 DEF Gone
  <2>3. 1..Len(todo) = {}
    BY <1>5
  <2> HIDE DEF c
  <2> QED BY <1>7, <2>2, <2>3, Zenon DEF Taken
<1> QED
  BY <1>1, <1>8 DEF CellsOf

\* A goroutine that has taken no chunk has no cells to write.
LEMMA NoCells ==
    ASSUME CopierTyped
    PROVE  CellsOf(Waiting) = {} /\ CellsOf(Gone) = {}
<1>1. PICK b \in Nat \ {0} : b = CopyChunk
  BY CopierAssumption
<1>2. PICK n \in Nat : n = size
  BY Zenon DEF CopierTyped
<1>3. \A x \in 0..n - 1 : x \div b \in Nat
  BY <1>1, <1>2
<1>4. Waiting \notin Nat /\ Gone \notin Nat
  BY DEF Waiting, Gone
<1> QED
  BY <1>1, <1>2, <1>3, <1>4, Zenon DEF CellsOf

\* Every step keeps the invariant.
LEMMA CopyStep ==
    ASSUME CopyInv, [CopierNext]_copyVars
    PROVE  CopyInv'
<1>1. /\ size \in Nat /\ todo \in Seq(Nat)
      /\ task \in [Workers -> Int] /\ buf \in [Workers -> SUBSET Int]
      /\ dest \subseteq 0..size - 1
      /\ \A w \in Workers : buf[w] # {} => buf[w] = CellsOf(task[w])
      /\ \A w \in Workers : task[w] = Gone => todo = <<>>
      /\ cpc # "copy" => \A w \in Workers : task[w] = Gone
  BY Zenon DEF CopyInv, CopierTyped
<1>2. (\A c \in 0..TotalChunks - 1 : Taken(c)) /\ MismatchAtEnd
  BY Zenon DEF CopyInv
<1>3. Waiting \in Int /\ Gone \in Int /\ Waiting # Gone /\ \A c \in Nat : c # Waiting /\ c # Gone
  BY DEF Waiting, Gone
<1>4. TotalChunks \in Nat
  BY <1>1, CopierAssumption DEF TotalChunks
<1>5. CASE \E w \in Workers : HandOver(w)
  <2>1. PICK w \in Workers : HandOver(w)
    BY <1>5
  <2>2. /\ exit = "none" /\ todo # <<>> /\ task[w] = Waiting
        /\ task' = [task EXCEPT ![w] = Head(todo)] /\ todo' = Tail(todo)
        /\ size' = size /\ buf' = buf /\ dest' = dest /\ cpc' = cpc /\ exit' = exit
    BY <2>1, Zenon DEF HandOver
  <2>3. Head(todo) \in Nat /\ todo' \in Seq(Nat) /\ Len(todo') = Len(todo) - 1
    BY <1>1, <2>2
  <2>4. \A i \in 1..Len(todo) : i = 1 \/ (i - 1 \in 1..Len(todo') /\ todo'[i - 1] = todo[i])
    BY <1>1, <2>2, <2>3
  <2>5. todo[1] = Head(todo)
    BY <1>1, <2>2
  <2>6. \A v \in Workers : task'[v] = IF v = w THEN Head(todo) ELSE task[v]
    BY <1>1, <2>2
  <2>7. task' \in [Workers -> Int]
    BY <1>1, <2>2, <2>3
  <2>8. \A v \in Workers : task[v] # Gone
    BY <1>1, <2>2, Zenon
  <2>9. \A v \in Workers : task'[v] # Gone
    BY <1>3, <2>3, <2>6, <2>8, Zenon
  <2>10. buf[w] = {} \/ buf[w] = CellsOf(Waiting)
    BY <1>1, <2>2, Zenon
  <2>11. CellsOf(Waiting) = {}
    BY NoCells DEF CopyInv
  <2>12. (\A v \in Workers : buf[v] # {} => buf[v] = CellsOf(task[v]))'
    BY <1>1, <2>2, <2>6, <2>10, <2>11, Zenon DEF CellsOf
  <2>13. CopierTyped'
    BY <1>1, <2>2, <2>3, <2>7, <2>8, <2>9, <2>12, Zenon DEF CopierTyped
  <2>14. ASSUME NEW c \in 0..TotalChunks' - 1 PROVE Taken(c)'
    <3>1. c \in 0..TotalChunks - 1
      BY <2>2, Zenon DEF TotalChunks
    <3>2. CASE CellsOf(c) \subseteq dest
      BY <2>2, <3>2, Zenon DEF Taken, CellsOf
    <3>3. CASE \E i \in 1..Len(todo) : todo[i] = c
      <4>1. PICK i \in 1..Len(todo) : todo[i] = c
        BY <3>3
      <4>2. CASE i = 1
        BY <2>5, <2>6, <4>1, <4>2, Zenon DEF Taken
      <4>3. CASE i # 1
        BY <2>4, <4>1, <4>3, Zenon DEF Taken
      <4> QED BY <4>2, <4>3
    <3>4. CASE \E v \in Workers : task[v] = c
      <4>1. PICK v \in Workers : task[v] = c
        BY <3>4
      <4>2. c \in Nat
        BY <1>4, <3>1
      <4>3. v # w
        BY <1>3, <2>2, <4>1, <4>2, Zenon
      <4> QED BY <2>6, <4>1, <4>3, Zenon DEF Taken
    <3> QED BY <1>2, <3>1, <3>2, <3>3, <3>4, Zenon DEF Taken
  <2>15. MismatchAtEnd'
    BY <1>2, <2>2, Zenon DEF MismatchAtEnd
  <2> QED BY <2>13, <2>14, <2>15, Zenon DEF CopyInv
<1>6. CASE \E w \in Workers : CopyRead(w)
  <2>1. PICK w \in Workers : CopyRead(w)
    BY <1>6
  <2>2. /\ buf' = [buf EXCEPT ![w] = CellsOf(task[w])]
        /\ size' = size /\ todo' = todo /\ task' = task /\ dest' = dest
        /\ cpc' = cpc /\ exit' = exit
    BY <2>1, Zenon DEF CopyRead
  <2>3. CellsOf(task[w]) \in SUBSET Int
    BY <1>1 DEF CellsOf
  <2>4. buf' \in [Workers -> SUBSET Int]
    BY <1>1, <2>2, <2>3, Zenon
  <2>5. \A v \in Workers : buf'[v] = IF v = w THEN CellsOf(task[w]) ELSE buf[v]
    BY <1>1, <2>2, Zenon
  <2>6. (\A v \in Workers : buf[v] # {} => buf[v] = CellsOf(task[v]))'
    BY <1>1, <2>2, <2>5, Zenon DEF CellsOf
  <2>7. CopierTyped'
    BY <1>1, <2>2, <2>4, <2>6, Zenon DEF CopierTyped
  <2>8. (\A c \in 0..TotalChunks - 1 : Taken(c))' /\ MismatchAtEnd'
    BY <1>2, <2>2, Zenon DEF Taken, TotalChunks, CellsOf, MismatchAtEnd
  <2> QED BY <2>7, <2>8, Zenon DEF CopyInv
<1>7. CASE \E w \in Workers : CopyWrite(w)
  <2>1. PICK w \in Workers : CopyWrite(w)
    BY <1>7
  <2>2. /\ buf[w] # {} /\ dest' = dest \union buf[w]
        /\ buf' = [buf EXCEPT ![w] = {}] /\ task' = [task EXCEPT ![w] = Waiting]
        /\ size' = size /\ todo' = todo /\ cpc' = cpc /\ exit' = exit
    BY <2>1, Zenon DEF CopyWrite
  <2>3. buf[w] = CellsOf(task[w]) /\ CellsOf(task[w]) \subseteq 0..size - 1
    BY <1>1, <2>2, Zenon DEF CellsOf
  <2>4. task[w] # Gone
    <3>1. CellsOf(Gone) = {}
      BY NoCells DEF CopyInv
    <3> QED BY <2>2, <2>3, <3>1, Zenon
  <2>5. \A v \in Workers : /\ task'[v] = IF v = w THEN Waiting ELSE task[v]
                           /\ buf'[v] = IF v = w THEN {} ELSE buf[v]
    BY <1>1, <2>2, Zenon
  <2>6. task' \in [Workers -> Int] /\ buf' \in [Workers -> SUBSET Int]
    BY <1>1, <1>3, <2>2
  <2>7. (\A v \in Workers : buf[v] # {} => buf[v] = CellsOf(task[v]))'
    BY <1>1, <2>2, <2>5, Zenon DEF CellsOf
  <2>8. dest' \subseteq 0..size' - 1
    BY <1>1, <2>2, <2>3, Zenon
  <2>9. \A v \in Workers : task'[v] = Gone => todo' = <<>>
    BY <1>1, <1>3, <2>2, <2>5, Zenon
  <2>10. cpc = "copy"
    BY <1>1, <2>4, Zenon
  <2>11. CopierTyped'
    BY <1>1, <2>2, <2>6, <2>7, <2>8, <2>9, <2>10, Zenon DEF CopierTyped
  <2>12. ASSUME NEW c \in 0..TotalChunks' - 1 PROVE Taken(c)'
    <3>1. c \in 0..TotalChunks - 1
      BY <2>2, Zenon DEF TotalChunks
    <3>2. CASE CellsOf(c) \subseteq dest \/ task[w] = c
      BY <2>2, <2>3, <3>2, Zenon DEF Taken, CellsOf
    <3>3. CASE \E i \in 1..Len(todo) : todo[i] = c
      BY <2>2, <3>3, Zenon DEF Taken
    <3>4. CASE \E v \in Workers \ {w} : task[v] = c
      BY <2>5, <3>4, Zenon DEF Taken
    <3> QED BY <1>2, <3>1, <3>2, <3>3, <3>4, Zenon DEF Taken
  <2>13. MismatchAtEnd'
    BY <1>2, <2>2, Zenon DEF MismatchAtEnd
  <2> QED BY <2>11, <2>12, <2>13, Zenon DEF CopyInv
<1>8. CASE \E w \in Workers : WorkerEnd(w)
  <2>1. PICK w \in Workers : WorkerEnd(w)
    BY <1>8
  <2>2. /\ todo = <<>> /\ task[w] = Waiting /\ task' = [task EXCEPT ![w] = Gone]
        /\ size' = size /\ todo' = todo /\ buf' = buf /\ dest' = dest
        /\ cpc' = cpc /\ exit' = exit
    BY <2>1, Zenon DEF WorkerEnd
  <2>3. \A v \in Workers : task'[v] = IF v = w THEN Gone ELSE task[v]
    BY <1>1, <2>2, Zenon
  <2>4. task' \in [Workers -> Int]
    BY <1>1, <1>3, <2>2
  <2>5. CellsOf(Waiting) = {}
    BY NoCells DEF CopyInv
  <2>6. (\A v \in Workers : buf[v] # {} => buf[v] = CellsOf(task[v]))'
    BY <1>1, <2>2, <2>3, <2>5, Zenon DEF CellsOf
  <2>7. cpc' # "copy" => \A v \in Workers : task'[v] = Gone
    BY <1>1, <2>2, <2>3, Zenon
  <2>8. CopierTyped'
    BY <1>1, <2>2, <2>4, <2>6, <2>7, Zenon DEF CopierTyped
  <2>9. ASSUME NEW c \in 0..TotalChunks' - 1 PROVE Taken(c)'
    <3>1. c \in 0..TotalChunks - 1 /\ c # Waiting
      <4>1. c \in 0..TotalChunks - 1
        BY <2>2, Zenon DEF TotalChunks
      <4>2. c \in Nat
        BY <1>4, <4>1
      <4> QED BY <1>3, <4>1, <4>2
    <3> QED BY <1>2, <2>2, <2>3, <3>1, Zenon DEF Taken, CellsOf
  <2>10. MismatchAtEnd'
    BY <1>2, <2>2, Zenon DEF MismatchAtEnd
  <2> QED BY <2>8, <2>9, <2>10, Zenon DEF CopyInv
<1>9. CASE WaitForWorkers \/ Sync \/ Compare \/ Fatal \/ UNCHANGED copyVars
  <2>1. /\ size' = size /\ todo' = todo /\ task' = task /\ buf' = buf /\ dest' = dest
        /\ cpc' # "copy" => cpc # "copy" \/ \A w \in Workers : task[w] = Gone
    BY <1>9, Zenon DEF WaitForWorkers, Sync, Compare, Fatal, copyVars
  <2>2. CopierTyped'
    BY <1>1, <2>1, Zenon DEF CopierTyped, CellsOf
  <2>3. (\A c \in 0..TotalChunks - 1 : Taken(c))'
    BY <1>2, <2>1, Zenon DEF Taken, TotalChunks, CellsOf
  <2>4. CASE Compare
    <3>1. cpc = "compare" /\ exit' = IF dest = 0..size - 1 THEN "ok" ELSE "mismatch"
      BY <2>4, Zenon DEF Compare
    <3>2. dest = 0..size - 1 \/ size % CopyChunk # 0
      BY <3>1, AllCopied
    <3> QED BY <2>1, <2>2, <2>3, <3>1, <3>2, Zenon DEF CopyInv, MismatchAtEnd
  <2>5. CASE ~Compare
    <3>1. exit' = exit \/ exit' = "error"
      BY <1>9, <2>5, Zenon DEF WaitForWorkers, Sync, Fatal, copyVars
    <3> QED BY <1>2, <2>1, <2>2, <2>3, <3>1, Zenon DEF CopyInv, MismatchAtEnd
  <2> QED BY <2>4, <2>5
<1> QED
  BY <1>5, <1>6, <1>7, <1>8, <1>9, Zenon DEF CopierNext, Copying

\* chaoticp loses no chunk, for any number of goroutines and chunks in any
\* order: when wg.Wait has returned all whole chunks are copied, so that the
\* checksums differ only if the source has a part of a chunk at its end.
THEOREM NoChunkLost == CopierSpec => []MismatchAtEnd
<1>1. CopierInit => CopyInv
  <2>1. SUFFICES ASSUME CopierInit PROVE CopyInv
    OBVIOUS
  <2>2. size \in Nat /\ TotalChunks \in Nat
    BY <2>1, CopierAssumption DEF CopierInit, TotalChunks
  <2>3. todo \in Seq(Nat) /\ \A c \in 0..TotalChunks - 1 : \E i \in 1..Len(todo) : todo[i] = c
    BY <2>1, <2>2, Shuffled, Zenon DEF CopierInit
  <2>4. Waiting \in Int /\ Waiting # Gone
    BY DEF Waiting, Gone
  <2>5. CopierTyped
    BY <2>1, <2>2, <2>3, <2>4 DEF CopierInit, CopierTyped
  <2> QED BY <2>1, <2>3, <2>5, Zenon DEF CopierInit, CopyInv, Taken, MismatchAtEnd
<1>2. CopyInv /\ [CopierNext]_copyVars => CopyInv'
  BY CopyStep
<1>3. CopyInv => MismatchAtEnd
  BY DEF CopyInv
<1> QED
  BY <1>1, <1>2, <1>3, PTL DEF CopierSpec

-----------------------------------------------------------------------------
(* The sandbox *)

\* What is written to an output
Bytes == {Line(c) : c \in Commands} \union (Tags \X Nat)

Buffers == [buf : Seq(Bytes), chunks : Seq([tag : Tags, size : Nat \ {0}])]

\* r[i] is what Read has after the chunk i: where it is, and the output.
Reading(m, tag, r) ==
    /\ r[0] = [at |-> 0, out |-> <<>>]
    /\ \A i \in 1..Len(m.chunks) : r[i] = ReadChunk(m, tag, i, r[i - 1])
    /\ \A i \in 0..Len(m.chunks) : r[i].at \in 0..Len(m.buf)

\* The buffer keeps an output: Read goes through all of it, and finds out.
Kept(m, tag, out) ==
    \E r : Reading(m, tag, r) /\ r[Len(m.chunks)] = [at |-> Len(m.buf), out |-> out]

\* Both outputs of the commands are kept.
OutputsKept ==
    /\ wrote \in [Tags -> Nat] /\ said \in [Tags -> Seq(Bytes)] /\ shown \in Buffers
    /\ \A t \in Tags : Kept(shown, t, said[t])

\* The files of the commands are on the list, and those on the list are in
\* the directory, or build has yet to copy them.
InPlace ==
    /\ \A c \in Scheduled : FilesOf[c] \subseteq files
    /\ bpc = "build" => \A d \in tmpdir : files \subseteq d \union missing
    /\ bpc \in {"idle", "execute", "command"} => \A d \in tmpdir : files \subseteq d

\* The commands before the next one have succeeded.
Ordered ==
    /\ commands \in Seq(Commands) /\ next \in Nat \ {0}
    /\ bpc \in {"idle", "build"} => next = 1
    /\ bpc \in {"execute", "command"} =>
           \A i \in 1..Len(commands) : i < next => commands[i] \in done
    /\ bpc = "command" => next \in 1..Len(commands)
    /\ bpc = "returned" /\ result = "zero" => Scheduled \subseteq done

BoxInv == OutputsKept /\ InPlace /\ Ordered

-----------------------------------------------------------------------------
(* The sandbox: multiBuffer *)

\* A set of numbers has a least element.
LEMMA LeastOf ==
    ASSUME NEW T, T \subseteq Nat, T # {}
    PROVE  \E n \in T : \A m \in T : n <= m
<1>1. PICK n \in T : \A m \in T : ~(<<m, n>> \in OpToRel(<, Nat))
  BY NatLessThanWellFounded, WFMin, Zenon
<1>2. \A m \in T : ~(m < n)
  BY <1>1, Zenon DEF OpToRel
<1> QED BY <1>2

\* What the loop of Read computes
LEMMA ReadKept ==
    ASSUME NEW m \in Buffers, NEW tag, NEW out, Kept(m, tag, out)
    PROVE  Read(m, tag) = out
<1> DEFINE n == Len(m.chunks)
           zero == [at |-> 0, out |-> <<>>]
           Rec(h) == h = [i \in 0..n |-> IF i = 0 THEN zero ELSE ReadChunk(m, tag, i, h[i - 1])]
           g == CHOOSE h : Rec(h)
<1>1. n \in Nat
  BY DEF Buffers
<1>2. PICK r : /\ r[0] = zero
               /\ \A i \in 1..n : r[i] = ReadChunk(m, tag, i, r[i - 1])
               /\ r[n] = [at |-> Len(m.buf), out |-> out]
  BY Zenon DEF Kept, Reading
<1>3. Read(m, tag) = g[n].out
  BY Zenon DEF Read
<1>4. \A i \in 1..n : i \in 0..n /\ i - 1 \in 0..n /\ i # 0
  BY <1>1
<1>5. \A i \in 0..n : i = 0 \/ i \in 1..n
  BY <1>1
<1>6. 0 \in 0..n /\ n \in 0..n
  BY <1>1
<1> HIDE DEF n, zero
<1>7. Rec(g)
  <2> DEFINE h == [i \in 0..n |-> r[i]]
  <2>1. \A i \in 1..n : h[i - 1] = r[i - 1]
    BY <1>4, Zenon
  <2>2. \A i \in 0..n : r[i] = IF i = 0 THEN zero ELSE ReadChunk(m, tag, i, h[i - 1])
    BY <1>2, <1>4, <1>5, <2>1, Zenon
  <2>3. Rec(h)
    BY <2>2, Zenon
  <2> QED BY <2>3, Zenon
<1> HIDE DEF g
<1>8. \A i \in 0..n : g[i] = IF i = 0 THEN zero ELSE ReadChunk(m, tag, i, g[i - 1])
  BY <1>7, Zenon
<1> DEFINE Bad == {i \in 0..n : g[i] # r[i]}
<1>9. Bad = {}
  <2> SUFFICES ASSUME Bad # {} PROVE FALSE
    OBVIOUS
  <2>1. Bad \subseteq Nat
    BY <1>1
  <2>2. PICK i \in Bad : \A j \in Bad : i <= j
    BY <2>1, LeastOf, Zenon
  <2>3. i # 0
    BY <1>2, <1>6, <1>8, <2>2, Zenon
  <2>4. i \in 1..n /\ i - 1 \in 0..n /\ ~(i <= i - 1)
    BY <1>1, <2>2, <2>3
  <2>5. g[i - 1] = r[i - 1]
    BY <2>2, <2>4, Zenon
  <2>6. g[i] = r[i]
    BY <1>2, <1>4, <1>8, <2>4, <2>5, Zenon
  <2> QED BY <2>2, <2>6, Zenon
<1>10. g[n].out = out
  BY <1>2, <1>6, <1>9
<1> QED BY <1>3, <1>10, Zenon

\* What a write does to the buffer
LEMMA WrittenBuffer ==
    ASSUME NEW m \in Buffers, NEW tag \in Tags, NEW data \in Seq(Bytes), data # <<>>
    PROVE  LET w == Written(m, tag, data)
               n == Len(m.chunks)
           IN /\ w \in Buffers
              /\ w.buf = m.buf \o data /\ Len(w.buf) = Len(m.buf) + Len(data)
              /\ Len(w.chunks) = n + 1 /\ w.chunks[n + 1] = [tag |-> tag, size |-> Len(data)]
              /\ \A i \in 1..n : w.chunks[i] = m.chunks[i]
<1> DEFINE Chunk == [tag : Tags, size : Nat \ {0}]
           k == [tag |-> tag, size |-> Len(data)]
           w == Written(m, tag, data)
<1>1. w = [buf |-> m.buf \o data, chunks |-> Append(m.chunks, k)]
  BY Zenon DEF Written
<1>2. w.buf = m.buf \o data /\ w.chunks = Append(m.chunks, k)
  BY <1>1
<1>3. Len(data) \in Nat \ {0}
  BY EmptySeq
<1>4. k \in Chunk /\ m.buf \in Seq(Bytes) /\ m.chunks \in Seq(Chunk)
  BY <1>3 DEF Buffers
<1> HIDE DEF w, k, Chunk
<1>5. /\ Append(m.chunks, k) \in Seq(Chunk) /\ Len(Append(m.chunks, k)) = Len(m.chunks) + 1
      /\ \A i \in 1..Len(m.chunks) : Append(m.chunks, k)[i] = m.chunks[i]
      /\ Append(m.chunks, k)[Len(m.chunks) + 1] = k
  BY <1>4, AppendProperties
<1>6. m.buf \o data \in Seq(Bytes) /\ Len(m.buf \o data) = Len(m.buf) + Len(data)
  BY <1>4, ConcatProperties, Zenon
<1>7. w \in Buffers
  BY <1>1, <1>5, <1>6, Zenon DEF Buffers, Chunk
<1> QED BY <1>2, <1>5, <1>6, <1>7, Zenon DEF w, k

LEMMA WithinRange ==
    ASSUME NEW a \in Nat, NEW z \in Nat \ {0}, NEW L \in Nat, a + z \in 0..L
    PROVE  a + 1 \in 1..L /\ a + z \in 1..L
OBVIOUS

\* There is more behind the chunk i, and nothing else has changed.
MoreBehind(w, m, i) ==
    w.chunks[i] = m.chunks[i] /\ \E data \in Seq(Bytes) : w.buf = m.buf \o data

\* The chunk i is within the buffer.
Within(m, tag, i, r) ==
    r.at \in 0..Len(m.buf) /\ ReadChunk(m, tag, i, r).at \in 0..Len(m.buf)

SameChunk(w, m, tag, i, r) == ReadChunk(w, tag, i, r) = ReadChunk(m, tag, i, r)

\* A chunk that was there is read as before ...
LEMMA ChunkStays ==
    ASSUME NEW m \in Buffers, NEW i \in 1..Len(m.chunks), NEW w, MoreBehind(w, m, i),
           NEW tag, NEW r, Within(m, tag, i, r)
    PROVE  SameChunk(w, m, tag, i, r)
<1>a. PICK data \in Seq(Bytes) : w.buf = m.buf \o data
  BY Zenon DEF MoreBehind
<1>b. /\ w.chunks[i] = m.chunks[i] /\ r.at \in 0..Len(m.buf)
      /\ ReadChunk(m, tag, i, r).at \in 0..Len(m.buf)
  BY Zenon DEF MoreBehind, Within
<1>1. PICK a \in Nat, z \in Nat \ {0}, L \in Nat :
          a = r.at /\ z = m.chunks[i].size /\ L = Len(m.buf)
  <2>1. m.buf \in Seq(Bytes) /\ m.chunks \in Seq([tag : Tags, size : Nat \ {0}])
    BY DEF Buffers
  <2>2. m.chunks[i] \in [tag : Tags, size : Nat \ {0}]
    BY <2>1, ElementOfSeq, Zenon
  <2>3. m.chunks[i].size \in Nat \ {0}
    BY <2>2
  <2>4. Len(m.buf) \in Nat
    BY <2>1, LenProperties, Zenon
  <2>5. r.at \in Nat
    BY <1>b, <2>4
  <2> QED BY <2>3, <2>4, <2>5, Zenon
<1>2. a + z \in 0..L
  <2>1. ReadChunk(m, tag, i, r).at = r.at + m.chunks[i].size
    BY DEF ReadChunk
  <2> QED BY <1>1, <1>b, <2>1, Zenon
<1>3. a + 1 \in 1..L /\ a + z \in 1..L
  BY ONLY <1>1, <1>2, WithinRange, Zenon
<1>4. m.buf \in Seq(Bytes)
  BY DEF Buffers
<1>5. SubSeq(m.buf \o data, a + 1, a + z) = SubSeq(m.buf, a + 1, a + z)
  BY <1>1, <1>3, <1>4, SubSeqOfConcat1, Zenon
<1> QED BY <1>1, <1>5, <1>a, <1>b, Zenon DEF ReadChunk, SameChunk

\* ... and the one that was written is read as it was written.
LEMMA ChunkBehind ==
    ASSUME NEW s \in Seq(Bytes), NEW data \in Seq(Bytes), data # <<>>
    PROVE  SubSeq(s \o data, Len(s) + 1, Len(s) + Len(data)) = data
<1>1. Len(s) \in Nat /\ Len(data) \in Nat \ {0}
  BY EmptySeq, LenProperties, Zenon
<1>2. /\ Len(s) + 1 \in (Len(s) + 1)..(Len(s) + Len(data))
      /\ Len(s) + Len(data) \in (Len(s) + 1)..(Len(s) + Len(data))
      /\ (Len(s) + 1) - Len(s) = 1 /\ (Len(s) + Len(data)) - Len(s) = Len(data)
  BY <1>1
<1>3. SubSeq(s \o data, Len(s) + 1, Len(s) + Len(data))
      = SubSeq(data, (Len(s) + 1) - Len(s), (Len(s) + Len(data)) - Len(s))
  BY <1>2, SubSeqOfConcat2
<1> QED BY <1>2, <1>3, SubSeqFull, Zenon

\* multiBuffer.Write keeps both outputs: the data is behind that of its own
\* tag, and does not touch that of the other.
LEMMA WriteKeeps ==
    ASSUME NEW m \in Buffers, NEW tag \in Tags, NEW data \in Seq(Bytes), data # <<>>,
           NEW t \in Tags, NEW out, Kept(m, t, out)
    PROVE  Kept(Written(m, tag, data), t, IF t = tag THEN out \o data ELSE out)
<1> DEFINE n == Len(m.chunks)
           w == Written(m, tag, data)
<1>1. /\ w \in Buffers
      /\ w.buf = m.buf \o data /\ Len(w.buf) = Len(m.buf) + Len(data)
      /\ Len(w.chunks) = n + 1 /\ w.chunks[n + 1] = [tag |-> tag, size |-> Len(data)]
      /\ \A i \in 1..n : w.chunks[i] = m.chunks[i]
  BY WrittenBuffer, Zenon
<1>2. PICK r : Reading(m, t, r) /\ r[n] = [at |-> Len(m.buf), out |-> out]
  BY Zenon DEF Kept
<1>3. /\ r[0] = [at |-> 0, out |-> <<>>]
      /\ \A i \in 1..n : r[i] = ReadChunk(m, t, i, r[i - 1])
      /\ \A i \in 0..n : r[i].at \in 0..Len(m.buf)
  BY <1>2, Zenon DEF Reading
<1>4. n \in Nat /\ Len(m.buf) \in Nat /\ Len(data) \in Nat /\ m.buf \in Seq(Bytes)
  BY DEF Buffers
<1> DEFINE last == [at |-> Len(w.buf), out |-> IF t = tag THEN out \o data ELSE out]
           q == [i \in 0..(n + 1) |-> IF i = n + 1 THEN last ELSE r[i]]
<1> HIDE DEF n, w, last
<1>5. /\ 0 \in 0..(n + 1) /\ 0 # n + 1 /\ n + 1 \in 0..(n + 1)
      /\ \A i \in 1..(n + 1) : i - 1 \in 0..(n + 1) /\ i - 1 # n + 1 /\ i - 1 \in 0..n
      /\ \A i \in 1..n : i \in 0..(n + 1) /\ i # n + 1 /\ i \in 0..n /\ i \in 1..(n + 1)
      /\ \A i \in 0..n : i \in 0..(n + 1) /\ i # n + 1
      /\ \A i \in 1..(n + 1) : i = n + 1 \/ i \in 1..n
      /\ \A i \in 0..(n + 1) : i = n + 1 \/ i \in 0..n
      /\ (n + 1) - 1 = n /\ n \in 0..n
  BY <1>4
<1>6. q[n + 1] = last /\ \A i \in 0..n : q[i] = r[i]
  BY <1>5, Zenon
<1> HIDE DEF q
<1>7. last = ReadChunk(w, t, n + 1, r[n])
  <2>1. r[n].at = Len(m.buf) /\ r[n].out = out
    BY <1>2
  <2>2. w.chunks[n + 1].tag = tag /\ w.chunks[n + 1].size = Len(data)
    BY <1>1
  <2>3. SubSeq(w.buf, Len(m.buf) + 1, Len(m.buf) + Len(data)) = data
    BY <1>1, <1>4, ChunkBehind, Zenon
  <2>4. ReadChunk(w, t, n + 1, r[n])
        = [at |-> Len(m.buf) + Len(data),
           out |-> IF tag = t THEN out \o SubSeq(w.buf, Len(m.buf) + 1, Len(m.buf) + Len(data))
                   ELSE out]
    BY <2>1, <2>2, Zenon DEF ReadChunk
  <2> QED BY <1>1, <2>3, <2>4, Zenon DEF last
<1>8. \A i \in 1..n : q[i] = ReadChunk(w, t, i, q[i - 1])
  <2> SUFFICES ASSUME NEW i \in 1..n PROVE q[i] = ReadChunk(w, t, i, q[i - 1])
    OBVIOUS
  <2>1. i - 1 \in 0..n /\ i \in 0..n
    BY <1>5, Zenon
  <2>2. r[i] = ReadChunk(m, t, i, r[i - 1]) /\ r[i].at \in 0..Len(m.buf) /\ r[i - 1].at \in 0..Len(m.buf)
    BY <1>3, <2>1, Zenon
  <2>3. ReadChunk(w, t, i, r[i - 1]) = ReadChunk(m, t, i, r[i - 1])
    <3>1. PICK p : p = r[i - 1]
      OBVIOUS
    <3>2. i \in 1..Len(m.chunks) /\ MoreBehind(w, m, i)
      BY <1>1, Zenon DEF n, MoreBehind
    <3>3. Within(m, t, i, p)
      BY <2>2, <3>1, Zenon DEF Within
    <3>4. SameChunk(w, m, t, i, p)
      BY <3>2, <3>3, ChunkStays, Zenon
    <3> QED BY <3>1, <3>4, Zenon DEF SameChunk
  <2> QED BY <1>6, <2>1, <2>2, <2>3, Zenon
<1>9. \A i \in 1..(n + 1) : q[i] = ReadChunk(w, t, i, q[i - 1])
  <2>1. q[n + 1] = ReadChunk(w, t, n + 1, q[(n + 1) - 1])
    BY <1>5, <1>6, <1>7, Zenon
  <2> QED BY <1>5, <1>8, <2>1, Zenon
<1>10. \A i \in 0..(n + 1) : q[i].at \in 0..Len(w.buf)
  <2>1. \A x \in 0..Len(m.buf) : x \in 0..Len(w.buf)
    BY <1>1, <1>4
  <2>2. last.at \in 0..Len(w.buf)
    BY <1>1, <1>4 DEF last
  <2> QED BY <1>3, <1>5, <1>6, <2>1, <2>2, Zenon
<1>11. q[0] = [at |-> 0, out |-> <<>>]
  BY <1>3, <1>4, <1>6
<1>12. Reading(w, t, q)
  BY <1>1, <1>9, <1>10, <1>11, Zenon DEF Reading
<1>13. q[Len(w.chunks)] = [at |-> Len(w.buf), out |-> IF t = tag THEN out \o data ELSE out]
  BY <1>1, <1>6, Zenon DEF last
<1> QED BY <1>12, <1>13, Zenon DEF Kept, w

-----------------------------------------------------------------------------
(* The sandbox: the invariant *)

LEMMA InitKept ==
    ASSUME SandboxInit
    PROVE  BoxInv
<1>1. OutputsKept
  <2>1. shown.buf = <<>> /\ shown.chunks = <<>> /\ Len(shown.buf) = 0 /\ Len(shown.chunks) = 0
    BY DEF SandboxInit
  <2>2. shown \in Buffers /\ said \in [Tags -> Seq(Bytes)] /\ wrote \in [Tags -> Nat]
    BY DEF SandboxInit, Buffers
  <2>3. ASSUME NEW t \in Tags PROVE Kept(shown, t, said[t])
    <3> DEFINE r == [i \in {0} |-> [at |-> 0, out |-> <<>>]]
    <3>1. said[t] = <<>> /\ r[0] = [at |-> 0, out |-> <<>>] /\ r[0].at = 0
      BY <2>3 DEF SandboxInit
    <3>2. 1..0 = {} /\ 0..0 = {0}
      OBVIOUS
    <3> HIDE DEF r
    <3>3. Reading(shown, t, r)
      BY <2>1, <3>1, <3>2 DEF Reading
    <3> QED BY <2>1, <3>1, <3>3 DEF Kept
  <2> QED BY <2>2, <2>3 DEF OutputsKept
<1>2. commands = <<>> /\ Len(commands) = 0 /\ Scheduled = {}
  BY DEF SandboxInit, Scheduled
<1>3. InPlace
  BY <1>2, Zenon DEF SandboxInit, InPlace
<1>4. Ordered
  <2>1. commands \in Seq(Commands)
    BY <1>2
  <2> QED BY <1>2, <2>1 DEF SandboxInit, Ordered
<1> QED BY <1>1, <1>3, <1>4 DEF BoxInv

\* What a goroutine writes
LEMMA WriteStep ==
    ASSUME OutputsKept, NEW tag \in Tags, NEW data \in Seq(Bytes), data # <<>>,
           wrote' \in [Tags -> Nat], shown' = Written(shown, tag, data),
           said' = [said EXCEPT ![tag] = @ \o data]
    PROVE  OutputsKept'
<1>1. shown \in Buffers /\ said \in [Tags -> Seq(Bytes)]
  BY Zenon DEF OutputsKept
<1>2. shown' \in Buffers
  BY <1>1, WrittenBuffer, Zenon
<1>3. \A t \in Tags : said'[t] = IF t = tag THEN said[t] \o data ELSE said[t]
  BY <1>1, Zenon
<1>4. said' \in [Tags -> Seq(Bytes)]
  <2>1. said[tag] \o data \in Seq(Bytes)
    BY <1>1, ConcatProperties, Zenon
  <2> QED BY <1>1, <2>1, Zenon
<1>5. \A t \in Tags : Kept(shown', t, said'[t])
  BY <1>1, <1>3, WriteKeeps, Zenon DEF OutputsKept
<1> QED BY <1>2, <1>4, <1>5, Zenon DEF OutputsKept

LEMMA OutputsStep ==
    ASSUME OutputsKept, Ordered, SandboxNext
    PROVE  OutputsKept'
<1>1. CASE UNCHANGED <<wrote, shown, said>>
  BY <1>1, Zenon DEF OutputsKept
<1>2. CASE ExecBegin
  <2> DEFINE line == Line(commands[next])
  <2>1. commands[next] \in Commands
    BY <1>2 DEF ExecBegin, Ordered
  <2>2. line \in Bytes
    BY <2>1, Zenon DEF Bytes
  <2> HIDE DEF line
  <2>3. <<line>> \in Seq(Bytes) /\ <<line>> # <<>>
    BY <2>2
  <2>4. wrote' \in [Tags -> Nat]
    BY <1>2 DEF ExecBegin
  <2>5. "stdout" \in Tags /\ said["stdout"] \in Seq(Bytes)
    BY DEF Tags, OutputsKept
  <2>6. Append(said["stdout"], line) = said["stdout"] \o <<line>>
    BY <2>2, <2>5, AppendIsConcat, Zenon
  <2>7. said' = [said EXCEPT !["stdout"] = @ \o <<line>>] /\ shown' = Written(shown, "stdout", <<line>>)
    BY <1>2, <2>6, Zenon DEF ExecBegin, line
  <2> QED BY <2>3, <2>4, <2>5, <2>7, WriteStep, Zenon
<1>3. ASSUME NEW tag \in Tags, NEW n \in 1..MaxWrites, Output(tag, n)
      PROVE  OutputsKept'
  <2> DEFINE data == [i \in 1..n |-> <<tag, wrote[tag] + i>>]
  <2>1. wrote[tag] \in Nat /\ n \in Nat /\ n # 0
    BY <1>3, WritesAssumption DEF OutputsKept
  <2>2. \A i \in 1..n : <<tag, wrote[tag] + i>> \in Bytes
    <3>1. \A i \in 1..n : wrote[tag] + i \in Nat
      BY <2>1
    <3> QED BY <1>3, <3>1 DEF Bytes
  <2>3. data \in Seq(Bytes) /\ data # <<>>
    BY <2>1, <2>2
  <2>4. /\ shown' = Written(shown, tag, data)
        /\ said' = [said EXCEPT ![tag] = @ \o data]
        /\ wrote' = [wrote EXCEPT ![tag] = @ + n]
    BY <1>3, Zenon DEF Output
  <2> HIDE DEF data
  <2>5. wrote' \in [Tags -> Nat]
    BY <1>3, <2>1, <2>4 DEF OutputsKept
  <2> QED BY <1>3, <2>3, <2>4, <2>5, WriteStep, Zenon
<1> QED BY <1>1, <1>2, <1>3, Zenon DEF SandboxNext, Command, CommandNotFound, CopyIn, Build,
             BuildCopy, BuildFail, BuildEnd, Execute, ExecNext, ExecFail, ExecError, ExecuteEnd,
             Cleanup, runVars

LEMMA PlanStep ==
    ASSUME InPlace, Ordered, SandboxNext
    PROVE  InPlace' /\ Ordered'
<1>1. ASSUME NEW c \in Commands, Command(c)
      PROVE  InPlace' /\ Ordered'
  <2>1. /\ bpc = "idle" /\ tmpdir = {} /\ commands' = Append(commands, c)
        /\ files' = files \union FilesOf[c]
        /\ UNCHANGED <<bpc, tmpdir, missing, next, done, result>>
    BY <1>1, Zenon DEF Command, runVars
  <2>2. commands' \in Seq(Commands)
    BY <1>1, <2>1 DEF Ordered
  <2>3. \A d \in Scheduled' : d \in Scheduled \/ d = c
    BY <1>1, <2>1 DEF Ordered, Scheduled
  <2>4. InPlace'
    BY <2>1, <2>3, Zenon DEF InPlace
  <2> QED BY <2>1, <2>2, <2>4, Zenon DEF Ordered
<1>2. CASE CommandNotFound
  BY <1>2, Zenon DEF CommandNotFound, runVars, InPlace, Ordered, Scheduled
<1>3. ASSUME NEW f \in Extras, CopyIn(f)
      PROVE  InPlace' /\ Ordered'
  <2>1. UNCHANGED <<commands, missing, bpc, next, done, result>> /\ bpc = "idle"
    BY <1>3, Zenon DEF CopyIn, runVars
  <2>2. Scheduled' = Scheduled /\ files \subseteq files'
    BY <1>3, <2>1, Zenon DEF Scheduled, CopyIn
  <2>3. \A d \in tmpdir' : files' \subseteq d
    <3>1. CASE tmpdir = {}
      BY <1>3, <3>1, Zenon DEF CopyIn
    <3>2. CASE tmpdir # {}
      <4>1. tmpdir' = {d \union {f} : d \in tmpdir} /\ files' = files
        BY <1>3, <3>2, Zenon DEF CopyIn
      <4>2. \A d \in tmpdir : files \subseteq d
        BY <2>1, Zenon DEF InPlace
      <4> QED BY <4>1, <4>2, Zenon
    <3> QED BY <3>1, <3>2
  <2>4. InPlace'
    BY <2>1, <2>2, <2>3, Zenon DEF InPlace
  <2> QED BY <2>1, <2>2, <2>4, Zenon DEF Ordered
<1>4. ASSUME NEW execute \in BOOLEAN, Build(execute)
      PROVE  InPlace' /\ Ordered'
  <2>1. UNCHANGED <<commands, files, next, done>> /\ bpc = "idle"
    BY <1>4, Zenon DEF Build, runVars
  <2>2. \/ bpc' = "returned" /\ result' = "error"
        \/ bpc' = "build" /\ missing' = files
    <3>1. CASE deferred
      BY <1>4, <3>1, Zenon DEF Build, Return
    <3>2. CASE ~deferred
      BY <1>4, <3>2, Zenon DEF Build
    <3> QED BY <3>1, <3>2, Zenon
  <2>3. Scheduled' = Scheduled
    BY <2>1, Zenon DEF Scheduled
  <2>4. InPlace'
    BY <2>1, <2>2, <2>3, Zenon DEF InPlace
  <2> QED BY <2>1, <2>2, <2>3, <2>4, Zenon DEF Ordered
<1>5. ASSUME NEW f \in files, BuildCopy(f)
      PROVE  InPlace' /\ Ordered'
  <2>1. /\ UNCHANGED <<commands, files, bpc, next, done, result>> /\ bpc = "build"
        /\ tmpdir' = {d \union {f} : d \in tmpdir} /\ missing' = missing \ {f}
    BY <1>5, Zenon DEF BuildCopy, runVars
  <2>2. Scheduled' = Scheduled
    BY <2>1, Zenon DEF Scheduled
  <2>3. \A d \in tmpdir' : files' \subseteq d \union missing'
    <3>1. \A d \in tmpdir : files \subseteq d \union missing
      BY <2>1, Zenon DEF InPlace
    <3> QED BY <2>1, <3>1, Zenon
  <2>4. InPlace'
    BY <2>1, <2>2, <2>3, Zenon DEF InPlace
  <2> QED BY <2>1, <2>2, <2>4, Zenon DEF Ordered
<1>6. CASE BuildFail \/ ExecFail \/ ExecError
  <2>1. UNCHANGED <<commands, files, next, done>> /\ bpc' = "returned" /\ result' # "zero"
    BY <1>6, Zenon DEF BuildFail, ExecFail, ExecError, Return, runVars
  <2>2. Scheduled' = Scheduled
    BY <2>1, Zenon DEF Scheduled
  <2> QED BY <2>1, <2>2, Zenon DEF InPlace, Ordered
<1>7. CASE BuildEnd \/ Execute
  <2>1. /\ UNCHANGED <<commands, files, tmpdir, missing, next, done, result>>
        /\ bpc' \in {"idle", "execute"} /\ next = 1
    BY <1>7, Zenon DEF BuildEnd, Execute, runVars, Ordered
  <2>2. \A d \in tmpdir : files \subseteq d
    BY <1>7, Zenon DEF BuildEnd, Execute, InPlace
  <2>3. Scheduled' = Scheduled
    BY <2>1, Zenon DEF Scheduled
  <2>4. \A i \in 1..Len(commands) : ~(i < 1)
    BY DEF Ordered
  <2>5. InPlace'
    BY <2>1, <2>2, <2>3, Zenon DEF InPlace
  <2> QED BY <2>1, <2>3, <2>4, <2>5, Zenon DEF Ordered
<1>8. CASE ExecBegin
  <2>1. /\ UNCHANGED <<commands, files, tmpdir, missing, next, done, result>>
        /\ bpc = "execute" /\ bpc' = "command" /\ next <= Len(commands)
    BY <1>8, Zenon DEF ExecBegin
  <2>2. next \in 1..Len(commands)
    BY <2>1 DEF Ordered
  <2>3. Scheduled' = Scheduled
    BY <2>1, Zenon DEF Scheduled
  <2> QED BY <2>1, <2>2, <2>3, Zenon DEF InPlace, Ordered
<1>9. ASSUME NEW tag \in Tags, NEW n \in 1..MaxWrites, Output(tag, n)
      PROVE  InPlace' /\ Ordered'
  BY <1>9, Zenon DEF Output, InPlace, Ordered, Scheduled
<1>10. CASE ExecNext
  <2>1. /\ UNCHANGED <<commands, files, tmpdir, missing, result>>
        /\ bpc = "command" /\ bpc' = "execute" /\ next' = next + 1
        /\ done' = done \union {c \in {commands[next]} : \A d \in tmpdir : FilesOf[c] \subseteq d}
    BY <1>10, Zenon DEF ExecNext
  <2>2. next \in 1..Len(commands) /\ next \in Nat \ {0} /\ next + 1 \in Nat \ {0}
    BY <2>1 DEF Ordered
  <2>3. commands[next] \in Scheduled
    BY <2>2, Zenon DEF Scheduled
  <2>4. commands[next] \in done' /\ done \subseteq done'
    BY <2>1, <2>3, Zenon DEF InPlace
  <2>5. \A i \in 1..Len(commands) : i < next + 1 => i < next \/ i = next
    BY <2>2
  <2>6. \A i \in 1..Len(commands) : i < next + 1 => commands[i] \in done'
    BY <2>1, <2>4, <2>5, Zenon DEF Ordered
  <2>7. Scheduled' = Scheduled
    BY <2>1, Zenon DEF Scheduled
  <2>8. InPlace'
    BY <2>1, <2>7, Zenon DEF InPlace
  <2> QED BY <2>1, <2>2, <2>6, <2>8, Zenon DEF Ordered
<1>11. CASE ExecuteEnd
  <2>1. /\ UNCHANGED <<commands, files, tmpdir, missing, next, done>>
        /\ bpc = "execute" /\ bpc' = "returned" /\ next > Len(commands)
    BY <1>11, Zenon DEF ExecuteEnd, Return, runVars
  <2>2. \A i \in 1..Len(commands) : i < next
    BY <2>1 DEF Ordered
  <2>3. \A i \in 1..Len(commands) : commands[i] \in done
    BY <2>1, <2>2, Zenon DEF Ordered
  <2>4. Scheduled \subseteq done /\ Scheduled' = Scheduled
    BY <2>1, <2>3, Zenon DEF Scheduled
  <2> QED BY <2>1, <2>4, Zenon DEF InPlace, Ordered
<1>12. CASE Cleanup
  <2>1. bpc' = "clean" /\ UNCHANGED <<next, done>>
    BY <1>12, Zenon DEF Cleanup, runVars
  <2>2. commands' \in Seq(Commands)
    BY <1>12 DEF Cleanup, Ordered
  <2>3. (commands' = commands /\ files' = files) \/ commands' = <<>>
    BY <1>12, Zenon DEF Cleanup
  <2>4. Scheduled' = {} \/ (Scheduled' = Scheduled /\ files' = files)
    <3>1. commands' = <<>> => Scheduled' = {}
      BY DEF Scheduled
    <3>2. commands' = commands => Scheduled' = Scheduled
      BY Zenon DEF Scheduled
    <3> QED BY <2>3, <3>1, <3>2, Zenon
  <2> QED BY <2>1, <2>2, <2>4, Zenon DEF InPlace, Ordered
<1> QED BY <1>1, <1>2, <1>3, <1>4, <1>5, <1>6, <1>7, <1>8, <1>9, <1>10, <1>11, <1>12, Zenon
        DEF SandboxNext

\* A result of code 0 means that every command that was scheduled succeeded,
\* with its files; and the two outputs are told apart (Execute, multiBuffer).
THEOREM ResultIsTrue == SandboxSpec => []ResultTrue
<1>1. SandboxInit => BoxInv
  BY InitKept
<1>2. BoxInv /\ [SandboxNext]_boxVars => BoxInv'
  <2>1. CASE SandboxNext
    BY <2>1, OutputsStep, PlanStep, Zenon DEF BoxInv
  <2>2. CASE UNCHANGED boxVars
    <3>1. OutputsKept => OutputsKept'
      BY <2>2, Zenon DEF OutputsKept, boxVars
    <3>2. InPlace => InPlace'
      BY <2>2, Zenon DEF InPlace, Scheduled, boxVars
    <3>3. Ordered => Ordered'
      BY <2>2, Zenon DEF Ordered, Scheduled, boxVars
    <3> QED BY <3>1, <3>2, <3>3, Zenon DEF BoxInv
  <2> QED BY <2>1, <2>2
<1>3. BoxInv => ResultTrue
  BY ReadKept, Zenon DEF BoxInv, OutputsKept, Ordered, ResultTrue
<1> QED BY <1>1, <1>2, <1>3, PTL DEF SandboxSpec
=============================================================================
