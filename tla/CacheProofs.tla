---------------------------- MODULE CacheProofs -----------------------------
(***************************************************************************)
(* Theorems about ChunkMap for any set of chunks, waiters and savers, and  *)
(* about Cache for objects, chunks, readers and reads of any size.         *)
(***************************************************************************)
EXTENDS Cache, TLAPS

-----------------------------------------------------------------------------
(* ChunkMap.  The invariant says exactly which channels are closed: all    *)
(* that were made for a chunk, except the registered one.  A waiter that   *)
(* cannot go on therefore holds the registered one.                        *)

\* A chunk has at most one open channel, the last one made, and it is
\* registered; a cached chunk has none.
ChannelsAccounted ==
    \A c \in Chunks :
        /\ running[c] \in {0, made[c]}
        /\ shut[c] = (1..made[c]) \ {running[c]}
        /\ c \in bitmap => running[c] = 0

\* Waiters hold channels that exist.
ReadyAccounted ==
    \A w \in Waiters :
        \/ ready[w] = NoChannel
        \/ ready[w].part \in Chunks /\ ready[w].id \in 1..made[ready[w].part]

\* Whoever holds the read lock is writing the present bitmap.
FileAccounted ==
    /\ disk.version <= version
    /\ \A s \in Savers :
          temp[s].busy => temp[s].bits = bitmap /\ temp[s].version = version

MapInv == MapTypeOK /\ ChannelsAccounted /\ ReadyAccounted /\ FileAccounted

USE ChunkMapAssumption DEF chanVars, fileVars

-----------------------------------------------------------------------------
LEMMA MapInitInvariant == MapInit => MapInv
BY DEF MapInit, MapInv, MapTypeOK, ChannelsAccounted, ReadyAccounted,
       FileAccounted, Loaded, FileForms, Channels, Snapshots, Idle, NoChannel

LEMMA RegisterTyped ==
    ASSUME MapTypeOK, NEW c \in Chunks, Register(c)
    PROVE  /\ running' \in [Chunks -> Nat] /\ made' \in [Chunks -> Nat] /\ shut' = shut
           /\ Registered(c) \in Channels
           /\ Registered(c) = NoChannel => c \in bitmap
           /\ Registered(c) # NoChannel => Registered(c).part = c
<1>1. running' \in [Chunks -> Nat] /\ made' \in [Chunks -> Nat] /\ shut' = shut
  BY DEF MapTypeOK, Register
<1>2. c \notin bitmap => running'[c] # 0
  BY DEF MapTypeOK, Register
<1>3. c \in Nat
  OBVIOUS
<1> QED BY <1>1, <1>2, <1>3 DEF Registered, NoChannel, Channels

LEMMA CheckPreserves ==
    ASSUME MapInv, NEW w \in Waiters, NEW c \in Chunks, Check(w, c)
    PROVE  MapInv'
<1> USE DEF MapInv, Check, Register, Registered
<1>1. MapTypeOK'
  BY DEF MapTypeOK, Channels, NoChannel
<1>2. ChannelsAccounted'
  BY DEF MapTypeOK, ChannelsAccounted
<1>3. ReadyAccounted'
  <2> SUFFICES ASSUME NEW v \in Waiters, ready'[v] # NoChannel
               PROVE  ready'[v].part \in Chunks /\ ready'[v].id \in 1..made'[ready'[v].part]
    BY DEF ReadyAccounted, NoChannel
  <2>1. \A d \in Chunks : made'[d] \in Nat /\ made'[d] >= made[d]
    BY DEF MapTypeOK
  <2>2. CASE v = w
    <3>1. c \notin bitmap
      BY <2>2 DEF MapTypeOK, NoChannel
    <3>2. ready'[v].part = c /\ ready'[v].id = running'[c]
      BY <2>2, <3>1 DEF MapTypeOK
    <3>3. running'[c] = made'[c] /\ made'[c] > 0
      BY <3>1 DEF MapTypeOK, ChannelsAccounted
    <3> QED BY <2>1, <3>2, <3>3
  <2>3. CASE v # w
    <3>1. ready'[v] = ready[v]
      BY <2>3 DEF MapTypeOK
    <3>2. PICK d \in Chunks : ready[v].part = d /\ ready[v].id \in 1..made[d]
      BY <3>1, Zenon DEF ReadyAccounted
    <3>3. made[d] \in Nat /\ made'[d] \in Nat /\ made'[d] >= made[d]
      BY <2>1 DEF MapTypeOK
    <3>4. 1..made[d] \subseteq 1..made'[d]
      BY <3>3
    <3> QED BY <3>1, <3>2, <3>4
  <2> QED BY <2>2, <2>3
<1>4. FileAccounted'
  BY DEF FileAccounted
<1> QED BY <1>1, <1>2, <1>3, <1>4

LEMMA DoneTyped ==
    ASSUME MapTypeOK, NEW c \in Chunks, DoneOf(c)
    PROVE  /\ bitmap' = bitmap \union {c} /\ bitmap' \subseteq Chunks
           /\ version' \in Nat /\ running' \in [Chunks -> Nat] /\ made' \in [Chunks -> Nat]
           /\ shut' \in [Chunks -> SUBSET Nat]
           /\ \A x \in Chunks : shut'[x] # {} => shut[x] # {} \/ x = c
BY DEF DoneOf, MapTypeOK

LEMMA DonePreserves ==
    ASSUME MapInv, NEW c \in Chunks, Done(c)
    PROVE  MapInv'
<1> USE DEF MapInv, Done, DoneOf
<1>1. MapTypeOK'
  BY DEF MapTypeOK
<1>2. ChannelsAccounted'
  BY DEF MapTypeOK, ChannelsAccounted
<1>3. ReadyAccounted'
  BY DEF ReadyAccounted
<1>4. FileAccounted'
  BY DEF FileAccounted, MapTypeOK, ReadLocked
<1> QED BY <1>1, <1>2, <1>3, <1>4

LEMMA LostPreserves ==
    ASSUME MapInv, NEW c \in Chunks, Lost(c)
    PROVE  MapInv'
<1> USE DEF MapInv, Lost, LostOf
<1>1. MapTypeOK' /\ ChannelsAccounted' /\ ReadyAccounted'
  BY DEF MapTypeOK, ChannelsAccounted, ReadyAccounted
<1>2. FileAccounted'
  BY DEF FileAccounted, MapTypeOK, ReadLocked
<1> QED BY <1>1, <1>2

\* The steps of Save: what is in a file, or on its way there, comes from the
\* bitmap.
LEMMA SaveTyped ==
    ASSUME MapTypeOK, NEW s \in Savers, SaveBegin(s) \/ SaveRename(s) \/ SaveFail(s),
           UNCHANGED <<bitmap, version, running, made, shut, ready>>
    PROVE  /\ MapTypeOK'
           /\ \A c \in Loaded(disk)' : c \in Loaded(disk) \/ \E t \in Savers : c \in temp[t].bits
           /\ \A t \in Savers : \A c \in temp'[t].bits : c \in temp[t].bits \union bitmap
<1> USE DEF SaveBegin, SaveRename, SaveFail, Idle
<1>1. temp[s].bits \in SUBSET Chunks /\ temp[s].version \in Nat
  BY DEF MapTypeOK, Snapshots
<1>2. disk' \in [form : FileForms, bits : SUBSET Chunks, version : Nat]
  BY <1>1 DEF MapTypeOK, FileForms
<1>3. /\ [busy |-> TRUE, bits |-> bitmap, version |-> version] \in Snapshots
      /\ Idle \in Snapshots
  BY DEF MapTypeOK, Snapshots
<1>4. temp' \in [Savers -> Snapshots]
  BY <1>3, Zenon DEF MapTypeOK
<1>5. MapTypeOK'
  BY <1>2, <1>4 DEF MapTypeOK
<1>6. \A c \in Loaded(disk)' : c \in Loaded(disk) \/ \E t \in Savers : c \in temp[t].bits
  BY DEF Loaded
<1>7. \A t \in Savers : \A c \in temp'[t].bits : c \in temp[t].bits \union bitmap
  BY DEF MapTypeOK
<1> QED BY <1>5, <1>6, <1>7

LEMMA SavePreserves ==
    ASSUME MapInv, NEW s \in Savers, Save(s)
    PROVE  MapInv'
<1> USE DEF MapInv, Save
<1>1. MapTypeOK'
  BY SaveTyped
<1>2. ChannelsAccounted' /\ ReadyAccounted'
  BY Zenon DEF ChannelsAccounted, ReadyAccounted
<1>3. FileAccounted'
  BY DEF FileAccounted, MapTypeOK, SaveBegin, SaveRename, SaveFail, Idle
<1> QED BY <1>1, <1>2, <1>3

LEMMA ReopenedTyped ==
    ASSUME MapTypeOK, Reopened, UNCHANGED disk
    PROVE  MapTypeOK'
BY DEF MapTypeOK, Reopened, Loaded, Channels, Snapshots, Idle, NoChannel

LEMMA RestartPreserves ==
    ASSUME MapInv, Restart
    PROVE  MapInv'
<1> USE DEF MapInv, Restart
<1>1. MapTypeOK'
  BY ReopenedTyped
<1>2. ChannelsAccounted' /\ ReadyAccounted'
  BY DEF ChannelsAccounted, ReadyAccounted, Reopened, Loaded, NoChannel
<1>3. FileAccounted'
  BY DEF FileAccounted, MapTypeOK, Reopened, Idle
<1> QED BY <1>1, <1>2, <1>3

LEMMA MapStepPreserves == MapInv /\ [MapNext]_mapVars => MapInv'
<1> SUFFICES ASSUME MapInv, [MapNext]_mapVars PROVE MapInv'
  OBVIOUS
<1>1. CASE UNCHANGED mapVars
  BY <1>1 DEF mapVars, MapInv, MapTypeOK, ChannelsAccounted, ReadyAccounted, FileAccounted
<1> QED
  BY <1>1, CheckPreserves, DonePreserves, LostPreserves, SavePreserves, RestartPreserves
  DEF MapNext

-----------------------------------------------------------------------------
\* Every variable keeps its type.
THEOREM MapTypeCorrect == MapSpec => []MapTypeOK
<1>1. MapInv => MapTypeOK
  BY DEF MapInv
<1> QED BY <1>1, MapInitInvariant, MapStepPreserves, PTL DEF MapSpec

\* Done never closes a channel twice (chunk.go:122-136).
THEOREM ChannelsClosedOnce == MapSpec => []NeverClosedTwice
<1>1. MapInv => NeverClosedTwice
  BY DEF MapInv, ChannelsAccounted, NeverClosedTwice
<1> QED BY <1>1, MapInitInvariant, MapStepPreserves, PTL DEF MapSpec

\* Every goroutine that waits for a chunk will be woken by its next Done.
THEOREM WaitersAreWoken == MapSpec => []NoLostWakeup
<1>1. MapInv => NoLostWakeup
  <2> SUFFICES ASSUME MapInv, NEW w \in Waiters, ~IsReady(w)
               PROVE  /\ ready[w].part \notin bitmap
                      /\ running[ready[w].part] = ready[w].id
    BY DEF NoLostWakeup
  <2>1. PICK c \in Chunks : ready[w].part = c /\ ready[w].id \in 1..made[c]
    BY Zenon DEF MapInv, ReadyAccounted, IsReady
  <2>2. ready[w].id \notin shut[c]
    BY <2>1 DEF IsReady
  <2>3. running[c] = ready[w].id /\ running[c] # 0
    BY <2>1, <2>2 DEF MapInv, MapTypeOK, ChannelsAccounted
  <2> QED BY <2>1, <2>3 DEF MapInv, ChannelsAccounted
<1> QED BY <1>1, MapInitInvariant, MapStepPreserves, PTL DEF MapSpec

\* Overlapping Saves never put an older bitmap back (chunk.go:191-232).
THEOREM FileMovesForward == MapSpec => FileNeverOlder
<1>1. MapInv /\ [MapNext]_mapVars => [disk'.version >= disk.version]_disk
  <2> SUFFICES ASSUME MapInv, MapNext PROVE disk'.version >= disk.version \/ disk' = disk
    BY DEF mapVars
  <2>1. disk' = disk \/ \E s \in Savers : SaveRename(s)
    BY DEF MapNext, Check, Done, Lost, Save, SaveBegin, SaveFail, Restart
  <2> QED BY <2>1 DEF SaveRename, MapInv, FileAccounted, MapTypeOK
<1> QED BY <1>1, MapInitInvariant, MapStepPreserves, PTL DEF MapSpec, FileNeverOlder

-----------------------------------------------------------------------------
(* Cache, as long as the machine keeps its power and a read returns        *)
(* nothing from behind its first chunk.                                    *)
(*                                                                         *)
(* No step but a loss of power takes data from the local file.  So a chunk *)
(* has its data for good once a fetch has copied all of it, and the rest   *)
(* of the invariant says that a bit of the bitmap (in memory, in a file    *)
(* that is being written, in the map file), a closed channel or a waiter   *)
(* that Check did not make wait stands for such a chunk.                   *)

\* All that a successful read returns is in the chunk ReadAt waits for.
ReadsStayInChunk == \A q \in Requests : Returned(q) \subseteq CellsOf(q.off \div ChunkSize)

\* No read gets an answer but these.
Answers == {NoReply} \union {Outside!Object(q) : q \in Requests}

Typed ==
    /\ MapTypeOK
    /\ local \in [Cells -> Contents]
    /\ phase \in Phases
    /\ rpc \in [Readers -> {"idle", "check", "wait"}]
    /\ req \in [Readers -> Requests \union {NoRequest}]
    /\ failed \subseteq Readers
    /\ reply \in [Readers -> Answers]
    /\ fpc \in [Fetchers -> {"idle", "check", "acquire", "copy"}]
    /\ part \in [Fetchers -> Nat]
    /\ copied \in [Fetchers -> Nat]
    /\ loops \subseteq Loops
    /\ bgNext \in Nat /\ bgRetry \in 0..RetryLimit

\* A fetch past its Check works on a chunk of the object, and has written
\* the first cells of it.
Progress ==
    \A f \in Fetchers :
        /\ fpc[f] \in {"acquire", "copy"} => part[f] \in Chunks
        /\ fpc[f] # "copy" => copied[f] = 0
        /\ copied[f] <= SizeOf(part[f])
        /\ \A i \in 0..(copied[f] - 1) : local[OffsetOf(part[f]) + i] = "data"

\* A set bit or a closed channel stands for a chunk with all of its data.
BitsHaveData ==
    /\ \A c \in bitmap \union Loaded(disk) : HasData(c)
    /\ \A s \in Savers : \A c \in temp[s].bits : HasData(c)
    /\ \A c \in Chunks : shut[c] # {} => HasData(c)

\* A reader in a call has a request, and outside of one it has none; once it
\* waits, it waits for its first chunk, or that chunk has its data.
CallsInOrder ==
    \A r \in Readers :
        /\ rpc[r] = "idle" <=> req[r] = NoRequest
        /\ rpc[r] # "wait" => ready[r] = NoChannel
        /\ rpc[r] = "wait" => IF ready[r] = NoChannel THEN HasData(First(r))
                              ELSE ready[r].part = First(r)

CacheInv == Typed /\ Progress /\ BitsHaveData /\ CallsInOrder

-----------------------------------------------------------------------------
(* Chunks and cells *)

LEMMA ChunkShape ==
    ASSUME NEW c \in Nat
    PROVE  /\ SizeOf(c) \in 0..ChunkSize
           /\ OffsetOf(c) \in Nat
           /\ CellsOf(c) \subseteq Cells
<1>1. PICK k \in Nat : k = c * ChunkSize
  BY CacheAssumption
<1> QED BY <1>1, CacheAssumption DEF SizeOf, OffsetOf, CellsOf, Cells, Min2

LEMMA SizedIsChunk ==
    ASSUME NEW c \in Nat, SizeOf(c) # 0
    PROVE  c \in Chunks
<1>1. PICK k \in Nat : k = c * ChunkSize
  BY CacheAssumption
<1>2. k < Total
  BY <1>1, CacheAssumption DEF SizeOf, Min2
<1>3. c <= k
  BY <1>1, CacheAssumption
<1> QED BY <1>1, <1>2, <1>3, CacheAssumption

LEMMA ChunkIsSized ==
    ASSUME NEW c \in Chunks
    PROVE  c \in Nat /\ SizeOf(c) # 0
<1>1. PICK k \in Nat : k = c * ChunkSize /\ k < Total
  BY CacheAssumption
<1> QED BY <1>1, CacheAssumption DEF SizeOf, Min2

LEMMA CopiedIsData ==
    ASSUME CacheInv, NEW f \in Fetchers, copied[f] = SizeOf(part[f])
    PROVE  HasData(part[f])
<1>1. part[f] \in Nat /\ copied[f] \in Nat
  BY DEF CacheInv, Typed
<1>2. \A i \in 0..(SizeOf(part[f]) - 1) : local[OffsetOf(part[f]) + i] = "data"
  BY DEF CacheInv, Progress
<1> QED BY <1>1, <1>2 DEF HasData, CellsOf

LEMMA DivIsNat == \A n \in Nat : n \div ChunkSize \in Nat
BY CacheAssumption

LEMMA FirstIsNat ==
    ASSUME Typed, NEW r \in Readers
    PROVE  First(r) \in Nat
<1>1. req[r].off \in Nat
  BY CacheAssumption DEF Typed, NoRequest
<1> QED BY <1>1, DivIsNat DEF First

-----------------------------------------------------------------------------
(* Parts of steps *)

LEMMA ReturnKeeps ==
    ASSUME CacheInv, NEW f \in Fetchers, NEW err \in BOOLEAN, Return(f, err), local' = local
    PROVE  /\ ready' \in [Waiters -> Channels]
           /\ \A r \in Readers : r # f => ready'[r] = ready[r]
           /\ rpc' = rpc /\ req' = req /\ reply' = reply
           /\ failed' \subseteq Readers
           /\ fpc' \in [Fetchers -> {"idle", "check", "acquire", "copy"}]
           /\ part' \in [Fetchers -> Nat]
           /\ copied' \in [Fetchers -> Nat]
           /\ loops' = loops /\ bgNext' \in Nat /\ bgRetry' \in 0..RetryLimit
           /\ Progress'
<1> USE DEF CacheInv, Typed, Return
<1>1. NoChannel \in Channels
  BY DEF NoChannel, Channels
<1>2. ready' \in [Waiters -> Channels] /\ \A r \in Readers : r # f => ready'[r] = ready[r]
  BY <1>1, CacheAssumption DEF MapTypeOK
<1>3. bgNext' \in Nat /\ bgRetry' \in 0..RetryLimit
  BY CacheAssumption
<1>4. /\ fpc' \in [Fetchers -> {"idle", "check", "acquire", "copy"}]
      /\ part' \in [Fetchers -> Nat]
      /\ copied' \in [Fetchers -> Nat]
  OBVIOUS
<1>5. Progress'
  <2> SUFFICES ASSUME NEW g \in Fetchers
               PROVE  /\ fpc'[g] \in {"acquire", "copy"} => part'[g] \in Chunks
                      /\ fpc'[g] # "copy" => copied'[g] = 0
                      /\ copied'[g] <= SizeOf(part'[g])
                      /\ \A i \in 0..(copied'[g] - 1) :
                            local'[OffsetOf(part'[g]) + i] = "data"
    BY DEF Progress, SizeOf, OffsetOf
  <2>1. CASE g = f
    <3>1. fpc'[g] = "idle" /\ copied'[g] = 0 /\ part'[g] = 0
      BY <2>1
    <3>2. SizeOf(0) \in 0..ChunkSize
      BY ChunkShape
    <3> QED BY <3>1, <3>2, CacheAssumption
  <2>2. CASE g # f
    <3>1. fpc'[g] = fpc[g] /\ copied'[g] = copied[g] /\ part'[g] = part[g]
      BY <2>2
    <3> QED BY <3>1 DEF Progress
  <2> QED BY <2>1, <2>2
<1> QED BY <1>2, <1>3, <1>4, <1>5

\* Steps that leave a part of the state alone.
LEMMA MapStutters ==
    ASSUME CacheInv, UNCHANGED <<mapVars, local>>
    PROVE  MapTypeOK' /\ BitsHaveData'
<1> USE DEF mapVars
<1>1. MapTypeOK'
  BY DEF CacheInv, Typed, MapTypeOK
<1>2. BitsHaveData'
  BY DEF CacheInv, BitsHaveData, HasData, Loaded
<1> QED BY <1>1, <1>2

LEMMA CallsStutter ==
    ASSUME CacheInv, UNCHANGED <<mapVars, local, readVars>>
    PROVE  CallsInOrder'
BY DEF CacheInv, CallsInOrder, HasData, First, mapVars, readVars

LEMMA FetchersStutter ==
    ASSUME CacheInv, UNCHANGED <<local, fetchVars>>
    PROVE  Progress'
BY DEF CacheInv, Progress, fetchVars

\* A step that takes no data away, and sets no bit and closes no channel
\* unless for a chunk with data.
LEMMA BitsKeepData ==
    ASSUME CacheInv,
           \A x \in Cells : local[x] = "data" => local'[x] = "data",
           \A c \in bitmap' : c \in bitmap \/ (c \in Nat /\ HasData(c)),
           \A c \in Loaded(disk)' :
               c \in Loaded(disk) \/ \E s \in Savers : c \in temp[s].bits,
           \A s \in Savers : \A c \in temp'[s].bits : c \in temp[s].bits \union bitmap,
           \A c \in Chunks : shut'[c] # {} => shut[c] # {} \/ HasData(c)
    PROVE  BitsHaveData'
<1>1. \A c \in Nat : HasData(c) => HasData(c)'
  <2> SUFFICES ASSUME NEW c \in Nat, HasData(c), NEW x \in CellsOf(c)
               PROVE  local'[x] = "data"
    BY DEF HasData, CellsOf, OffsetOf, SizeOf
  <2> QED BY ChunkShape DEF HasData
<1>2. bitmap \subseteq Nat /\ Loaded(disk) \subseteq Nat /\ Chunks \subseteq Nat
  BY ChunkMapAssumption, Zenon DEF CacheInv, Typed, MapTypeOK, Loaded
<1>3. \A s \in Savers : temp[s].bits \subseteq Nat
  BY <1>2, Zenon DEF CacheInv, Typed, MapTypeOK, Snapshots
<1>4. \A c \in bitmap' \union Loaded(disk)' : HasData(c)'
  BY <1>1, <1>2, <1>3, Zenon DEF CacheInv, BitsHaveData
<1>5. \A s \in Savers : \A c \in temp'[s].bits : HasData(c)'
  BY <1>1, <1>2, <1>3, Zenon DEF CacheInv, BitsHaveData
<1>6. \A c \in Chunks : shut'[c] # {} => HasData(c)'
  BY <1>1, <1>2 DEF CacheInv, BitsHaveData
<1> QED BY <1>4, <1>5, <1>6 DEF BitsHaveData

\* A step that leaves the readers alone and takes no data away.
LEMMA CallsKeepOrder ==
    ASSUME CacheInv,
           \A x \in Cells : local[x] = "data" => local'[x] = "data",
           UNCHANGED <<rpc, req>>,
           \A r \in Readers : ready'[r] = ready[r]
    PROVE  CallsInOrder'
<1> SUFFICES ASSUME NEW r \in Readers
             PROVE  /\ rpc'[r] = "idle" <=> req'[r] = NoRequest
                    /\ rpc'[r] # "wait" => ready'[r] = NoChannel
                    /\ rpc'[r] = "wait" => IF ready'[r] = NoChannel THEN HasData(First(r))'
                                           ELSE ready'[r].part = First(r)'
  BY DEF CallsInOrder
<1>1. First(r)' = First(r) /\ First(r) \in Nat
  BY FirstIsNat, Zenon DEF First, CacheInv
<1>2. HasData(First(r)) => HasData(First(r))'
  BY <1>1, ChunkShape DEF HasData, CellsOf, OffsetOf, SizeOf, Min2
<1> QED BY <1>1, <1>2 DEF CacheInv, CallsInOrder

-----------------------------------------------------------------------------
(* The invariant holds at the start and after every step. *)

LEMMA CacheInitInvariant == Init => CacheInv
<1> SUFFICES ASSUME Init PROVE CacheInv
  OBVIOUS
<1> USE DEF Init
<1>1. MapTypeOK
  BY DEF MapInit, MapTypeOK, Loaded, FileForms, Channels, Snapshots, Idle, NoChannel
<1>2. Typed
  BY <1>1, CacheAssumption DEF Typed, Phases, Answers
<1>3. SizeOf(0) \in 0..ChunkSize
  BY ChunkShape
<1>4. Progress
  BY <1>3 DEF Progress
<1>5. BitsHaveData
  BY DEF BitsHaveData, HasData, MapInit, Idle
<1>6. CallsInOrder
  BY CacheAssumption DEF CallsInOrder, MapInit
<1> QED BY <1>2, <1>4, <1>5, <1>6 DEF CacheInv

LEMMA ReadAtPreserves ==
    ASSUME CacheInv, NEW r \in Readers, NEW q \in Requests, ReadAt(r, q)
    PROVE  CacheInv'
<1> USE DEF CacheInv, ReadAt, mapVars, bgVars
<1>1. q.off \in Nat /\ q.off \div ChunkSize \in Nat /\ q # NoRequest
  <2>1. q.off \in Nat /\ q # NoRequest
    BY CacheAssumption DEF NoRequest
  <2> QED BY <2>1, DivIsNat
<1>2. \A f \in Fetchers : \/ fpc'[f] = fpc[f] /\ part'[f] = part[f]
                         \/ /\ fpc'[f] = "check" /\ fpc[f] = "idle"
                            /\ part'[f] \in Nat
  <2> SUFFICES ASSUME NEW f \in Fetchers, ~(fpc'[f] = fpc[f] /\ part'[f] = part[f])
               PROVE  fpc'[f] = "check" /\ fpc[f] = "idle" /\ part'[f] \in Nat
    OBVIOUS
  <2>1. /\ f[1] = r /\ f[2] \in {i \in 1..MaxParts : (i - 1) * ChunkSize < q.len}
        /\ fpc'[f] = "check" /\ part'[f] = (q.off \div ChunkSize) + f[2] - 1
    OBVIOUS
  <2>2. f \in PartFetchers
    BY <2>1 DEF Fetchers, Background
  <2>3. f = <<r, f[2]>>
    BY <2>1, <2>2 DEF PartFetchers
  <2> QED BY <1>1, <2>1, <2>3
<1>3. Typed'
  <2>1. fpc' \in [Fetchers -> {"idle", "check", "acquire", "copy"}] /\ part' \in [Fetchers -> Nat]
    BY <1>2, Zenon DEF Typed
  <2> QED BY <2>1, Zenon DEF Typed, MapTypeOK, Answers
<1>4. Progress'
  <2> SUFFICES ASSUME NEW f \in Fetchers
               PROVE  /\ fpc'[f] \in {"acquire", "copy"} => part'[f] \in Chunks
                      /\ fpc'[f] # "copy" => copied'[f] = 0
                      /\ copied'[f] <= SizeOf(part'[f])
                      /\ \A i \in 0..(copied'[f] - 1) :
                            local'[OffsetOf(part'[f]) + i] = "data"
    BY Zenon DEF Progress, SizeOf, OffsetOf
  <2>1. CASE fpc'[f] = fpc[f] /\ part'[f] = part[f]
    BY <2>1, Zenon DEF Progress
  <2>2. CASE fpc'[f] = "check" /\ fpc[f] = "idle" /\ part'[f] \in Nat
    <3>1. copied'[f] = 0
      BY <2>2, Zenon DEF Progress
    <3> QED BY <2>2, <3>1, ChunkShape, CacheAssumption
  <2> QED BY <1>2, <2>1, <2>2, Zenon
<1>5. BitsHaveData'
  BY Zenon DEF BitsHaveData, HasData, Loaded
<1>6. CallsInOrder'
  BY <1>1 DEF CallsInOrder, HasData, First, Typed
<1> QED BY <1>3, <1>4, <1>5, <1>6, Zenon

LEMMA ReadCheckPreserves ==
    ASSUME CacheInv, NEW r \in Readers, ReadCheck(r)
    PROVE  CacheInv'
<1>1. First(r) \in Nat /\ MapTypeOK /\ r \in Waiters
  BY FirstIsNat, CacheAssumption DEF CacheInv, Typed
<1>2. /\ rpc[r] = "check" /\ rpc' = [rpc EXCEPT ![r] = "wait"]
      /\ UNCHANGED <<bitmap, version, fileVars, local, phase, req, failed, reply,
                     fetchVars, bgVars>>
  BY DEF ReadCheck
<1>3. PICK x \in Channels :
         /\ ready' = [ready EXCEPT ![r] = x]
         /\ x = NoChannel => HasData(First(r))
         /\ x # NoChannel => x.part = First(r)
         /\ running' \in [Chunks -> Nat] /\ made' \in [Chunks -> Nat] /\ shut' = shut
  <2>1. CASE SizeOf(First(r)) = 0
    <3>1. HasData(First(r)) /\ NoChannel \in Channels
      BY <1>1, <2>1 DEF HasData, CellsOf, NoChannel, Channels
    <3>2. UNCHANGED <<running, made, shut, ready>> /\ ready[r] = NoChannel
      BY <1>2, <2>1 DEF ReadCheck, chanVars, CacheInv, CallsInOrder
    <3>3. ready' = [ready EXCEPT ![r] = NoChannel]
      BY <1>1, <3>2 DEF MapTypeOK
    <3> QED BY <1>1, <3>1, <3>2, <3>3, Zenon DEF MapTypeOK
  <2>2. CASE SizeOf(First(r)) # 0
    <3>1. First(r) \in Chunks /\ Register(First(r))
      BY <1>1, <2>2, SizedIsChunk DEF ReadCheck
    <3>2. ready' = [ready EXCEPT ![r] = Registered(First(r))]
      BY <2>2 DEF ReadCheck
    <3>3. First(r) \in bitmap => HasData(First(r))
      BY Zenon DEF CacheInv, BitsHaveData
    <3> QED BY <1>1, <3>1, <3>2, <3>3, RegisterTyped, Zenon
  <2> QED BY <2>1, <2>2
<1>4. Typed'
  <2>1. ready' \in [Waiters -> Channels]
    BY <1>1, <1>3 DEF MapTypeOK
  <2>2. MapTypeOK'
    BY <1>1, <1>2, <1>3, <2>1 DEF MapTypeOK, fileVars
  <2> QED BY <1>2, <2>2 DEF CacheInv, Typed, fetchVars, bgVars
<1>5. Progress'
  BY <1>2, FetchersStutter, Zenon
<1>6. BitsHaveData'
  BY <1>2, <1>3, BitsKeepData, Zenon DEF fileVars
<1>7. CallsInOrder'
  <2>1. \A v \in Readers \ {r} : ready'[v] = ready[v] /\ rpc'[v] = rpc[v]
    BY <1>1, <1>2, <1>3, CacheAssumption, Zenon DEF CacheInv, Typed, MapTypeOK
  <2>2. ready'[r] = x /\ rpc'[r] = "wait" /\ req[r] # NoRequest
    BY <1>1, <1>2, <1>3 DEF CacheInv, Typed, MapTypeOK, CallsInOrder
  <2>3. UNCHANGED <<local, req>>
    BY <1>2
  <2> QED BY <1>3, <2>1, <2>2, <2>3 DEF CacheInv, CallsInOrder, HasData, First
<1> QED BY <1>4, <1>5, <1>6, <1>7, Zenon DEF CacheInv

LEMMA AnswerPreserves ==
    ASSUME CacheInv, NEW r \in Readers, NEW a \in Answers, Answer(r, a)
    PROVE  CacheInv'
<1> USE DEF CacheInv, Answer
<1>1. NoChannel \in Channels
  BY Zenon DEF NoChannel, Channels
<1>2. /\ ready' \in [Waiters -> Channels] /\ ready'[r] = NoChannel
      /\ \A v \in Readers \ {r} : ready'[v] = ready[v] /\ rpc'[v] = rpc[v] /\ req'[v] = req[v]
  BY <1>1, CacheAssumption DEF Typed, MapTypeOK
<1>3. reply' \in [Readers -> Answers]
  BY Zenon DEF Typed
<1>4. Typed'
  BY <1>2, <1>3, Zenon DEF Typed, MapTypeOK, fileVars, fetchVars, bgVars
<1>5. Progress'
  BY Zenon DEF Progress, fileVars, fetchVars
<1>6. BitsHaveData'
  BY Zenon DEF BitsHaveData, HasData, Loaded, fileVars
<1>7. rpc'[r] = "idle" /\ req'[r] = NoRequest
  BY Zenon DEF Typed
<1>8. CallsInOrder'
  <2>1. \A v \in Readers \ {r} : First(v)' = First(v)
    BY <1>2, Zenon DEF First
  <2>2. \A v \in Readers \ {r} : HasData(First(v))' = HasData(First(v))
    BY <2>1, Zenon DEF HasData
  <2>3. \A v \in Readers \ {r} :
          /\ rpc'[v] = "idle" <=> req'[v] = NoRequest
          /\ rpc'[v] # "wait" => ready'[v] = NoChannel
          /\ rpc'[v] = "wait" => IF ready'[v] = NoChannel THEN HasData(First(v))'
                                 ELSE ready'[v].part = First(v)'
    BY <1>2, <2>1, <2>2, Zenon DEF CallsInOrder
  <2>4. rpc'[r] = "idle" /\ rpc'[r] # "wait" /\ req'[r] = NoRequest /\ ready'[r] = NoChannel
    BY <1>2, <1>7, Zenon
  <2> QED BY <2>3, <2>4, Zenon DEF CallsInOrder
<1> QED BY <1>4, <1>5, <1>6, <1>8, Zenon

\* What ReadReady returns is the object's data: the chunk waited for has its
\* data, and all that is returned is in it.
LEMMA ReadyIsObject ==
    ASSUME CacheInv, ReadsStayInChunk, NEW r \in Readers, rpc[r] = "wait", IsReady(r)
    PROVE  /\ req[r] \in Requests
           /\ [ok |-> TRUE, data |-> [x \in Returned(req[r]) |-> local[x]]]
                 = Outside!Object(req[r])
<1>1. req[r] \in Requests
  BY DEF CacheInv, CallsInOrder, Typed
<1>2. First(r) \in Nat
  BY FirstIsNat DEF CacheInv
<1>3. HasData(First(r))
  <2>1. CASE ready[r] = NoChannel
    BY <2>1 DEF CacheInv, CallsInOrder
  <2>2. CASE ready[r] # NoChannel
    <3>1. ready[r].part = First(r) /\ ready[r].id \in shut[First(r)]
      BY <2>2, Zenon DEF CacheInv, CallsInOrder, IsReady
    <3>2. CASE First(r) \in Chunks
      BY <3>1, <3>2, Zenon DEF CacheInv, BitsHaveData
    <3>3. CASE First(r) \notin Chunks
      BY <1>2, <3>3, SizedIsChunk DEF HasData, CellsOf
    <3> QED BY <3>2, <3>3, Zenon
  <2> QED BY <2>1, <2>2, Zenon
<1>4. \A x \in Returned(req[r]) : local[x] = "data"
  BY <1>1, <1>3 DEF ReadsStayInChunk, HasData, First
<1>5. [x \in Returned(req[r]) |-> local[x]] = [x \in Returned(req[r]) |-> "data"]
  BY <1>4
<1> QED BY <1>1, <1>5, Zenon DEF Outside!Object

LEMMA ReadReturnsPreserve ==
    ASSUME CacheInv, ReadsStayInChunk, NEW r \in Readers,
           ReadReady(r) \/ ReadFail(r) \/ ReadTimeout(r)
    PROVE  CacheInv'
<1>1. CASE ReadReady(r)
  <2>1. rpc[r] = "wait" /\ IsReady(r)
    BY <1>1, Zenon DEF ReadReady, Answer
  <2>2. PICK a : a \in Answers /\ Answer(r, a)
    BY <1>1, <2>1, ReadyIsObject DEF ReadReady, Answers
  <2> QED BY <2>2, AnswerPreserves, Zenon
<1>2. CASE ReadFail(r) \/ ReadTimeout(r)
  BY <1>2, AnswerPreserves DEF ReadFail, ReadTimeout, Answers
<1> QED BY <1>1, <1>2

\* Any end of fetch: the rest of the step is about the chunk map.
LEMMA ReturnPreserves ==
    ASSUME CacheInv, NEW f \in Fetchers, NEW err \in BOOLEAN, Return(f, err),
           local' = local, UNCHANGED <<phase, fileVars>>,
           bitmap' \subseteq Chunks, version' \in Nat,
           running' \in [Chunks -> Nat], made' \in [Chunks -> Nat],
           shut' \in [Chunks -> SUBSET Nat],
           BitsHaveData'
    PROVE  CacheInv'
<1>1. Typed'
  BY ReturnKeeps DEF CacheInv, Typed, MapTypeOK, fileVars
<1>2. Progress'
  BY ReturnKeeps, Zenon
<1>3. \A r \in Readers : ready'[r] = ready[r]
  BY ReturnKeeps, CacheAssumption, Zenon
<1>4. CallsInOrder'
  BY <1>3, ReturnKeeps, CallsKeepOrder, Zenon
<1> QED BY <1>1, <1>2, <1>4, Zenon DEF CacheInv

LEMMA FetchCheckPreserves ==
    ASSUME CacheInv, NEW f \in Fetchers, FetchCheck(f)
    PROVE  CacheInv'
<1>1. part[f] \in Nat /\ MapTypeOK
  BY Zenon DEF CacheInv, Typed
<1>2. /\ running' \in [Chunks -> Nat] /\ made' \in [Chunks -> Nat] /\ shut' = shut
  <2>1. \/ UNCHANGED <<running, made, shut>>
        \/ part[f] \in Chunks /\ Register(part[f])
    BY <1>1, SizedIsChunk DEF FetchCheck
  <2> QED BY <1>1, <2>1, RegisterTyped, Zenon DEF MapTypeOK
<1>3. BitsHaveData'
  <2>1. UNCHANGED <<bitmap, fileVars, local>>
    BY DEF FetchCheck
  <2> QED BY <1>2, <2>1, Zenon DEF CacheInv, BitsHaveData, HasData, Loaded, fileVars
<1> USE DEF FetchCheck
<1>4. CASE SizeOf(part[f]) = 0 \/ part[f] \in bitmap
  BY <1>1, <1>2, <1>3, <1>4, ReturnPreserves, Zenon DEF MapTypeOK
<1>5. CASE ~(SizeOf(part[f]) = 0 \/ part[f] \in bitmap)
  <2>1. part[f] \in Chunks
    BY <1>1, <1>5, SizedIsChunk, Zenon
  <2>2. Registered(part[f]) \in Channels
    BY <1>1, <1>5, <2>1, RegisterTyped, Zenon
  <2>3. /\ ready' \in [Waiters -> Channels]
        /\ \A r \in Readers : ready'[r] = ready[r]
    BY <1>5, <2>2, CacheAssumption DEF CacheInv, Typed, MapTypeOK
  <2>4. Typed'
    BY <1>2, <1>5, <2>3, Zenon DEF CacheInv, Typed, MapTypeOK, fileVars, readVars, bgVars
  <2>5. Progress'
    BY <1>5, <2>1 DEF CacheInv, Progress, Typed, SizeOf, OffsetOf
  <2>6. CallsInOrder'
    BY <1>5, <2>3, CallsKeepOrder DEF readVars
  <2> QED BY <1>3, <2>4, <2>5, <2>6, Zenon DEF CacheInv
<1> QED BY <1>4, <1>5

LEMMA FetchAcquirePreserves ==
    ASSUME CacheInv, NEW f \in Fetchers, FetchAcquire(f)
    PROVE  CacheInv'
<1>1. MapTypeOK' /\ BitsHaveData' /\ CallsInOrder'
  BY MapStutters, CallsStutter, Zenon DEF FetchAcquire
<1>2. Typed'
  BY <1>1, Zenon DEF CacheInv, Typed, FetchAcquire, readVars, bgVars
<1>3. Progress'
  BY DEF CacheInv, Progress, Typed, FetchAcquire
<1> QED BY <1>1, <1>2, <1>3 DEF CacheInv

LEMMA FetchAcquireFailPreserves ==
    ASSUME CacheInv, NEW f \in Fetchers, FetchAcquireFail(f)
    PROVE  CacheInv'
<1> USE DEF FetchAcquireFail
<1>1. part[f] \in Chunks /\ MapTypeOK /\ Register(part[f])
  BY Zenon DEF CacheInv, Typed, Progress
<1>2. /\ running' \in [Chunks -> Nat] /\ made' \in [Chunks -> Nat] /\ shut' = shut
  BY <1>1, RegisterTyped, Zenon
<1>3. BitsHaveData'
  BY <1>2, Zenon DEF CacheInv, BitsHaveData, HasData, Loaded, fileVars
<1> QED BY <1>1, <1>2, <1>3, ReturnPreserves, Zenon DEF MapTypeOK

\* The cell a fetch writes next is the next one of its chunk.
LEMMA CopiedCell ==
    ASSUME Typed, NEW f \in Fetchers, copied[f] < SizeOf(part[f])
    PROVE  OffsetOf(part[f]) + copied[f] \in Cells
<1>1. /\ part[f] \in Nat /\ copied[f] \in Nat
      /\ OffsetOf(part[f]) \in Nat /\ SizeOf(part[f]) \in 0..ChunkSize
  BY ChunkShape DEF Typed
<1>2. OffsetOf(part[f]) + copied[f] \in CellsOf(part[f])
  BY <1>1 DEF CellsOf
<1> QED BY <1>1, <1>2, ChunkShape, Zenon

LEMMA CopyProgress ==
    ASSUME Typed, Progress, NEW f \in Fetchers, copied[f] < SizeOf(part[f]), fpc[f] = "copy",
           NEW y \in Cells, y = OffsetOf(part[f]) + copied[f],
           local'[y] = "data",
           \A x \in Cells : local[x] = "data" => local'[x] = "data",
           copied' = [copied EXCEPT ![f] = @ + 1], UNCHANGED <<fpc, part>>
    PROVE  Progress'
<1> SUFFICES ASSUME NEW g \in Fetchers
             PROVE  /\ fpc[g] \in {"acquire", "copy"} => part[g] \in Chunks
                    /\ fpc[g] # "copy" => copied'[g] = 0
                    /\ copied'[g] <= SizeOf(part[g])
                    /\ \A i \in 0..(copied'[g] - 1) : local'[OffsetOf(part[g]) + i] = "data"
  BY Zenon DEF Progress, SizeOf, OffsetOf
<1>1. /\ part[g] \in Nat /\ copied[g] \in Nat
      /\ OffsetOf(part[g]) \in Nat /\ SizeOf(part[g]) \in 0..ChunkSize
  BY ChunkShape, Zenon DEF Typed
<1>2. /\ fpc[g] \in {"acquire", "copy"} => part[g] \in Chunks
      /\ fpc[g] # "copy" => copied[g] = 0
      /\ copied[g] <= SizeOf(part[g])
      /\ \A i \in 0..(copied[g] - 1) : local[OffsetOf(part[g]) + i] = "data"
  BY Zenon DEF Progress
<1>3. \A i \in 0..(copied[g] - 1) : OffsetOf(part[g]) + i \in Cells
  <2>1. PICK o \in Nat, n \in 0..ChunkSize, k \in Nat :
            o = OffsetOf(part[g]) /\ n = SizeOf(part[g]) /\ k = copied[g]
    BY <1>1, Zenon
  <2>2. CellsOf(part[g]) \subseteq Cells /\ k <= n
    BY <1>1, <1>2, <2>1, ChunkShape, Zenon
  <2>3. \A i \in 0..(k - 1) : o + i \in CellsOf(part[g])
    BY ONLY <2>1, <2>2, CacheAssumption DEF CellsOf
  <2> QED BY <2>1, <2>2, <2>3, Zenon
<1>4. \A i \in 0..(copied[g] - 1) : local'[OffsetOf(part[g]) + i] = "data"
  BY <1>2, <1>3, Zenon
<1>5. CASE g = f
  <2>1. copied'[g] = copied[g] + 1
    BY <1>5, Zenon DEF Typed
  <2>2. \A i \in 0..(copied'[g] - 1) : i \in 0..(copied[g] - 1) \/ i = copied[g]
    BY <1>1, <2>1
  <2> QED BY <1>1, <1>2, <1>4, <1>5, <2>1, <2>2
<1>6. CASE g # f
  <2>1. copied'[g] = copied[g]
    BY <1>6 DEF Typed
  <2> QED BY <1>2, <1>4, <2>1, Zenon
<1> QED BY <1>5, <1>6, Zenon

LEMMA FetchCopyPreserves ==
    ASSUME CacheInv, NEW f \in Fetchers, FetchCopy(f)
    PROVE  CacheInv'
<1>1. /\ fpc[f] = "copy" /\ copied[f] < SizeOf(part[f])
      /\ local' = [local EXCEPT ![OffsetOf(part[f]) + copied[f]] = "data"]
      /\ copied' = [copied EXCEPT ![f] = @ + 1]
      /\ UNCHANGED <<mapVars, phase, readVars, fpc, part, bgVars>>
  BY Zenon DEF FetchCopy
<1>2. PICK y \in Cells : y = OffsetOf(part[f]) + copied[f]
  BY <1>1, CopiedCell, Zenon DEF CacheInv
<1>3. /\ local' \in [Cells -> Contents] /\ local'[y] = "data"
      /\ \A x \in Cells : local[x] = "data" => local'[x] = "data"
  BY <1>1, <1>2, Zenon DEF CacheInv, Typed, Contents
<1>4. Typed'
  <2>1. MapTypeOK'
    BY <1>1, Zenon DEF CacheInv, Typed, MapTypeOK, mapVars
  <2>2. copied' \in [Fetchers -> Nat]
    BY <1>1 DEF CacheInv, Typed
  <2> QED BY <1>1, <1>3, <2>1, <2>2, Zenon DEF CacheInv, Typed, readVars, bgVars
<1>5. Progress'
  BY <1>1, <1>2, <1>3, CopyProgress, Zenon DEF CacheInv
<1>6. UNCHANGED <<bitmap, disk, temp, shut, ready, rpc, req>>
  BY <1>1, Zenon DEF mapVars, readVars
<1>7. BitsHaveData'
  BY <1>3, <1>6, BitsKeepData, Zenon DEF Loaded
<1>8. CallsInOrder'
  BY <1>3, <1>6, CallsKeepOrder, Zenon
<1> QED BY <1>4, <1>5, <1>7, <1>8, Zenon DEF CacheInv

LEMMA FetchErrorPreserves ==
    ASSUME CacheInv, NEW f \in Fetchers, FetchError(f)
    PROVE  CacheInv'
<1> USE DEF FetchError
<1>1. BitsHaveData'
  BY Zenon DEF CacheInv, BitsHaveData, HasData, Loaded, fileVars
<1> QED BY <1>1, ReturnPreserves, Zenon DEF CacheInv, Typed, MapTypeOK

LEMMA FetchDonePreserves ==
    ASSUME CacheInv, NEW f \in Fetchers, FetchDone(f)
    PROVE  CacheInv'
<1>1. fpc[f] = "copy" /\ copied[f] = SizeOf(part[f]) /\ DoneOf(part[f])
  BY Zenon DEF FetchDone
<1>2. part[f] \in Chunks /\ part[f] \in Nat /\ MapTypeOK
  BY <1>1, Zenon DEF CacheInv, Typed, Progress
<1>3. HasData(part[f])
  BY <1>1, CopiedIsData
<1>4. /\ bitmap' = bitmap \union {part[f]} /\ bitmap' \subseteq Chunks
      /\ version' \in Nat /\ running' \in [Chunks -> Nat] /\ made' \in [Chunks -> Nat]
      /\ shut' \in [Chunks -> SUBSET Nat]
      /\ \A x \in Chunks : shut'[x] # {} => shut[x] # {} \/ x = part[f]
  BY <1>1, <1>2, DoneTyped, Zenon
<1>5. UNCHANGED <<fileVars, local, phase>>
  BY Zenon DEF FetchDone
<1>6. BitsHaveData'
  BY <1>2, <1>3, <1>4, <1>5, BitsKeepData DEF Loaded, fileVars
<1> QED BY <1>4, <1>5, <1>6, ReturnPreserves, Zenon DEF FetchDone

LEMMA BgFetchPreserves ==
    ASSUME CacheInv, BgFetch
    PROVE  CacheInv'
<1>1. Background \in Fetchers
  BY Zenon DEF Fetchers
<1>2. MapTypeOK' /\ BitsHaveData' /\ CallsInOrder'
  BY MapStutters, CallsStutter, Zenon DEF BgFetch
<1>3. Typed'
  BY <1>1, <1>2, Zenon DEF CacheInv, Typed, BgFetch, readVars, bgVars
<1>4. SizeOf(bgNext) \in 0..ChunkSize
  BY ChunkShape, Zenon DEF CacheInv, Typed
<1>5. Progress'
  BY <1>1, <1>4 DEF CacheInv, Progress, Typed, BgFetch
<1> QED BY <1>2, <1>3, <1>5 DEF CacheInv

LEMMA BgLostPreserves ==
    ASSUME CacheInv, NEW c \in Chunks, BgLost(c)
    PROVE  CacheInv'
<1> USE DEF CacheInv, BgLost, LostOf, fileVars, readVars, fetchVars, bgVars
<1>1. Typed' /\ Progress'
  BY DEF Typed, MapTypeOK, Progress
<1>2. BitsHaveData' /\ CallsInOrder'
  BY Zenon DEF BitsHaveData, HasData, Loaded, CallsInOrder, First
<1> QED BY <1>1, <1>2, Zenon

\* AutoSave and Close: a Save is a step of the map and its file only.
LEMMA CacheSavePreserves ==
    ASSUME CacheInv, NEW s \in Savers, SaveBegin(s) \/ SaveRename(s) \/ SaveFail(s),
           phase' \in Phases,
           UNCHANGED <<bitmap, version, chanVars, local, readVars, fetchVars, bgVars>>
    PROVE  CacheInv'
<1>1. UNCHANGED <<bitmap, version, running, made, shut, ready>>
  BY Zenon DEF chanVars
<1>2. MapTypeOK
  BY DEF CacheInv, Typed
<1>3. MapTypeOK' /\ BitsHaveData'
  BY <1>1, <1>2, SaveTyped, BitsKeepData, Zenon
<1>4. Typed'
  BY <1>3 DEF CacheInv, Typed, readVars, fetchVars, bgVars
<1>5. Progress'
  BY FetchersStutter, Zenon
<1>6. CallsInOrder'
  BY <1>1, CallsKeepOrder, Zenon DEF readVars
<1> QED BY <1>3, <1>4, <1>5, <1>6 DEF CacheInv

LEMMA AutoSavePreserves ==
    ASSUME CacheInv, AutoSave
    PROVE  CacheInv'
<1>1. AutoSaver \in Savers /\ phase' \in Phases
  BY CacheAssumption DEF AutoSave, CacheInv, Typed
<1> QED BY <1>1, CacheSavePreserves, Zenon DEF AutoSave

\* Steps that change the phase or the loops and nothing else.
LEMMA ClosingPreserves ==
    ASSUME CacheInv, Closing \/ \E g \in Loops : LoopEnd(g)
    PROVE  CacheInv'
<1>1. CASE CloseSave
  <2>1. Closer \in Savers /\ phase' \in Phases
    BY <1>1, CacheAssumption DEF CloseSave, CacheInv, Typed, Phases
  <2> QED BY <1>1, <2>1, CacheSavePreserves, Zenon DEF CloseSave
<1>2. CASE ~CloseSave
  <2>1. /\ UNCHANGED <<mapVars, local, readVars, fetchVars, bgNext, bgRetry>>
        /\ phase' \in Phases /\ loops' \subseteq Loops
    BY <1>2, Zenon DEF Closing, CloseCancel, CloseLocal, CloseReturn, LoopEnd, bgVars, CacheInv,
                Typed, Phases
  <2>2. MapTypeOK' /\ BitsHaveData' /\ CallsInOrder' /\ Progress'
    BY <2>1, MapStutters, CallsStutter, FetchersStutter, Zenon
  <2>3. Typed'
    BY <2>1, <2>2, Zenon DEF CacheInv, Typed, readVars, fetchVars
  <2> QED BY <2>2, <2>3, Zenon DEF CacheInv
<1> QED BY <1>1, <1>2, Zenon

LEMMA ReopenTyped ==
    ASSUME Typed, Reopen, local' = local
    PROVE  Typed'
<1>1. MapTypeOK'
  BY ReopenedTyped, Zenon DEF Typed, Reopen
<1>2. /\ rpc' \in [Readers -> {"idle", "check", "wait"}]
      /\ req' \in [Readers -> Requests \union {NoRequest}]
      /\ failed' \subseteq Readers /\ reply' \in [Readers -> Answers]
  BY DEF Reopen, Answers
<1>3. /\ fpc' \in [Fetchers -> {"idle", "check", "acquire", "copy"}]
      /\ part' \in [Fetchers -> Nat] /\ copied' \in [Fetchers -> Nat]
  BY Zenon DEF Reopen
<1>4. /\ phase' \in Phases /\ loops' \subseteq Loops
      /\ bgNext' \in Nat /\ bgRetry' \in 0..RetryLimit
  BY CacheAssumption DEF Reopen, Phases
<1> QED BY <1>1, <1>2, <1>3, <1>4, Zenon DEF Typed

LEMMA ReopenPreserves ==
    ASSUME CacheInv, Reopen, local' = local
    PROVE  CacheInv'
<1>1. Typed'
  BY ReopenTyped DEF CacheInv
<1>2. SizeOf(0) \in 0..ChunkSize
  BY ChunkShape, Zenon
<1>3. Progress'
  BY <1>2 DEF Reopen, Progress
<1>4. /\ bitmap' = Loaded(disk) /\ Loaded(disk)' = Loaded(disk)
      /\ \A s \in Savers : temp'[s].bits = {}
      /\ \A c \in Chunks : shut'[c] = {}
      /\ \A r \in Readers : ready'[r] = NoChannel
  BY CacheAssumption, Zenon DEF Reopen, Reopened, Idle, Loaded
<1>5. BitsHaveData'
  BY <1>4, Zenon DEF CacheInv, BitsHaveData, HasData
<1>6. CallsInOrder'
  BY <1>4, Zenon DEF Reopen, CallsInOrder
<1> QED BY <1>1, <1>3, <1>5, <1>6 DEF CacheInv

\* Steps of Integrity that do not show, and no step at all.
LEMMA ScrubberStutters ==
    ASSUME CacheInv, UNCHANGED <<mapVars, local, phase, readVars, fetchVars, bgVars>>
    PROVE  CacheInv'
<1>1. MapTypeOK' /\ BitsHaveData' /\ CallsInOrder' /\ Progress'
  BY MapStutters, CallsStutter, FetchersStutter, Zenon
<1>2. Typed'
  BY <1>1, Zenon DEF CacheInv, Typed, readVars, fetchVars, bgVars
<1> QED BY <1>1, <1>2 DEF CacheInv

LEMMA CacheStepPreserves ==
    ASSUME CacheInv, ReadsStayInChunk, "power" \notin Faults, [Next]_vars
    PROVE  CacheInv'
<1>1. CASE UNCHANGED vars \/ IntegrityGood \/ IntegrityWake
  BY <1>1, ScrubberStutters, Zenon DEF vars, IntegrityGood, IntegrityWake
<1>2. CASE \E r \in Readers : Reading(r)
  BY <1>2, ReadAtPreserves, ReadCheckPreserves, ReadReturnsPreserve, Zenon DEF Reading
<1>3. CASE \E f \in Fetchers : Fetching(f)
  BY <1>3, FetchCheckPreserves, FetchAcquirePreserves, FetchAcquireFailPreserves,
     FetchCopyPreserves, FetchErrorPreserves, FetchDonePreserves DEF Fetching
<1>4. CASE BgFetch \/ AutoSave \/ \E c \in Chunks : BgLost(c)
  BY <1>4, BgFetchPreserves, BgLostPreserves, AutoSavePreserves
<1>5. CASE Closing \/ \E g \in Loops : LoopEnd(g)
  BY <1>5, ClosingPreserves
<1>6. CASE OpenAgain \/ Crash
  BY <1>6, ReopenPreserves DEF OpenAgain, Crash
<1> QED BY <1>1, <1>2, <1>3, <1>4, <1>5, <1>6 DEF Next, Scrubbing, PowerLoss

-----------------------------------------------------------------------------
(* Theorems *)

\* What belongs to Integrity alone.
ScrubTyped ==
    /\ ipc \in {"open", "select", "verify", "returned"}
    /\ dropped \subseteq Readers

LEMMA ScrubStaysTyped ==
    ASSUME ScrubTyped, [Next]_vars
    PROVE  ScrubTyped'
<1> USE DEF ScrubTyped
<1>1. CASE UNCHANGED vars \/ UNCHANGED scrubVars
  BY <1>1, Zenon DEF vars, scrubVars
<1>2. CASE \E r \in Readers : Reading(r)
  BY <1>2, Zenon DEF Reading, ReadAt, ReadCheck, ReadReady, ReadFail, ReadTimeout, Answer, scrubVars
<1>3. CASE \E f \in Fetchers : Fetching(f)
  <2>1. PICK f \in Fetchers : Fetching(f)
    BY <1>3
  <2>2. ASSUME NEW err, Return(f, err) PROVE UNCHANGED scrubVars
    BY <2>2, Zenon DEF Return, scrubVars
  <2>3. UNCHANGED scrubVars
    BY <2>1, <2>2, Zenon DEF Fetching, FetchCheck, FetchAcquire, FetchAcquireFail, FetchCopy,
                FetchError, FetchDone, scrubVars
  <2> QED BY <1>1, <2>3
<1>4. CASE Scrubbing \/ IntegrityWake \/ \E g \in Loops : LoopEnd(g)
  BY <1>4, Zenon DEF Scrubbing, IntegrityGood, BgLost, IntegrityWake, LoopEnd
<1>5. CASE BgFetch \/ AutoSave \/ Closing
  <2>1. UNCHANGED scrubVars
    BY <1>5, Zenon DEF BgFetch, AutoSave, Closing, CloseCancel, CloseLocal, CloseSave,
                CloseReturn, scrubVars
  <2> QED BY <1>1, <2>1
<1>6. CASE OpenAgain \/ Crash \/ PowerLoss
  BY <1>6, Zenon DEF OpenAgain, Crash, PowerLoss, Reopen
<1> QED BY <1>1, <1>2, <1>3, <1>4, <1>5, <1>6, Zenon DEF Next

LEMMA CacheInvariant ==
    ASSUME ReadsStayInChunk, "power" \notin Faults
    PROVE  Spec => []CacheInv
BY CacheInitInvariant, CacheStepPreserves, PTL DEF Spec

\* Every variable keeps its type: in particular no fetch writes more cells
\* than a chunk has, and bgFetchAll retries no more than retryLimit times.
THEOREM CacheTypeCorrect ==
    ASSUME ReadsStayInChunk, "power" \notin Faults
    PROVE  Spec => []TypeOK
<1>1. CacheInv /\ ScrubTyped => TypeOK
  <2> SUFFICES ASSUME CacheInv, ScrubTyped PROVE TypeOK
    OBVIOUS
  <2>1. copied \in [Fetchers -> 0..ChunkSize]
    <3> SUFFICES ASSUME NEW f \in Fetchers PROVE copied[f] \in 0..ChunkSize
      BY DEF CacheInv, Typed
    <3> QED BY ChunkShape, CacheAssumption DEF CacheInv, Typed, Progress
  <2>2. \A r \in Readers : DOMAIN reply[r].data \subseteq Cells
    <3> SUFFICES ASSUME NEW a \in Answers PROVE DOMAIN a.data \subseteq Cells
      BY DEF CacheInv, Typed
    <3>1. CASE a = NoReply
      <4>1. a.data = [x \in {} |-> "blank"]
        BY <3>1, Zenon DEF NoReply
      <4> QED BY <4>1
    <3>2. ASSUME NEW q \in Requests, a = Outside!Object(q)
          PROVE  DOMAIN a.data \subseteq Cells
      <4>1. a.data = [x \in Returned(q) |-> "data"]
        BY <3>2 DEF Outside!Object
      <4> QED BY <4>1, Zenon DEF Returned
    <3> QED BY <3>1, <3>2, Zenon DEF Answers
  <2> QED BY <2>1, <2>2 DEF CacheInv, ScrubTyped, Typed, TypeOK
<1>2. Init => ScrubTyped
  BY Zenon DEF Init, ScrubTyped
<1> QED BY <1>1, <1>2, CacheInvariant, ScrubStaysTyped, PTL DEF Spec

\* A chunk that the map in memory or the map file calls available is in the
\* local file (cache.go:210-221, chunk.go:59-115): the copy comes before the
\* bit, the bit before the file, and a crash cannot separate them.
THEOREM MapStaysTrue ==
    ASSUME ReadsStayInChunk, "power" \notin Faults
    PROVE  Spec => []AvailabilityMapTrue
<1>1. CacheInv => AvailabilityMapTrue
  BY Zenon DEF CacheInv, BitsHaveData, AvailabilityMapTrue
<1> QED BY <1>1, CacheInvariant, PTL

\* ReadAt (cache.go:113-150) implements a read of the immutable object: every
\* step of the cache is a step of ObjectReads or does not show outside.
THEOREM CacheImplementsObjectReads ==
    ASSUME ReadsStayInChunk, "power" \notin Faults
    PROVE  Spec => ReadsFromObject
<1>1. Init => Outside!AbsInit
  BY Zenon DEF Init, Outside!AbsInit
<1>2. ASSUME CacheInv, [Next]_vars
      PROVE  [Outside!AbsNext]_(Outside!absVars)
  <2> USE DEF Outside!absVars
  <2>1. CASE UNCHANGED vars \/ IntegrityGood \/ IntegrityWake
    BY <2>1, Zenon DEF vars, IntegrityGood, IntegrityWake, readVars
  <2>2. ASSUME NEW r \in Readers, NEW q \in Requests, ReadAt(r, q)
        PROVE  Outside!Call(r, q)
    BY <1>2, <2>2, Zenon DEF ReadAt, CacheInv, CallsInOrder, Outside!Call
  <2>3. ASSUME NEW r \in Readers, ReadReady(r) \/ ReadFail(r) \/ ReadTimeout(r)
        PROVE  Outside!Succeed(r) \/ Outside!Fail(r)
    <3>1. rpc[r] = "wait" /\ req[r] # NoRequest
      BY <1>2, <2>3 DEF ReadReady, ReadFail, ReadTimeout, Answer, CacheInv, CallsInOrder
    <3>2. \/ Answer(r, NoReply)
          \/ Answer(r, Outside!Object(req[r]))
      BY <1>2, <2>3, <3>1, ReadyIsObject, Zenon DEF ReadReady, ReadFail, ReadTimeout
    <3> QED BY <3>1, <3>2, Zenon DEF Answer, Outside!Succeed, Outside!Fail
  <2>4. CASE \E r \in Readers : ReadCheck(r)
    BY <2>4 DEF ReadCheck
  <2>5. CASE \E f \in Fetchers : Fetching(f)
    BY <2>5, Zenon DEF Fetching, FetchCheck, FetchAcquire, FetchAcquireFail, FetchCopy,
                FetchError, FetchDone, Return, readVars
  <2>6. CASE BgFetch \/ AutoSave \/ (\E c \in Chunks : BgLost(c)) \/ Closing
             \/ \E g \in Loops : LoopEnd(g)
    BY <2>6, Zenon DEF BgFetch, AutoSave, BgLost, Closing, CloseCancel, CloseLocal, CloseSave,
                CloseReturn, LoopEnd, readVars
  <2>7. CASE OpenAgain \/ Crash \/ PowerLoss
    BY <2>7 DEF OpenAgain, Crash, PowerLoss, Reopen, Outside!Forget, Outside!AbsNext
  <2> QED BY <1>2, <2>1, <2>2, <2>3, <2>4, <2>5, <2>6, <2>7, Zenon
          DEF Next, Reading, Scrubbing, Outside!AbsNext
<1> QED BY <1>1, <1>2, CacheInvariant, PTL DEF Spec, ReadsFromObject, Outside!AbsSpec
=============================================================================
