------------------------------- MODULE Cache --------------------------------
(***************************************************************************)
(* nbd/s3/cache.go: the local read cache of an object in the object store. *)
(* ReadAt starts one fetch per chunk and waits for the first chunk; each   *)
(* fetch copies its chunk from the store to the local file and marks it    *)
(* done; bgFetchAll warms the cache up; bgIntegrity reads chunks through   *)
(* the cache and drops those it cannot verify; AutoSave and Close keep the *)
(* chunk map; the process may die at any moment.                           *)
(*                                                                         *)
(* The object is immutable.  A cell of the local file (a run of bytes that *)
(* is written at once) holds the object's data or is blank, as fallocate   *)
(* left it.  The connection queue is module Queue: here Acquire just takes *)
(* time, and fails only when the fetch's context is done.                  *)
(***************************************************************************)
EXTENDS ChunkMap

CONSTANTS Readers,     \* callers of ReadAt
          MaxParts,    \* bound: chunks one ReadAt may ask for
          Total,       \* size of the object, in cells
          ChunkSize,   \* size of a chunk, in cells
          Requests,    \* reads the callers make: [off, len]
          RetryLimit,  \* retryLimit of bgFetchAll
          Faults       \* what may go wrong, out of FaultKinds

\* The store or the network fails; a read takes more than a minute; what
\* Verify reads does not match; the process dies; the machine loses power.
FaultKinds == {"store", "timeout", "scrub", "crash", "power"}

Cells == 0..(Total - 1)
Contents == {"blank", "data"}
Min2(a, b) == IF a < b THEN a ELSE b

(* Goroutines that run fetch: one per part of a reader's call, and bgFetchAll. *)
PartFetchers == Readers \X (1..MaxParts)
Background == <<"bgFetchAll", 0>>
Fetchers == PartFetchers \union {Background}
AutoSaver == "AutoSave"

(* verity.Open and then bgIntegrity.  Both call ReadAt like any reader, and  *)
(* it starts the same fetches; here these reads just take time, and fail     *)
(* when a fetch or the cache's context makes them fail.                      *)
Integrity == "bgIntegrity"
Loops == {AutoSaver, Background[1], Integrity}
Closer == "Close"

ASSUME CacheAssumption ==
    /\ Total \in Nat /\ ChunkSize \in Nat \ {0} /\ MaxParts \in Nat
    /\ RetryLimit \in Nat /\ Faults \subseteq FaultKinds
    /\ Requests \subseteq [off : Nat, len : Nat]
    /\ \A q \in Requests : q.len > 0 /\ q.len <= MaxParts * ChunkSize
    /\ Waiters = Readers \union Fetchers /\ Readers \intersect Fetchers = {}
    /\ Savers = {AutoSaver, Closer}
    /\ Chunks = {c \in 0..Total : c * ChunkSize < Total}

\* chunkMap.Offset: where a chunk starts, and its size: that of the tail for
\* the last chunk, zero after it.
SizeOf(c) == IF c * ChunkSize > Total THEN 0
             ELSE Min2(ChunkSize, Total - c * ChunkSize)
OffsetOf(c) == IF c * ChunkSize > Total THEN 0 ELSE c * ChunkSize
CellsOf(c) == {OffsetOf(c) + i : i \in 0..(SizeOf(c) - 1)}

VARIABLES
    local,    \* local[x]: the cell x of the local file
    phase,    \* how far Open and Close have come
    rpc,      \* rpc[r]: "idle", "check" or "wait": the reader in ReadAt
    req,      \* req[r]: the arguments of ReadAt
    failed,   \* readers whose ReadAt context a fetch has cancelled
    reply,    \* reply[r]: what the last ReadAt of r returned
    fpc,      \* fpc[f]: "idle", "check", "acquire" or "copy": f in fetch
    part,     \* part[f]: the chunk f fetches
    copied,   \* copied[f]: cells f has written
    loops,    \* background goroutines that have not returned
    bgNext,   \* bgFetchAll: part
    bgRetry,  \* bgFetchAll: retry
    ipc,      \* Integrity: in verity.Open ("open"), at the "select" of
              \* bgIntegrity, in Verify ("verify"), or "returned"
    dropped   \* a history variable: readers whose first chunk was dropped
              \* between the look their fetch took at it and their own

readVars == <<rpc, req, failed, reply>>
fetchVars == <<fpc, part, copied>>
bgVars == <<loops, bgNext, bgRetry>>
scrubVars == <<ipc, dropped>>
vars == <<mapVars, local, phase, readVars, fetchVars, bgVars, scrubVars>>

Phases == {"open", "cancelled", "localclosed", "waiting", "closed"}
NoRequest == [off |-> 0, len |-> 0]
NoReply == [ok |-> FALSE, data |-> [x \in {} |-> "blank"]]

Stopping == phase # "open"
LocalClosed == phase \in {"localclosed", "waiting", "closed"}

\* Open: the chunk map is loaded, the goroutines are started.
Init ==
    /\ MapInit
    /\ local \in [Cells -> Contents]
    /\ \A c \in Loaded(disk) : \A x \in CellsOf(c) : local[x] = "data"
    /\ phase = "open"
    /\ rpc = [r \in Readers |-> "idle"]
    /\ req = [r \in Readers |-> NoRequest]
    /\ failed = {}
    /\ reply = [r \in Readers |-> NoReply]
    /\ fpc = [f \in Fetchers |-> "idle"]
    /\ part = [f \in Fetchers |-> 0]
    /\ copied = [f \in Fetchers |-> 0]
    /\ loops = Loops
    /\ bgNext = 0
    /\ bgRetry = 0
    /\ ipc = "open"
    /\ dropped = {}

-----------------------------------------------------------------------------
(* ReadAt *)

First(r) == req[r].off \div ChunkSize

\* ReadAt schedules one fetch for each ChunkSize of its length.  (A reader
\* here waits for the fetches of its last call before it calls again.)
ReadAt(r, q) ==
    /\ rpc[r] = "idle"
    /\ \A i \in 1..MaxParts : fpc[<<r, i>>] = "idle"
    /\ rpc' = [rpc EXCEPT ![r] = "check"]
    /\ req' = [req EXCEPT ![r] = q]
    /\ failed' = failed \ {r}
    /\ reply' = [reply EXCEPT ![r] = NoReply]
    /\ LET first == q.off \div ChunkSize
           scheduled == {i \in 1..MaxParts : (i - 1) * ChunkSize < q.len}
       IN  /\ fpc' = [f \in Fetchers |->
                        IF f[1] = r /\ f[2] \in scheduled THEN "check" ELSE fpc[f]]
           /\ part' = [f \in Fetchers |->
                        IF f[1] = r /\ f[2] \in scheduled THEN first + f[2] - 1 ELSE part[f]]
    /\ UNCHANGED <<mapVars, local, phase, copied, bgVars, scrubVars>>

\* ready, _ := c.chunk.Check(first)
ReadCheck(r) ==
    /\ rpc[r] = "check"
    /\ rpc' = [rpc EXCEPT ![r] = "wait"]
    /\ IF SizeOf(First(r)) = 0
       THEN UNCHANGED chanVars
       ELSE Register(First(r)) /\ ready' = [ready EXCEPT ![r] = Registered(First(r))]
    /\ UNCHANGED <<bitmap, version, fileVars, local, phase, req, failed, reply,
                   fetchVars, bgVars, scrubVars>>

\* The cells that local.ReadAt(p[:min(len(p), chunkSize)], offset) returns.
Returned(q) == {x \in Cells : q.off <= x /\ x < q.off + Min2(q.len, ChunkSize)}

Answer(r, a) ==
    /\ rpc[r] = "wait"
    /\ rpc' = [rpc EXCEPT ![r] = "idle"]
    /\ reply' = [reply EXCEPT ![r] = a]
    /\ req' = [req EXCEPT ![r] = NoRequest]
    /\ ready' = [ready EXCEPT ![r] = NoChannel]
    /\ dropped' = dropped \ {r}
    /\ UNCHANGED <<bitmap, running, made, shut, version, fileVars, local, phase, failed,
                   fetchVars, bgVars, ipc>>

\* A wrong ReadAt: it does not wait for the first chunk.
ReadAtOnce(r) ==
    Answer(r, IF LocalClosed THEN NoReply
              ELSE [ok |-> TRUE, data |-> [x \in Returned(req[r]) |-> local[x]]])

\* The select of ReadAt: the first chunk is there ...
ReadReady(r) ==
    /\ IsReady(r)
    /\ Answer(r, IF LocalClosed THEN NoReply
                 ELSE [ok |-> TRUE, data |-> [x \in Returned(req[r]) |-> local[x]]])

\* ... or the context is done: a fetch failed, or the cache is closed ...
ReadFail(r) ==
    /\ r \in failed \/ Stopping
    /\ Answer(r, NoReply)

\* ... or the deadline of one minute has passed.
ReadTimeout(r) == "timeout" \in Faults /\ Answer(r, NoReply)

-----------------------------------------------------------------------------
(* fetch *)

\* A wrong fetch: its error is not passed on to the ReadAt that started it.
ReturnInSilence(f, err) ==
    /\ fpc' = [fpc EXCEPT ![f] = "idle"]
    /\ part' = [part EXCEPT ![f] = 0]
    /\ copied' = [copied EXCEPT ![f] = 0]
    /\ ready' = [ready EXCEPT ![f] = NoChannel]
    /\ IF f # Background THEN UNCHANGED <<bgNext, bgRetry>>
       ELSE IF err /\ bgRetry < RetryLimit
       THEN bgRetry' = bgRetry + 1 /\ UNCHANGED bgNext
       ELSE bgRetry' = 0 /\ bgNext' = bgNext + 1
    /\ UNCHANGED <<loops, rpc, req, failed, reply, scrubVars>>

\* fetch returns: an error cancels the context of the ReadAt that started it.
\* bgFetchAll retries the chunk, or goes on to the next one.
Return(f, err) ==
    /\ fpc' = [fpc EXCEPT ![f] = "idle"]
    /\ part' = [part EXCEPT ![f] = 0]
    /\ copied' = [copied EXCEPT ![f] = 0]
    /\ ready' = [ready EXCEPT ![f] = NoChannel]
    /\ failed' = IF err THEN failed \union (Readers \cap {f[1]}) ELSE failed
    /\ IF f # Background THEN UNCHANGED <<bgNext, bgRetry>>
       ELSE IF err /\ bgRetry < RetryLimit
       THEN bgRetry' = bgRetry + 1 /\ UNCHANGED bgNext
       ELSE bgRetry' = 0 /\ bgNext' = bgNext + 1
    /\ UNCHANGED <<loops, rpc, req, reply, scrubVars>>

\* The context of fetch is done: its watcher saw the chunk's channel closed
\* (errDoneElsewhere), or the cache was closed.
FetchCtxDone(f) == IsReady(f) \/ Stopping

FetchCheck(f) ==
    /\ fpc[f] = "check"
    /\ IF SizeOf(part[f]) = 0
       THEN UNCHANGED <<running, made, shut>>
       ELSE Register(part[f])
    /\ IF SizeOf(part[f]) = 0 \/ part[f] \in bitmap
       THEN Return(f, FALSE)
       ELSE /\ fpc' = [fpc EXCEPT ![f] = "acquire"]
            /\ ready' = [ready EXCEPT ![f] = Registered(part[f])]
            /\ UNCHANGED <<part, copied, readVars, bgVars, scrubVars>>
    /\ UNCHANGED <<bitmap, version, fileVars, local, phase>>

FetchAcquire(f) ==
    /\ fpc[f] = "acquire"
    /\ fpc' = [fpc EXCEPT ![f] = "copy"]
    /\ UNCHANGED <<mapVars, local, phase, readVars, part, copied, bgVars, scrubVars>>

\* Acquire failed: nil after all if the chunk is done by now.
FetchAcquireFail(f) ==
    /\ fpc[f] = "acquire"
    /\ FetchCtxDone(f)
    /\ Register(part[f])
    /\ Return(f, part[f] \notin bitmap)
    /\ UNCHANGED <<bitmap, version, fileVars, local, phase>>

\* io.CopyBuffer writes the next cell of the chunk.
FetchCopy(f) ==
    /\ fpc[f] = "copy" /\ copied[f] < SizeOf(part[f])
    /\ ~LocalClosed
    /\ local' = [local EXCEPT ![OffsetOf(part[f]) + copied[f]] = "data"]
    /\ copied' = [copied EXCEPT ![f] = @ + 1]
    /\ UNCHANGED <<mapVars, phase, readVars, fpc, part, bgVars, scrubVars>>

\* The copy ends with an error: the store, the network or the local file
\* fails, the object ends early, or the context of fetch is done.
FetchError(f) ==
    /\ fpc[f] = "copy"
    /\ "store" \in Faults \/ LocalClosed \/ FetchCtxDone(f)
    /\ Return(f, TRUE)
    /\ UNCHANGED <<bitmap, running, made, shut, version, fileVars, local, phase>>

\* A wrong end of fetch: nobody counts what was copied.
FetchDoneShort(f) ==
    /\ version < MaxChanges
    /\ fpc[f] = "copy"
    /\ DoneOf(part[f])
    /\ Return(f, FALSE)
    /\ UNCHANGED <<fileVars, local, phase>>

\* All of the chunk is written: c.chunk.Done(part).
FetchDone(f) ==
    /\ version < MaxChanges
    /\ fpc[f] = "copy" /\ copied[f] = SizeOf(part[f])
    /\ DoneOf(part[f])
    /\ Return(f, FALSE)
    /\ UNCHANGED <<fileVars, local, phase>>

-----------------------------------------------------------------------------
(* Background work *)

\* bgFetchAll, once the cache has been idle long enough.
BgFetch ==
    /\ Background[1] \in loops
    /\ fpc[Background] = "idle"
    /\ bgNext * ChunkSize < Total
    /\ fpc' = [fpc EXCEPT ![Background] = "check"]
    /\ part' = [part EXCEPT ![Background] = bgNext]
    /\ UNCHANGED <<mapVars, local, phase, readVars, copied, bgVars, scrubVars>>

\* verity.Open found a hash tree behind the object (if not, see LoopEnd), or
\* Verify found nothing wrong with the chunk.
IntegrityGood ==
    /\ ipc = "verify" \/ (ipc = "open" /\ ~LocalClosed)
    /\ ipc' = "select"
    /\ UNCHANGED <<mapVars, local, phase, readVars, fetchVars, bgVars, dropped>>

\* bgIntegrity has slept long enough (module Scrub).  The bound is here: what
\* Verify leads to can always happen.
IntegrityWake ==
    /\ ipc = "select"
    /\ version < MaxChanges
    /\ ipc' = "verify"
    /\ UNCHANGED <<mapVars, local, phase, readVars, fetchVars, bgVars, dropped>>

\* Verify fails: what it read does not match, or it could not read it, as when
\* the cache is being closed.  c.chunk.Lost(part)
BgLost(c) ==
    /\ ipc = "verify"
    /\ Faults \intersect {"store", "timeout", "scrub"} # {} \/ Stopping
    /\ LostOf(c)
    /\ ipc' = "select"
    /\ dropped' = dropped \union
          {r \in Readers : rpc[r] = "check" /\ First(r) = c /\ fpc[<<r, 1>>] = "idle"}
    /\ UNCHANGED <<ready, fileVars, local, phase, readVars, fetchVars, bgVars>>

\* AutoSave: it saves the map if it has changed since it was last saved, at a
\* moment of its choice (module AutoSave).
AutoSave ==
    /\ AutoSaver \in loops
    /\ \/ /\ disk.form # "current" \/ disk.version < version
          /\ SaveBegin(AutoSaver)
       \/ SaveRename(AutoSaver)
       \/ SaveFail(AutoSaver)
    /\ UNCHANGED <<bitmap, version, chanVars, local, phase, readVars, fetchVars, bgVars, scrubVars>>

\* A wrong end of the loops: bgIntegrity does not listen to the context.
LoopEndless(g) ==
    /\ g \in loops
    /\ \/ g = AutoSaver /\ ~temp[AutoSaver].busy /\ Stopping
       \/ /\ g = Background[1] /\ fpc[Background] = "idle"
          /\ Stopping \/ bgNext * ChunkSize >= Total
       \/ g = Integrity /\ ipc = "open"
    /\ loops' = loops \ {g}
    /\ ipc' = IF g = Integrity THEN "returned" ELSE ipc
    /\ UNCHANGED <<mapVars, local, phase, readVars, fetchVars, bgNext, bgRetry, dropped>>

\* The select at the head of a loop sees the cancelled context (it may see
\* its timer first).  bgFetchAll also returns after the last chunk, and
\* Integrity when verity.Open fails: it could not read, or did not find, the
\* superblocks.
LoopEnd(g) ==
    /\ g \in loops
    /\ \/ g = AutoSaver /\ ~temp[AutoSaver].busy /\ Stopping
       \/ /\ g = Background[1] /\ fpc[Background] = "idle"
          /\ Stopping \/ bgNext * ChunkSize >= Total
       \/ g = Integrity /\ (ipc = "open" \/ (ipc = "select" /\ Stopping))
    /\ loops' = loops \ {g}
    /\ ipc' = IF g = Integrity THEN "returned" ELSE ipc
    /\ UNCHANGED <<mapVars, local, phase, readVars, fetchVars, bgNext, bgRetry, dropped>>

-----------------------------------------------------------------------------
(* Close, and the end of the process *)

\* c.cancel: every context of the cache is done.
CloseCancel ==
    /\ phase = "open"
    /\ phase' = "cancelled"
    /\ UNCHANGED <<mapVars, local, readVars, fetchVars, bgVars, scrubVars>>

\* c.local.Close: reads and writes of the local file fail from here on.
CloseLocal ==
    /\ phase = "cancelled"
    /\ phase' = "localclosed"
    /\ UNCHANGED <<mapVars, local, readVars, fetchVars, bgVars, scrubVars>>

\* c.chunk.Close saves the map while fetches may still be on their way.
CloseSave ==
    /\ phase = "localclosed"
    /\ \/ SaveBegin(Closer) /\ UNCHANGED phase
       \/ SaveRename(Closer) /\ phase' = "waiting"
       \/ SaveFail(Closer) /\ phase' = "waiting"
    /\ UNCHANGED <<bitmap, version, chanVars, local, readVars, fetchVars, bgVars, scrubVars>>

\* goro.Wait: Close returns when no goroutine of the cache is left.  A
\* ReadAt is not one of them, and may start new ones after that.
GoroutinesEnded ==
    /\ \A f \in Fetchers : fpc[f] = "idle"
    /\ loops = {}

CloseReturn ==
    /\ phase = "waiting"
    /\ GoroutinesEnded
    /\ phase' = "closed"
    /\ UNCHANGED <<mapVars, local, readVars, fetchVars, bgVars, scrubVars>>

\* A new process opens the same cache directory.
Reopen ==
    /\ phase' = "open"
    /\ Reopened
    /\ rpc' = [r \in Readers |-> "idle"]
    /\ req' = [r \in Readers |-> NoRequest]
    /\ failed' = {}
    /\ reply' = [r \in Readers |-> NoReply]
    /\ fpc' = [f \in Fetchers |-> "idle"]
    /\ part' = [f \in Fetchers |-> 0]
    /\ copied' = [f \in Fetchers |-> 0]
    /\ loops' = Loops
    /\ bgNext' = 0
    /\ bgRetry' = 0
    /\ ipc' = "open"
    /\ dropped' = {}
    /\ UNCHANGED disk

\* ... after the old one has ended well ...
OpenAgain ==
    /\ phase = "closed"
    /\ Reopen
    /\ UNCHANGED local

\* ... or died: killed, or by the panic of a Close that took too long ...
Crash ==
    /\ "crash" \in Faults
    /\ Reopen
    /\ UNCHANGED local

\* ... or the machine died: cells that were never synced may be blank then.
PowerLoss ==
    /\ "power" \in Faults
    /\ Reopen
    /\ \E lost \in SUBSET Cells :
          local' = [x \in Cells |-> IF x \in lost THEN "blank" ELSE local[x]]

-----------------------------------------------------------------------------
Reading(r) ==
    \/ \E q \in Requests : ReadAt(r, q)
    \/ ReadCheck(r) \/ ReadReady(r) \/ ReadFail(r) \/ ReadTimeout(r)

SaveStep == AutoSave /\ temp[AutoSaver].busy

Fetching(f) ==
    \/ FetchCheck(f) \/ FetchAcquire(f) \/ FetchAcquireFail(f)
    \/ FetchCopy(f) \/ FetchError(f) \/ FetchDone(f)

Scrubbing == IntegrityGood \/ \E c \in Chunks : BgLost(c)

Closing == CloseCancel \/ CloseLocal \/ CloseSave \/ CloseReturn

Next ==
    \/ \E r \in Readers : Reading(r)
    \/ \E f \in Fetchers : Fetching(f)
    \/ BgFetch
    \/ Scrubbing \/ IntegrityWake
    \/ AutoSave
    \/ \E g \in Loops : LoopEnd(g)
    \/ Closing
    \/ OpenAgain \/ Crash \/ PowerLoss

Spec == Init /\ [][Next]_vars

\* Goroutines run; nobody has to call ReadAt or Close.  A select that finds
\* the cancelled context ready again and again takes it at last; goro.Wait is
\* woken when the counter is zero even if it rises again at once.
Fairness ==
    /\ \A r \in Readers : WF_vars(ReadCheck(r)) /\ WF_vars(ReadReady(r) \/ ReadFail(r))
    /\ \A f \in Fetchers : WF_vars(Fetching(f))
    /\ WF_vars(SaveStep) /\ WF_vars(Scrubbing)
    /\ \A g \in Loops : SF_vars(LoopEnd(g))
    /\ WF_vars(CloseLocal) /\ WF_vars(CloseSave) /\ SF_vars(CloseReturn)

FairSpec == Spec /\ Fairness

-----------------------------------------------------------------------------
(* Properties *)

\* Every variable has its type: no fetch writes more than its chunk, no read
\* returns more than the object, bgFetchAll retries within its limit.
TypeOK ==
    /\ MapTypeOK
    /\ local \in [Cells -> Contents]
    /\ phase \in Phases
    /\ rpc \in [Readers -> {"idle", "check", "wait"}]
    /\ req \in [Readers -> Requests \union {NoRequest}]
    /\ failed \subseteq Readers
    /\ \A r \in Readers : DOMAIN reply[r].data \subseteq Cells
    /\ fpc \in [Fetchers -> {"idle", "check", "acquire", "copy"}]
    /\ part \in [Fetchers -> Nat]
    /\ copied \in [Fetchers -> 0..ChunkSize]
    /\ loops \subseteq Loops
    /\ bgNext \in Nat /\ bgRetry \in 0..RetryLimit
    /\ ipc \in {"open", "select", "verify", "returned"}
    /\ dropped \subseteq Readers

HasData(c) == \A x \in CellsOf(c) : local[x] = "data"

\* "Chunk availability map" (cache.go:27): a chunk that the map in memory or
\* the map file calls available is in the local file from the first to the
\* last cell, although copies are cut short, repeated and overlap, although
\* chunks are dropped, and wherever the process dies.
AvailabilityMapTrue == \A c \in bitmap \union Loaded(disk) : HasData(c)

\* Whatever ReadAt returns is the object's data, never a blank of the local
\* file.  ("Return data from the first relevant chunk", cache.go:134.)
ReadsReturnObject ==
    \A r \in Readers :
        reply[r].ok => \A x \in DOMAIN reply[r].data : reply[r].data[x] = "data"

Outside == INSTANCE ObjectReads WITH
    Callers <- Readers, Reads <- Requests, Covered <- Returned,
    NoRead <- NoRequest, NoAnswer <- NoReply,
    called <- req, answer <- reply

\* The same as a promise to the callers: the cache is an io.ReaderAt over an
\* immutable object, whatever becomes of the fetches, the scrubber, AutoSave,
\* Close and the process meanwhile.
ReadsFromObject == Outside!AbsSpec

\* ReadAt returns without the help of its deadline: the fetch of its first
\* chunk makes the chunk ready or cancels ReadAt.  One case is excepted: the
\* fetch found the chunk there or made it so and returned (cache.go:160-163,
\* 221), bgIntegrity dropped the chunk, and only then did ReadAt look
\* (cache.go:135).  Then it waits for another fetch of the chunk, if there is
\* one, and else for its deadline.
ReadReturns ==
    \A r \in Readers : (rpc[r] = "check") ~> (rpc[r] = "idle" \/ r \in dropped)

\* Close ends: every goroutine of the cache notices the cancelled context, or
\* finishes.  How much of the five seconds that Close grants them is used is
\* not counted.  (The cache is open again when the process dies first.)
CloseEnds == (phase = "cancelled") ~> (phase \in {"closed", "open"})
=============================================================================
