---------------------------- MODULE DaemonProofs ----------------------------
(***************************************************************************)
(* Proofs about module Daemon, for any number of listeners, clients and    *)
(* volumes, about module Lockfile, for any number of daemons, and about    *)
(* module AutoSave, for any set of chunks and any resolution of the clock. *)
(***************************************************************************)
EXTENDS Daemon, Lockfile, AutoSave, TLAPS

ConnStates == {"none", "accepted", "talking", "exporting", "reading", "closed"}

\* v is open for the export that holds volumeMu, and not in the map yet.
JustOpened(v) == epc = "opened" /\ want[mu] = v

\* The types the argument needs.
Typed ==
    /\ conn \in [Clients -> ConnStates]
    /\ volume \subseteq Volumes /\ todo \subseteq volume
    /\ caches \in [Volumes -> Nat]
    /\ mu \in Clients \cup {Nobody}
    /\ want \in [Clients -> Volumes]
    /\ epc \in {"none", "lookup", "opened"}
    /\ rpc \in {"serving", "closing", "unlock", "cancel", "returned"}

\* volumeMu covers the export from the lookup to the store.
Guarded ==
    /\ epc # "none" => mu \in Clients
    /\ mu \in Clients => conn[mu] = "exporting"

\* A cache is open only for a volume that is in the map or about to be; those
\* that the closing loop has still to visit are open.
Accounted ==
    /\ epc = "opened" => want[mu] \notin volume
    /\ \A v \in Volumes : caches[v] = 0 \/ caches[v] = 1
    /\ \A v \in Volumes : caches[v] = 1 => v \in volume \/ JustOpened(v)
    /\ \A v \in Volumes : JustOpened(v) => caches[v] = 1
    /\ \A v \in todo : caches[v] = 1
    /\ rpc = "serving" => \A v \in volume : caches[v] = 1

\* A connection reads from a memoised cache.
Backed == \A c \in Clients : conn[c] = "reading" => want[c] \in volume

CacheCount == Typed /\ Guarded /\ Accounted /\ Backed

LEMMA CountInit == Init => CacheCount
<1> SUFFICES ASSUME Init PROVE CacheCount
  OBVIOUS
<1>1. PICK w \in Volumes : w = CHOOSE v \in Volumes : TRUE
  BY DaemonAssumption
<1>2. want = [c \in Clients |-> w]
  BY <1>1 DEF Init
<1> QED
  BY <1>2, DaemonAssumption
  DEF Init, ServerInit, CacheCount, Typed, Guarded, Accounted, Backed, JustOpened, ConnStates

-----------------------------------------------------------------------------
(* Steps of the server leave the caches alone, and a connection in the     *)
(* export callback stays there.                                            *)

LEMMA ServerStepKeeps ==
  ASSUME CacheCount, ServerStep, Aside
  PROVE  CacheCount'
<1> USE DEF CacheCount, Typed, Guarded, Accounted, Backed, JustOpened, ConnStates,
            Aside, exportVars, runVars
<1>1. CASE UNCHANGED conn
  BY <1>1
<1>2. ASSUME NEW c \in Clients, NEW to \in ConnStates,
             conn[c] # "exporting", to # "reading", conn' = [conn EXCEPT ![c] = to]
      PROVE  CacheCount'
  BY <1>2
<1>3. ASSUME NEW l \in Listeners, Listening(l)
      PROVE  CacheCount'
  BY <1>1, <1>2, <1>3 DEF Listening, Bind, CheckContext, AcceptTimeout, Accept
<1>4. ASSUME NEW c \in Clients, HandleBegin(c) \/ TalkEnd(c) \/ ClientGone(c)
      PROVE  CacheCount'
  BY <1>2, <1>4 DEF HandleBegin, TalkEnd, ClientGone
<1>5. CASE Signal \/ Shutdown
  BY <1>1, <1>5, Zenon DEF Signal, Shutdown, CancelSoft, WaitEnd, TimerFires, TimerStops
<1> QED
  BY <1>3, <1>4, <1>5 DEF ServerStep

LEMMA ExportKeeps ==
  ASSUME CacheCount, NEW c \in Clients, Talk(c) \/ Export(c)
  PROVE  CacheCount'
<1> USE DaemonAssumption
    DEF CacheCount, Typed, Guarded, Accounted, Backed, JustOpened, ConnStates, runVars
<1>1. CASE Talk(c)
  BY <1>1 DEF Talk, TalkExport
<1>2. CASE ExportLock(c)
  BY <1>2 DEF ExportLock, serverVars
<1>3. CASE ExportFound(c)
  BY <1>3 DEF ExportFound, ExportDone
<1>4. CASE ExportOpen(c)
  BY <1>4 DEF ExportOpen, serverVars
<1>5. CASE ExportOpenFail(c)
  BY <1>5 DEF ExportOpenFail, ExportFail
<1>6. CASE ExportStore(c)
  BY <1>6 DEF ExportStore, ExportDone
<1> QED
  BY <1>1, <1>2, <1>3, <1>4, <1>5, <1>6, Zenon DEF Export

LEMMA RunKeeps ==
  ASSUME CacheCount, Run
  PROVE  CacheCount'
<1> USE DEF CacheCount, Typed, Guarded, Accounted, Backed, JustOpened, ConnStates,
            exportVars, serverVars
<1>1. CASE GroupWait
  BY <1>1 DEF GroupWait
<1>2. ASSUME NEW v \in Volumes, CloseCache(v) PROVE CacheCount'
  BY <1>2 DEF CloseCache
<1>3. CASE CloseEnd \/ Unlock \/ CancelAll
  BY <1>3 DEF CloseEnd, Unlock, CancelAll
<1> QED
  BY <1>1, <1>2, <1>3 DEF Run

LEMMA CountStep == CacheCount /\ [Next]_vars => CacheCount'
<1> SUFFICES ASSUME CacheCount, [Next]_vars PROVE CacheCount'
  OBVIOUS
<1>1. CASE UNCHANGED vars
  BY <1>1 DEF vars, serverVars, exportVars, runVars,
              CacheCount, Typed, Guarded, Accounted, Backed, JustOpened
<1> QED
  BY <1>1, ServerStepKeeps, ExportKeeps, RunKeeps DEF Next

-----------------------------------------------------------------------------
\* "Cache object memoization" (daemon.go:55): no two caches work on the files
\* of a volume, however many clients ask for it, also while Run closes them.
THEOREM CachesAreMemoised == Spec => []OneCachePerVolume
<1>1. CacheCount => OneCachePerVolume
  BY DEF CacheCount, Accounted, OneCachePerVolume
<1> QED
  BY <1>1, CountInit, CountStep, PTL DEF Spec

\* Until the server is told to stop, a connection that was ever accepted has a
\* listener that has not returned, and Run waits for all of them.
Listened ==
    /\ lpc \in [Listeners -> {"bind", "check", "accept", "ended"}]
    /\ \/ SoftDone
       \/ \A c \in Clients : conn[c] = "none"
       \/ \E l \in Listeners : lpc[l] \in {"check", "accept"}
    /\ rpc # "serving" => \A l \in Listeners : lpc[l] = "ended"

LEMMA ListenedInit == Init => Listened
BY DEF Init, ServerInit, Listened

LEMMA ListenedStep == CacheCount /\ Listened /\ [Next]_vars => Listened'
<1> SUFFICES ASSUME CacheCount, Listened, [Next]_vars PROVE Listened'
  OBVIOUS
<1> USE DEF Listened, SoftDone
<1>1. ASSUME UNCHANGED lpc, soft => soft', strict => strict',
             rpc' = rpc \/ rpc # "serving" \/ \A l \in Listeners : lpc[l] = "ended",
             \A c \in Clients : conn[c] = "none" => conn'[c] = "none"
      PROVE  Listened'
  BY <1>1
<1>2. ASSUME NEW l \in Listeners, Listening(l), Aside PROVE Listened'
  <2> USE DEF Aside, runVars
  <2>1. CASE Bind(l)
    BY <1>2, <2>1 DEF Bind
  <2>2. CASE CheckContext(l) \/ AcceptTimeout(l)
    BY <1>2, <2>2 DEF CheckContext, AcceptTimeout
  <2>3. ASSUME NEW c \in Clients, Accept(l, c) PROVE Listened'
    BY <1>2, <2>3 DEF Accept
  <2> QED BY <1>2, <2>1, <2>2, <2>3, Zenon DEF Listening
<1>3. ASSUME NEW c \in Clients, HandleBegin(c) \/ TalkEnd(c) \/ ClientGone(c), Aside
      PROVE  Listened'
  BY <1>1, <1>3 DEF HandleBegin, TalkEnd, ClientGone, Aside, runVars, CacheCount, Typed
<1>4. CASE (Signal \/ Shutdown) /\ Aside
  BY <1>1, <1>4
  DEF Signal, Shutdown, CancelSoft, WaitEnd, TimerFires, TimerStops, Aside, runVars
<1>5. ASSUME NEW c \in Clients, Talk(c) \/ Export(c) PROVE Listened'
  <2> USE DEF CacheCount, Typed
  <2>1. CASE Talk(c)
    BY <1>1, <2>1 DEF Talk, TalkExport, runVars
  <2>2. CASE ExportLock(c) \/ ExportOpen(c)
    BY <1>1, <2>2 DEF ExportLock, ExportOpen, serverVars, runVars
  <2>3. CASE ExportFound(c) \/ ExportOpenFail(c)
    BY <1>1, <2>3 DEF ExportFound, ExportOpenFail, ExportDone, ExportFail, runVars
  <2>4. CASE ExportStore(c)
    BY <1>1, <2>4 DEF ExportStore, ExportDone, runVars
  <2> QED BY <1>5, <2>1, <2>2, <2>3, <2>4, Zenon DEF Export
<1>6. CASE Run
  BY <1>1, <1>6
  DEF Run, GroupWait, CloseCache, CloseEnd, Unlock, CancelAll, serverVars, exportVars
<1>7. CASE UNCHANGED vars
  BY <1>1, <1>7 DEF vars, serverVars, runVars
<1> QED BY <1>2, <1>3, <1>4, <1>5, <1>6, <1>7, Zenon DEF Next, ServerStep

\* Until the server is told to stop, the cache behind every connection in
\* transmission is open, once: group.Wait returns after all listeners only.
THEOREM ConnectionsHaveCaches == Spec => []ServedFromOpenCaches
<1>1. CacheCount /\ Listened => ServedFromOpenCaches
  <2> SUFFICES ASSUME CacheCount, Listened, NEW c \in Clients, conn[c] = "reading", ~SoftDone
               PROVE  caches[want[c]] = 1
    BY DEF ServedFromOpenCaches
  <2>1. rpc = "serving"
    BY DEF Listened
  <2> QED BY <2>1 DEF CacheCount, Accounted, Backed
<1> QED
  BY <1>1, CountInit, CountStep, ListenedInit, ListenedStep, PTL DEF Spec

-----------------------------------------------------------------------------
(* The lock file                                                           *)

\* flock gives an inode to one daemon at a time.
OneHolder == \A i \in Inodes : \A d, e \in flock[i] : d = e

LockInv == LockTypeOK /\ OneHolder

LEMMA LockInvInit == LockInit => LockInv
  BY LockfileAssumption DEF LockInit, LockInv, LockTypeOK, OneHolder

LEMMA LockInvStep == LockInv /\ [LockNext]_lockVars => LockInv'
<1> SUFFICES ASSUME LockInv, [LockNext]_lockVars PROVE LockInv'
  OBVIOUS
<1> USE LockfileAssumption DEF LockInv, LockTypeOK, OneHolder
<1>1. ASSUME NEW d \in Daemons, LockOpen(d) PROVE LockInv'
  BY <1>1 DEF LockOpen, Unused
<1>2. ASSUME NEW d \in Daemons, LockTake(d) PROVE LockInv'
  BY <1>2 DEF LockTake
<1>3. ASSUME NEW d \in Daemons, LockFail(d) PROVE LockInv'
  BY <1>3 DEF LockFail
<1>4. ASSUME NEW d \in Daemons, CloseUnlock(d) PROVE LockInv'
  BY <1>4 DEF CloseUnlock
<1>5. ASSUME NEW d \in Daemons, CloseFile(d) PROVE LockInv'
  BY <1>5 DEF CloseFile
<1>6. ASSUME NEW d \in Daemons, CloseRemove(d) PROVE LockInv'
  BY <1>6 DEF CloseRemove
<1>7. ASSUME NEW d \in Daemons, KillDaemon(d) PROVE LockInv'
  BY <1>7 DEF KillDaemon
<1>8. CASE UNCHANGED lockVars
  BY <1>8 DEF lockVars
<1> QED
  BY <1>1, <1>2, <1>3, <1>4, <1>5, <1>6, <1>7, <1>8 DEF LockNext

\* Two daemons run at once only if the lock file of one of them was removed:
\* flock in Lock never lets two in through the file that has the name.
THEOREM SharedNeedsRemoval == LockSpec => []SharedOnlyAfterRemove
<1>1. LockInv => SharedOnlyAfterRemove
  <2> SUFFICES ASSUME LockInv, NEW d \in Daemons, NEW e \in Daemons,
                      kpc[d] = "running", kpc[e] = "running", opened[d] = named, opened[e] = named
               PROVE  d = e
    BY DEF SharedOnlyAfterRemove
  <2>1. named \in Inodes
    BY LockfileAssumption DEF LockInv, LockTypeOK
  <2>2. d \in flock[named] /\ e \in flock[named]
    BY <2>1 DEF LockInv, LockTypeOK
  <2> QED
    BY <2>1, <2>2 DEF LockInv, OneHolder
<1> QED
  BY <1>1, LockInvInit, LockInvStep, PTL DEF LockSpec

-----------------------------------------------------------------------------
(* Daemons that never remove the file share one inode.                     *)

NeverRemoved ==
    \A d \in Daemons : /\ kpc[d] \in {"idle", "opened", "running"}
                       /\ opened[d] \in {0, named}

\* If every daemon ends without Lockfile.Close, which removes the file, the
\* lock of the cache directory (daemon.go:39) is exclusive.
THEOREM ExclusiveIfNeverRemoved ==
  ASSUME CleanExit = {}
  PROVE  LockSpec => []DirectoryExclusive
<1>1. LockInit => NeverRemoved
  BY DEF LockInit, NeverRemoved
<1>2. LockInv /\ NeverRemoved /\ [LockNext]_lockVars => NeverRemoved'
  <2> SUFFICES ASSUME LockInv, NeverRemoved, [LockNext]_lockVars PROVE NeverRemoved'
    OBVIOUS
  <2> USE LockfileAssumption DEF LockInv, LockTypeOK, NeverRemoved
  <2>1. ASSUME NEW d \in Daemons, LockOpen(d) PROVE NeverRemoved'
    BY <2>1 DEF LockOpen, Unused
  <2>2. ASSUME NEW d \in Daemons, LockTake(d) \/ LockFail(d) \/ KillDaemon(d) PROVE NeverRemoved'
    BY <2>2 DEF LockTake, LockFail, KillDaemon
  <2>3. ASSUME NEW d \in Daemons, CloseUnlock(d) \/ CloseFile(d) \/ CloseRemove(d) PROVE FALSE
    BY <2>3 DEF CloseUnlock, CloseFile, CloseRemove
  <2>4. CASE UNCHANGED lockVars
    BY <2>4 DEF lockVars
  <2> QED
    BY <2>1, <2>2, <2>3, <2>4 DEF LockNext
<1>3. LockInv /\ NeverRemoved => DirectoryExclusive
  <2> SUFFICES ASSUME LockInv, NeverRemoved, NEW d \in Daemons, NEW e \in Daemons,
                      kpc[d] = "running", kpc[e] = "running"
               PROVE  d = e
    BY DEF DirectoryExclusive
  <2>1. opened[d] = named /\ opened[e] = named /\ named \in Inodes
    BY LockfileAssumption DEF LockInv, LockTypeOK, NeverRemoved
  <2>2. d \in flock[named] /\ e \in flock[named]
    BY <2>1 DEF LockInv, LockTypeOK
  <2> QED
    BY <2>1, <2>2 DEF LockInv, OneHolder
<1> QED
  BY <1>1, <1>2, <1>3, LockInvInit, LockInvStep, PTL DEF LockSpec

-----------------------------------------------------------------------------
(* AutoSave looks at whole multiples of Period after the last save only    *)
(* (OnSchedule).  It puts a save off only while the last change is less    *)
(* than Interval from the last save (Measured), so at the latest two       *)
(* Periods after it; and every change no save was tried for is younger     *)
(* than the last save.  The next look is one Period later.                 *)

\* AutoSave is awake when its alarm has gone off; the last save was a whole
\* number of Periods before the next look, if it was not long ago.
OnSchedule ==
    /\ apc # "sleep" => alarm = 0
    /\ sinceSaved < Horizon =>
          sinceSaved + alarm \in {Period, 2 * Period, 3 * Period}

\* The times of the last change and the last save fit together.
Measured ==
    /\ last = "change" /\ age < Settled /\ span < Interval => sinceSaved = span + age
    /\ stale <= sinceSaved \/ sinceSaved = Horizon
    /\ apc = "span" => age < Settled

\* What waits for a save is not old, and waits only if there is something.
Waiting ==
    /\ stale # None => last = "change"
    /\ stale + alarm <= Interval + Period
    /\ apc \in {"recent", "span", "save", "locked"} => last = "change"

SaveInv == AutoTypeOK /\ CleanMeansSaved /\ OnSchedule /\ Measured /\ Waiting

USE AutoSaveAssumption DEF Period, Interval, Horizon, StaleCap, None

-----------------------------------------------------------------------------
LEMMA SaveInitInvariant == AutoInit => SaveInv
BY DEF AutoInit, SaveInv, AutoTypeOK, CleanMeansSaved, OnSchedule, Measured, Waiting

LEMMA ModifyPreserves ==
    ASSUME SaveInv, NEW changed \in SUBSET SavedChunks, Modify(changed)
    PROVE  SaveInv'
<1> USE DEF SaveInv, Modify
<1>1. AutoTypeOK'
  BY DEF AutoTypeOK
<1>2. CleanMeansSaved' /\ OnSchedule'
  BY DEF CleanMeansSaved, OnSchedule
<1>3. Measured'
  BY DEF AutoTypeOK, Measured
<1>4. Waiting'
  BY DEF AutoTypeOK, Waiting
<1> QED BY <1>1, <1>2, <1>3, <1>4

LEMMA TickPreserves ==
    ASSUME SaveInv, Tick
    PROVE  SaveInv'
<1> USE DEF SaveInv, Tick, Until
<1>1. AutoTypeOK'
  BY DEF AutoTypeOK
<1>2. CleanMeansSaved'
  BY DEF CleanMeansSaved
<1>3. OnSchedule'
  BY DEF AutoTypeOK, OnSchedule
<1>4. Measured'
  BY DEF AutoTypeOK, Measured
<1>5. Waiting'
  BY DEF AutoTypeOK, Waiting
<1> QED BY <1>1, <1>2, <1>3, <1>4, <1>5

LEMMA LookPreserves ==
    ASSUME SaveInv, Wake \/ LookSaved \/ LookRecent
    PROVE  SaveInv'
<1> USE DEF SaveInv, Wake, LookSaved, LookRecent, Sleep, clock
<1>1. AutoTypeOK' /\ CleanMeansSaved'
  BY DEF AutoTypeOK, CleanMeansSaved
<1>2. OnSchedule'
  BY DEF AutoTypeOK, OnSchedule
<1>3. Measured'
  BY DEF AutoTypeOK, Measured
<1>4. Waiting'
  BY DEF AutoTypeOK, Waiting
<1> QED BY <1>1, <1>2, <1>3, <1>4

\* The save is put off: the last save was two Periods ago at most, and so was
\* every change that waits.
LEMMA LookSpanPreserves ==
    ASSUME SaveInv, LookSpan
    PROVE  SaveInv'
<1> USE DEF SaveInv, LookSpan, Sleep
<1>1. AutoTypeOK' /\ CleanMeansSaved'
  BY DEF AutoTypeOK, CleanMeansSaved
<1>2. CASE span < Interval
  <2>1. sinceSaved = span + age /\ age < Settled /\ alarm = 0
    BY <1>2 DEF Measured, Waiting, OnSchedule
  <2>2. sinceSaved \in {Period, 2 * Period}
    BY <1>2, <2>1 DEF AutoTypeOK, OnSchedule
  <2>3. stale <= Interval
    BY <2>2 DEF AutoTypeOK, Measured
  <2> QED BY <1>1, <1>2, <2>1, <2>2, <2>3 DEF AutoTypeOK, OnSchedule, Measured, Waiting
<1>3. CASE ~(span < Interval)
  BY <1>1, <1>3 DEF AutoTypeOK, OnSchedule, Measured, Waiting
<1> QED BY <1>2, <1>3

LEMMA SavingPreserves ==
    ASSUME SaveInv, Lock \/ SaveMap \/ SaveMapFail
    PROVE  SaveInv'
<1> USE DEF SaveInv, Lock, SaveMap, SaveMapFail, Sleep, clock
<1>1. AutoTypeOK' /\ CleanMeansSaved'
  BY DEF AutoTypeOK, CleanMeansSaved
<1>2. OnSchedule'
  BY DEF AutoTypeOK, OnSchedule
<1>3. Measured'
  BY DEF AutoTypeOK, Measured
<1>4. Waiting'
  BY DEF AutoTypeOK, Waiting
<1> QED BY <1>1, <1>2, <1>3, <1>4

LEMMA RestartPreserves ==
    ASSUME SaveInv, AutoRestart
    PROVE  SaveInv'
BY DEF SaveInv, AutoRestart, Opened, AutoTypeOK, CleanMeansSaved, OnSchedule, Measured, Waiting

LEMMA SaveStepPreserves == SaveInv /\ [AutoNext]_autoVars => SaveInv'
<1> SUFFICES ASSUME SaveInv, [AutoNext]_autoVars PROVE SaveInv'
  OBVIOUS
<1>1. CASE UNCHANGED autoVars
  BY <1>1 DEF autoVars, clock, SaveInv, AutoTypeOK, CleanMeansSaved, OnSchedule, Measured, Waiting
<1>2. \A c \in SavedChunks : {amap \union {c}, amap \ {c}} \subseteq SUBSET SavedChunks
  BY DEF SaveInv, AutoTypeOK
<1> QED
  BY Zenon, <1>1, <1>2, ModifyPreserves, TickPreserves, LookPreserves, LookSpanPreserves,
     SavingPreserves, RestartPreserves
  DEF AutoNext, AutoSaving

LEMMA SaveInvariant == AutoSpec => []SaveInv
BY SaveInitInvariant, SaveStepPreserves, PTL DEF AutoSpec

-----------------------------------------------------------------------------
\* AutoSave (chunk.go:242) skips a save only when the file holds the map.
THEOREM SkipsOnlyWhenSaved == AutoSpec => []CleanMeansSaved
<1>1. SaveInv => CleanMeansSaved
  BY DEF SaveInv
<1> QED BY <1>1, SaveInvariant, PTL

\* However often the map changes, AutoSave (chunk.go:234-254) tries to save a
\* change at most one and a half intervals after it was made.
THEOREM SaveIsNotPutOff == AutoSpec => []SavedInTime
<1>1. SaveInv => SavedInTime
  BY DEF SaveInv, AutoTypeOK, Waiting, SavedInTime
<1> QED BY <1>1, SaveInvariant, PTL
=============================================================================
