------------------------------ MODULE ChunkMap ------------------------------
(***************************************************************************)
(* nbd/s3/chunk.go: the chunk availability map of a cached object.  It is  *)
(* a bitmap of the chunks that are in the local cache, a table of channels *)
(* on which goroutines wait for a chunk, and a file that keeps the bitmap  *)
(* between two runs of the program.                                        *)
(*                                                                         *)
(* bitmapMu is a reader-writer lock.  Done and Lost hold it for writing    *)
(* and check holds it for reading from start to end: each is one step.     *)
(* Save holds it for reading while it writes a temporary file and renames  *)
(* it, so it is two steps, and Done and Lost wait in between.              *)
(***************************************************************************)
EXTENDS Naturals

CONSTANTS Chunks,    \* indexes of the chunks of the object
          Waiters,   \* goroutines that call Check and keep the channel
          Savers,    \* goroutines that call Save: AutoSave, Close
          MaxChanges \* bound: changes of the bitmap in one behaviour

ASSUME ChunkMapAssumption == MaxChanges \in Nat /\ Chunks \subseteq Nat

VARIABLES
    bitmap,    \* chunks whose bit is set
    running,   \* running[c]: the channel registered for c, 0 if there is none
    made,      \* made[c]: channels made for c so far; they are numbered from 1
    shut,      \* shut[c]: the channels of c that are closed
    ready,     \* ready[w]: the channel w got from Check
    temp,      \* temp[s]: the bitmap s is writing under the read lock
    version,   \* number of changes of the bitmap so far
    disk       \* the map file: its form, bits and the version of the bits

chanVars == <<running, made, shut, ready>>
fileVars == <<temp, disk>>
mapVars == <<bitmap, running, made, shut, ready, temp, version, disk>>

\* What Check returns for a chunk that is there: the closed channel.
NoChannel == [part |-> 0, id |-> 0]

\* The map file can be empty (it was just created), in the current format, or
\* stale: of another format version, chunk size or object size.
FileForms == {"empty", "current", "stale"}

\* A saver that does not hold the read lock.
Idle == [busy |-> FALSE, bits |-> {}, version |-> 0]

ReadLocked == \E s \in Savers : temp[s].busy

\* openChunkMap: only a file in the current format says which chunks are
\* cached; the cache is dropped otherwise.
Loaded(file) == IF file.form = "current" THEN file.bits ELSE {}

-----------------------------------------------------------------------------
(* Operations of chunkMap.  The modules that extend this one take part in  *)
(* them with variables of their own.                                       *)

\* check: if the bit is not set, the chunk has a channel, a new one if need be.
Register(c) ==
    /\ IF c \in bitmap \/ running[c] # 0
       THEN UNCHANGED <<running, made>>
       ELSE /\ made' = [made EXCEPT ![c] = @ + 1]
            /\ running' = [running EXCEPT ![c] = made[c] + 1]
    /\ UNCHANGED shut

\* ... which check returns; it returns a closed one if the bit is set.
Registered(c) ==
    IF c \in bitmap THEN NoChannel ELSE [part |-> c, id |-> running'[c]]

\* A wrong Done: the closed channel stays in the table, ...
DoneOfRemembered(c) ==
    /\ ~ReadLocked
    /\ bitmap' = bitmap \union {c}
    /\ shut' = [shut EXCEPT ![c] = IF running[c] = 0 THEN @ ELSE @ \union {running[c]}]
    /\ version' = version + 1
    /\ UNCHANGED <<running, made>>

\* ... or the lock is not taken.
DoneOfUnlocked(c) ==
    /\ bitmap' = bitmap \union {c}
    /\ shut' = [shut EXCEPT ![c] = IF running[c] = 0 THEN @ ELSE @ \union {running[c]}]
    /\ running' = [running EXCEPT ![c] = 0]
    /\ version' = version + 1
    /\ UNCHANGED made

\* Done: set the bit, close the registered channel and forget it.
DoneOf(c) ==
    /\ ~ReadLocked
    /\ bitmap' = bitmap \union {c}
    /\ shut' = [shut EXCEPT ![c] = IF running[c] = 0 THEN @ ELSE @ \union {running[c]}]
    /\ running' = [running EXCEPT ![c] = 0]
    /\ version' = version + 1
    /\ UNCHANGED made

\* A wrong Lost: the channel of the chunk is forgotten without being closed.
LostOfForgotten(c) ==
    /\ ~ReadLocked
    /\ bitmap' = bitmap \ {c}
    /\ running' = [running EXCEPT ![c] = 0]
    /\ version' = version + 1
    /\ UNCHANGED <<made, shut>>

\* Lost: clear the bit.  The table of channels is left alone.
LostOf(c) ==
    /\ ~ReadLocked
    /\ bitmap' = bitmap \ {c}
    /\ version' = version + 1
    /\ UNCHANGED <<running, made, shut>>

\* Save takes the read lock and writes the bitmap to a temporary file...
SaveBegin(s) ==
    /\ ~temp[s].busy
    /\ temp' = [temp EXCEPT ![s] = [busy |-> TRUE, bits |-> bitmap, version |-> version]]
    /\ UNCHANGED disk

\* ... which replaces the map file ...
SaveRename(s) ==
    /\ temp[s].busy
    /\ disk' = [form |-> "current", bits |-> temp[s].bits, version |-> temp[s].version]
    /\ temp' = [temp EXCEPT ![s] = Idle]

\* ... unless one of the writes, the sync, the close or the rename fails.
SaveFail(s) ==
    /\ temp[s].busy
    /\ temp' = [temp EXCEPT ![s] = Idle]
    /\ UNCHANGED disk

\* The program starts: a new map is filled from the file, and nothing of the
\* table of channels, the waiters or the savers of the last run is left.
Reopened ==
    /\ bitmap' = Loaded(disk)
    /\ version' = disk.version
    /\ running' = [c \in Chunks |-> 0]
    /\ made' = [c \in Chunks |-> 0]
    /\ shut' = [c \in Chunks |-> {}]
    /\ ready' = [w \in Waiters |-> NoChannel]
    /\ temp' = [s \in Savers |-> Idle]

\* w can receive from its channel.
IsReady(w) == ready[w] = NoChannel \/ ready[w].id \in shut[ready[w].part]

-----------------------------------------------------------------------------
(* The map on its own: any goroutine calls any operation at any time, and  *)
(* the process may die and start again between any two steps.              *)

MapInit ==
    /\ disk \in [form : FileForms, bits : SUBSET Chunks, version : {0}]
    /\ bitmap = Loaded(disk)
    /\ version = 0
    /\ running = [c \in Chunks |-> 0]
    /\ made = [c \in Chunks |-> 0]
    /\ shut = [c \in Chunks |-> {}]
    /\ ready = [w \in Waiters |-> NoChannel]
    /\ temp = [s \in Savers |-> Idle]

Check(w, c) ==
    /\ Register(c)
    /\ ready' = [ready EXCEPT ![w] = Registered(c)]
    /\ UNCHANGED <<bitmap, version, fileVars>>

Done(c) ==
    /\ version < MaxChanges
    /\ DoneOf(c)
    /\ UNCHANGED <<ready, fileVars>>

Lost(c) ==
    /\ version < MaxChanges
    /\ LostOf(c)
    /\ UNCHANGED <<ready, fileVars>>

Save(s) ==
    /\ SaveBegin(s) \/ SaveRename(s) \/ SaveFail(s)
    /\ UNCHANGED <<bitmap, version, chanVars>>

Restart == Reopened /\ UNCHANGED disk

MapNext ==
    \/ \E w \in Waiters, c \in Chunks : Check(w, c)
    \/ \E c \in Chunks : Done(c) \/ Lost(c)
    \/ \E s \in Savers : Save(s)
    \/ Restart

MapSpec == MapInit /\ [][MapNext]_mapVars

-----------------------------------------------------------------------------
(* Properties *)

Channels == [part : Chunks \union {0}, id : Nat]
Snapshots == [busy : BOOLEAN, bits : SUBSET Chunks, version : Nat]

\* Every bit that is set, in memory, in a temporary file or in the map file,
\* is that of a chunk of the object; channels and versions are numbered.
MapTypeOK ==
    /\ bitmap \subseteq Chunks
    /\ running \in [Chunks -> Nat]
    /\ made \in [Chunks -> Nat]
    /\ shut \in [Chunks -> SUBSET Nat]
    /\ ready \in [Waiters -> Channels]
    /\ temp \in [Savers -> Snapshots]
    /\ version \in Nat
    /\ disk \in [form : FileForms, bits : SUBSET Chunks, version : Nat]

\* close panics on a closed channel: the channel Done would close is open,
\* even if the chunk is done, lost and done again while others wait for it.
NeverClosedTwice ==
    \A c \in Chunks : running[c] # 0 => running[c] \notin shut[c]

\* A goroutine that still waits for a chunk waits on the very channel that
\* the next Done of the chunk closes: no waiter is left behind on a channel
\* that was forgotten, and none waits for a chunk that is cached.
NoLostWakeup ==
    \A w \in Waiters :
        ~IsReady(w) => /\ ready[w].part \notin bitmap
                       /\ running[ready[w].part] = ready[w].id

\* Two Saves overlap, but both hold the read lock from the copy of the
\* bitmap to the rename: the map file never goes back to an older bitmap.
FileNeverOlder == [][disk'.version >= disk.version]_disk
=============================================================================
