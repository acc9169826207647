------------------------------ MODULE AutoSave ------------------------------
(***************************************************************************)
(* nbd/s3/chunk.go, AutoSave: when the chunk map is written to its file.   *)
(* Every half interval AutoSave looks at the times of the last change and  *)
(* of the last save, without the lock that guards them, and puts the save  *)
(* off if the map is being changed right now - but not for ever.           *)
(*                                                                         *)
(* Time passes in fractions of autoSaveInterval / 4, more than one of them *)
(* so that a change can be recent and not of this very moment.  The steps  *)
(* of AutoSave take no time, compared with the two minutes of a quarter.   *)
(***************************************************************************)
EXTENDS Integers

CONSTANTS SavedChunks,  \* indexes of the chunks of the object
          Settled       \* autoSaveInterval / 4: a change this old is not recent

ASSUME AutoSaveAssumption == Settled \in Nat \ {0}

Period == 2 * Settled    \* autoSaveInterval / 2: AutoSave looks this often
Interval == 4 * Settled  \* autoSaveInterval
Horizon == Interval + Period \* bound: times longer than this are alike
StaleCap == Horizon + Period \* bound on the age of a change that is not saved

None == -1

VARIABLES
    amap,       \* the chunk map
    afile,      \* the chunk map in the file
    last,       \* "save" if m.saved.After(m.modified), "change" if not
    age,        \* time since m.modified, up to Settled
    sinceSaved, \* time since m.saved, up to Horizon
    span,       \* m.modified.Sub(m.saved), up to Horizon
    apc,        \* AutoSave: "sleep", "saved", "recent", "span", "save"
                \* (about to) or "locked" (inside of Save)
    alarm,      \* time until AutoSave wakes up
    stale       \* ghost: age of the oldest change no Save was tried for

clock == <<age, sinceSaved, span, alarm>>
autoVars == <<amap, afile, last, clock, apc, stale>>

Until(n, cap) == IF n < cap THEN n ELSE cap

\* openChunkMap: m.saved is the present if a map was loaded, long ago if not;
\* m.modified is long ago.
Opened(loaded) ==
    /\ amap' = afile'
    /\ last' = IF loaded THEN "save" ELSE "change"
    /\ age' = Settled
    /\ sinceSaved' = IF loaded THEN 0 ELSE Horizon
    /\ span' = 0
    /\ apc' = "sleep"
    /\ alarm' = Period
    /\ stale' = None

AutoInit ==
    /\ afile \in SUBSET SavedChunks
    /\ amap = afile
    /\ last \in {"save", "change"} /\ (afile # {} => last = "save")
    /\ age = Settled
    /\ sinceSaved = IF last = "save" THEN 0 ELSE Horizon
    /\ span = 0
    /\ apc = "sleep"
    /\ alarm = Period
    /\ stale = None

\* Done and Lost: they wait while a Save holds the lock.
Modify(changed) ==
    /\ apc # "locked"
    /\ amap' = changed
    /\ last' = "change"
    /\ age' = 0
    /\ span' = sinceSaved
    /\ stale' = IF stale = None THEN 0 ELSE stale
    /\ UNCHANGED <<afile, sinceSaved, apc, alarm>>

Tick ==
    /\ apc = "sleep" /\ alarm > 0
    /\ alarm' = alarm - 1
    /\ age' = Until(age + 1, Settled)
    /\ sinceSaved' = Until(sinceSaved + 1, Horizon)
    /\ stale' = IF stale = None THEN None ELSE Until(stale + 1, StaleCap)
    /\ UNCHANGED <<amap, afile, last, span, apc>>

Sleep == apc' = "sleep" /\ alarm' = Period

Wake ==
    /\ apc = "sleep" /\ alarm = 0
    /\ apc' = "saved"
    /\ UNCHANGED <<amap, afile, last, clock, stale>>

\* if m.saved.After(m.modified) { continue }
LookSaved ==
    /\ apc = "saved"
    /\ IF last = "save" THEN Sleep ELSE apc' = "recent" /\ UNCHANGED alarm
    /\ UNCHANGED <<amap, afile, last, age, sinceSaved, span, stale>>

\* if m.modified.Add(autoSaveInterval/4).After(time.Now()) && ...
LookRecent ==
    /\ apc = "recent"
    /\ apc' = IF age < Settled THEN "span" ELSE "save"
    /\ UNCHANGED <<amap, afile, last, clock, stale>>

\* A wrong look: changes that do not stop put the save off for ever.
LookAway ==
    /\ apc = "span"
    /\ Sleep
    /\ UNCHANGED <<amap, afile, last, age, sinceSaved, span, stale>>

\* ... m.modified.Sub(m.saved) < autoSaveInterval { continue }
LookSpan ==
    /\ apc = "span"
    /\ IF span < Interval THEN Sleep ELSE apc' = "save" /\ UNCHANGED alarm
    /\ UNCHANGED <<amap, afile, last, age, sinceSaved, span, stale>>

\* Save gets the lock ...
Lock ==
    /\ apc = "save"
    /\ apc' = "locked"
    /\ UNCHANGED <<amap, afile, last, clock, stale>>

\* ... and writes the file and renames it ...
SaveMap ==
    /\ apc = "locked"
    /\ afile' = amap
    /\ last' = "save"
    /\ sinceSaved' = 0
    /\ stale' = None
    /\ Sleep
    /\ UNCHANGED <<amap, age, span>>

\* ... or fails, which AutoSave only logs.
SaveMapFail ==
    /\ apc = "locked"
    /\ stale' = None
    /\ Sleep
    /\ UNCHANGED <<amap, afile, last, age, sinceSaved, span>>

\* The process dies, and opens the file again.
AutoRestart ==
    /\ UNCHANGED afile
    /\ \E loaded \in BOOLEAN : (afile # {} => loaded) /\ Opened(loaded)

AutoSaving == Wake \/ LookSaved \/ LookRecent \/ LookSpan \/ Lock \/ SaveMap \/ SaveMapFail

AutoNext ==
    \/ \E c \in SavedChunks : Modify(amap \union {c}) \/ Modify(amap \ {c})
    \/ Tick
    \/ AutoSaving
    \/ AutoRestart

AutoSpec == AutoInit /\ [][AutoNext]_autoVars

-----------------------------------------------------------------------------
(* Properties *)

\* Every variable has its type: the clocks stay within their bounds, and
\* AutoSave is at one of the statements of its loop.
AutoTypeOK ==
    /\ amap \subseteq SavedChunks /\ afile \subseteq SavedChunks
    /\ last \in {"save", "change"}
    /\ age \in 0..Settled
    /\ sinceSaved \in 0..Horizon /\ span \in 0..Horizon
    /\ apc \in {"sleep", "saved", "recent", "span", "save", "locked"}
    /\ alarm \in 0..Period
    /\ stale \in {None} \union 0..StaleCap

\* AutoSave skips a save only if there is nothing to save: whenever the
\* times say so, the file holds the present map.
CleanMeansSaved == last = "save" => afile = amap

\* Changes that never stop cannot put off the save for ever: AutoSave tries
\* to save a change at most one and a half intervals after it was made.
SavedInTime == stale <= Interval + Period
=============================================================================
