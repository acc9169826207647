------------------------------- MODULE Daemon -------------------------------
(***************************************************************************)
(* nbd/daemon/daemon.go: Run takes the cache directory's lock, serves      *)
(* connections (module Server) from one memoised cache per volume, and     *)
(* when all listeners have returned closes the caches and the lock.  The   *)
(* process ends when Run returns.                                          *)
(*                                                                         *)
(* Run reads the map `volume' without volumeMu.  An export that stores     *)
(* into it meanwhile is a data race: the loop sees the new entry or does   *)
(* not, or the runtime ends the process.                                   *)
(***************************************************************************)
EXTENDS Server, FiniteSets

CONSTANTS Volumes,  \* export names
          Nobody    \* no connection

ASSUME DaemonAssumption == Nobody \notin Clients /\ Volumes # {}

VARIABLES
    volume,   \* names memoised in the map
    caches,   \* caches[v]: caches of v that are open
    mu,       \* connection that holds volumeMu
    want,     \* want[c]: the name connection c asked for last
    epc,      \* the export under volumeMu: "none", "lookup" or "opened"
    rpc,      \* Run: "serving", "closing", "unlock", "cancel", "returned"
    todo,     \* caches the closing loop has still to visit
    locked    \* the lock file is held

exportVars == <<volume, caches, mu, want, epc>>
runVars == <<rpc, todo, locked>>
vars == <<serverVars, exportVars, runVars>>

Init ==
    /\ ServerInit
    /\ volume = {}
    /\ caches = [v \in Volumes |-> 0]
    /\ mu = Nobody
    /\ want = [c \in Clients |-> CHOOSE v \in Volumes : TRUE]
    /\ epc = "none"
    /\ rpc = "serving"
    /\ todo = {}
    /\ locked = TRUE

-----------------------------------------------------------------------------
(* The export callback *)

\* A wrong export: volumeMu is not waited for.
ExportUnlocked(c) ==
    /\ conn[c] = "exporting"
    /\ mu' = c
    /\ epc' = "lookup"
    /\ UNCHANGED <<serverVars, volume, caches, want, runVars>>

\* negotiateBackend calls export with a name; volumeMu.Lock()
ExportLock(c) ==
    /\ conn[c] = "exporting" /\ mu = Nobody
    /\ mu' = c
    /\ epc' = "lookup"
    /\ UNCHANGED <<serverVars, volume, caches, want, runVars>>

ExportFound(c) ==
    /\ mu = c /\ epc = "lookup" /\ want[c] \in volume
    /\ ExportDone(c)
    /\ mu' = Nobody /\ epc' = "none"
    /\ UNCHANGED <<volume, caches, want, runVars>>

\* s3.Open succeeds.
ExportOpen(c) ==
    /\ mu = c /\ epc = "lookup" /\ want[c] \notin volume
    /\ caches' = [caches EXCEPT ![want[c]] = @ + 1]
    /\ epc' = "opened"
    /\ UNCHANGED <<serverVars, volume, mu, want, runVars>>

\* s3.Open fails.
ExportOpenFail(c) ==
    /\ mu = c /\ epc = "lookup" /\ want[c] \notin volume
    /\ ExportFail(c)
    /\ mu' = Nobody /\ epc' = "none"
    /\ UNCHANGED <<volume, caches, want, runVars>>

\* volume[name] = cache
ExportStore(c) ==
    /\ mu = c /\ epc = "opened"
    /\ ExportDone(c)
    /\ volume' = volume \cup {want[c]}
    /\ mu' = Nobody /\ epc' = "none"
    /\ \/ UNCHANGED runVars
       \/ /\ rpc = "closing"
          /\ todo' = todo \cup {want[c]}
          /\ UNCHANGED <<rpc, locked>>
       \/ /\ rpc = "closing"     \* concurrent map iteration and map write
          /\ rpc' = "returned" /\ todo' = {} /\ locked' = FALSE
    /\ UNCHANGED <<caches, want>>

Export(c) ==
    ExportLock(c) \/ ExportFound(c) \/ ExportOpen(c) \/ ExportOpenFail(c) \/ ExportStore(c)

-----------------------------------------------------------------------------
(* Run *)

\* A wrong end of Run: it waits for clients, for as long as they like.
GroupWaitClients ==
    /\ rpc = "serving"
    /\ \A l \in Listeners : lpc[l] = "ended"
    /\ Counted = {}
    /\ rpc' = "closing"
    /\ todo' = volume
    /\ UNCHANGED <<serverVars, exportVars, locked>>

\* A wrong end of Run: it does not wait for all listeners.
GroupWaitFirst ==
    /\ rpc = "serving"
    /\ \E l \in Listeners : lpc[l] = "ended"
    /\ rpc' = "closing"
    /\ todo' = volume
    /\ UNCHANGED <<serverVars, exportVars, locked>>

\* group.Wait() returns; the loop begins.
GroupWait ==
    /\ rpc = "serving"
    /\ \A l \in Listeners : lpc[l] = "ended"
    /\ rpc' = "closing"
    /\ todo' = volume
    /\ UNCHANGED <<serverVars, exportVars, locked>>

CloseCache(v) ==
    /\ rpc = "closing" /\ v \in todo
    /\ caches' = [caches EXCEPT ![v] = @ - 1]
    /\ todo' = todo \ {v}
    /\ UNCHANGED <<serverVars, volume, mu, want, epc, rpc, locked>>

CloseEnd ==
    /\ rpc = "closing" /\ todo = {}
    /\ rpc' = "unlock"
    /\ UNCHANGED <<serverVars, exportVars, todo, locked>>

\* The deferred calls: lock.Close(), then cancel(server.NBD_ESHUTDOWN).
Unlock ==
    /\ rpc = "unlock"
    /\ locked' = FALSE
    /\ rpc' = "cancel"
    /\ UNCHANGED <<serverVars, exportVars, todo>>

CancelAll ==
    /\ rpc = "cancel"
    /\ strict' = TRUE
    /\ rpc' = "returned"
    /\ UNCHANGED <<lpc, conn, soft, spc, timer, exportVars, todo, locked>>

Run == GroupWait \/ (\E v \in Volumes : CloseCache(v)) \/ CloseEnd \/ Unlock \/ CancelAll

-----------------------------------------------------------------------------
Aside == UNCHANGED <<exportVars, runVars>>

\* A client that comes back to negotiation may name another volume.
Talk(c) ==
    /\ TalkExport(c)
    /\ \E v \in Volumes : want' = [want EXCEPT ![c] = v]
    /\ UNCHANGED <<volume, caches, mu, epc, runVars>>

Alive == rpc # "returned"

ServerStep ==
    \/ \E l \in Listeners : Listening(l)
    \/ \E c \in Clients : HandleBegin(c) \/ TalkEnd(c) \/ ClientGone(c)
    \/ Signal
    \/ Shutdown

Next ==
    \/ Alive /\ ServerStep /\ Aside
    \/ \E c \in Clients : Alive /\ (Talk(c) \/ Export(c))
    \/ Alive /\ Run

\* Goroutines run; s3.Open and Cache.Close return (module Cache).  Nothing is
\* assumed of clients: one that does not read keeps transmission for ever.
Fairness ==
    /\ \A l \in Listeners : WF_vars(Alive /\ Listening(l) /\ Aside)
    /\ \A c \in Clients :
          WF_vars(Alive /\ (Export(c) \/ (HandleBegin(c) /\ Aside)))
    /\ WF_vars(Alive /\ (CancelSoft \/ WaitEnd) /\ Aside)
    /\ WF_vars(Alive /\ (TimerFires \/ TimerStops) /\ Aside)
    /\ WF_vars(Alive /\ Run)

Spec == Init /\ [][Next]_vars /\ Fairness

-----------------------------------------------------------------------------
(* Properties *)

\* "Cache object memoization" (daemon.go:55): however many clients ask for a
\* volume at once, one cache works on its files at a time.
OneCachePerVolume == \A v \in Volumes : caches[v] <= 1

\* A connection that reads has a cache that is open, until the server is told
\* to stop: a listener that cannot bind its address, an export that fails and
\* the end of another connection close none.  From then on Run closes caches
\* under connections that still read (daemon.go:98), and so the property ends
\* there.
ServedFromOpenCaches ==
    \A c \in Clients : conn[c] = "reading" => caches[want[c]] = 1 \/ SoftDone

\* A signal ends Run, whatever the clients do (daemon.go:84-109).
RunReturns == (spc # "signals") ~> (rpc = "returned")
=============================================================================
