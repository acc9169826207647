----------------------------- MODULE MCWorkers ------------------------------
(* Groups of goroutines that share no state, on small instances: callers   *)
(* of the connection queue when nobody gives up, the scrubber, and the     *)
(* workers of the copying test tool.  A behaviour is one of one group,     *)
(* which is chosen at the start.                                           *)
EXTENDS Queue, Scrub, Copier, TLC

\* Three callers contend for one pair of queues
CONSTANTS c1, c2, c3, o1, shared
MCCallers == {c1, c2, c3}
OneObjectOf == [c \in MCCallers |-> o1]
OneSize == shared :> 1 @@ o1 :> 1

\* An object of one chunk, and one whose hashes are in its second chunk
OneChunk == {0 :> {0}}
TwoChunks == {0 :> {1} @@ 1 :> {1}}
OneOrTwo == OneChunk \union TwoChunks

-----------------------------------------------------------------------------
VARIABLE group  \* the goroutines this behaviour is one of

\* The other groups have ended.
ScrubOver ==
    /\ hashes \in OneChunk /\ smap = {} /\ rotten = {} /\ spart = 0
    /\ sleep = "set" /\ spc = "ended" /\ sclosing = TRUE
CopierOver ==
    /\ size = 0 /\ todo = <<>> /\ dest = {} /\ cpc = "compare" /\ exit = "ok"
    /\ task = [w \in Workers |-> Gone] /\ buf = [w \in Workers |-> {}]

WorkersInit ==
    /\ group \in {"queue", "scrub", "copier"}
    /\ Init
    /\ IF group = "scrub" THEN ScrubInit ELSE ScrubOver
    /\ IF group = "copier" THEN CopierInit ELSE CopierOver

WorkersNext ==
    /\ UNCHANGED group
    /\ \/ group = "queue" /\ Next /\ UNCHANGED <<scrubVars, copyVars>>
       \/ group = "scrub" /\ ScrubNext /\ UNCHANGED <<vars, copyVars>>
       \/ group = "copier" /\ CopierNext /\ UNCHANGED <<vars, scrubVars>>

WorkersSpec ==
    /\ WorkersInit /\ [][WorkersNext]_<<group, vars, scrubVars, copyVars>>
    /\ Fairness /\ ScrubFairness /\ CopierFairness
=============================================================================
