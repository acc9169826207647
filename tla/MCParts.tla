------------------------------ MODULE MCParts -------------------------------
(* Parts of the repository that share no state, on small instances: the    *)
(* connection queue, the chunk map, AutoSave, the verification of a        *)
(* region, the negotiation of a connection, the lock file, the key of a    *)
(* machine and the sandbox of the tests.  A behaviour is one of one part,  *)
(* which is chosen at the start.                                           *)
EXTENDS Queue, ChunkMap, AutoSave, Verity, Negotiation, Lockfile, Identity, Sandbox, TLC

\* Two objects, one of which may be closed, and three callers, one of which
\* may be overtaken; the shared queue is as wide as the others together
CONSTANTS c1, c2, c3, o1, o2, shared
MCCallers == {c1, c2, c3}
MCObjectOf == c1 :> o1 @@ c2 :> o1 @@ c3 :> o2
MCSize == shared :> 2 @@ o1 :> 1 @@ o2 :> 1
Interchangeable == Permutations({c1, c2})

\* The first source has devices that look alike, the second finds nothing of
\* use, the third is one of the paranoid ones
MCDevices == 1 :> {"d1", "d2", "d3"} @@ 2 :> {"d4"} @@ 3 :> {"d5", "d6"}
MCPoint == "d1" :> 2 @@ "d2" :> 1 @@ "d3" :> 2 @@ "d4" :> 0 @@ "d5" :> 4 @@ "d6" :> 3

MCFilesOf == "ls" :> {"ls", "libc"} @@ "sh" :> {"sh", "libc"}

-----------------------------------------------------------------------------
VARIABLE part  \* the part this behaviour is one of

\* The other parts stay where they began.
MapStill == MapInit /\ disk = [form |-> "empty", bits |-> {}, version |-> 0]
AutoSaveStill == AutoInit /\ afile = {} /\ last = "save"
VerityStill == VerityInit /\ used = MaxUsed /\ damaged = {}

PartsInit ==
    /\ part \in {"queue", "chunk map", "autosave", "verity", "negotiation", "lock",
                "identity", "sandbox"}
    /\ Init /\ NegInit /\ LockInit /\ IdentityInit /\ SandboxInit
    /\ IF part = "chunk map" THEN MapInit ELSE MapStill
    /\ IF part = "autosave" THEN AutoInit ELSE AutoSaveStill
    /\ IF part = "verity" THEN VerityInit ELSE VerityStill

\* Every part but p is left alone.
Only(p) ==
    /\ part = p
    /\ UNCHANGED part
    /\ p # "queue" => UNCHANGED vars
    /\ p # "chunk map" => UNCHANGED mapVars
    /\ p # "autosave" => UNCHANGED autoVars
    /\ p # "verity" => UNCHANGED verityVars
    /\ p # "negotiation" => UNCHANGED negVars
    /\ p # "lock" => UNCHANGED lockVars
    /\ p # "identity" => UNCHANGED identityVars
    /\ p # "sandbox" => UNCHANGED boxVars

PartsNext ==
    \/ Only("queue") /\ Next
    \/ Only("chunk map") /\ MapNext
    \/ Only("autosave") /\ AutoNext
    \/ Only("verity") /\ VerityNext
    \/ Only("negotiation") /\ NegNext
    \/ Only("lock") /\ LockNext
    \/ Only("identity") /\ IdentityNext
    \/ Only("sandbox") /\ SandboxNext

partVars ==
    <<part, vars, mapVars, autoVars, verityVars, negVars, lockVars, identityVars, boxVars>>

PartsSpec == PartsInit /\ [][PartsNext]_partVars
=============================================================================
