------------------------------- MODULE Scrub --------------------------------
(***************************************************************************)
(* nbd/s3/cache.go, bgIntegrity: the goroutine that verifies the cached    *)
(* chunks of an object one after the other and drops those it cannot       *)
(* verify, so that they are fetched again.  It waits on a timer before     *)
(* each chunk; time.After makes a timer that fires once.                   *)
(*                                                                         *)
(* Verify reads the blocks of the chunk and their hashes, which are in the *)
(* last chunks of the object, through the cache, which fetches what is not *)
(* there.  What it concludes from them is the subject of Verity.           *)
(***************************************************************************)
EXTENDS Naturals, FiniteSetsExt

\* Objects, as functions: the chunks, and where the hashes of the data blocks
\* of each are; a chunk with no data blocks (hashes only) has none.
CONSTANT Hashed

ASSUME ScrubAssumption ==
    \A h \in Hashed : 0 \in DOMAIN h /\ \A c \in DOMAIN h : h[c] \subseteq DOMAIN h

VARIABLES
    hashes,    \* the object
    smap,      \* the chunk map
    rotten,    \* chunks whose local copy differs from the object
    spart,     \* part: the chunk to verify next
    sleep,     \* the timer: "set", or "spent" once it was received from
    spc,       \* "select", "verify", "after" or "ended"
    sclosing   \* the cache's context is cancelled

scrubVars == <<hashes, smap, rotten, spart, sleep, spc, sclosing>>

Parts == DOMAIN hashes

ScrubInit ==
    /\ hashes \in Hashed
    /\ smap \in SUBSET Parts
    /\ rotten \in SUBSET smap
    /\ spart = 0
    /\ sleep = "set"
    /\ spc = "select"
    /\ sclosing = FALSE

\* Any fetch: a fresh copy of the chunk, marked as done.
ScrubFetch(c) ==
    /\ c \in Parts \ smap
    /\ smap' = smap \union {c}
    /\ UNCHANGED <<hashes, rotten, spart, sleep, spc, sclosing>>

\* The local disk loses some of the chunk.
Rot(c) ==
    /\ c \in smap
    /\ rotten' = rotten \union {c}
    /\ UNCHANGED <<hashes, smap, spart, sleep, spc, sclosing>>

\* The timer has fired and is received from.
Awake ==
    /\ spc = "select" /\ sleep = "set"
    /\ spc' = "verify"
    /\ sleep' = "spent"
    /\ UNCHANGED <<hashes, smap, rotten, spart, sclosing>>

\* The context is done.
Stop ==
    /\ spc = "select" /\ sclosing
    /\ spc' = "ended"
    /\ UNCHANGED <<hashes, smap, rotten, spart, sleep, sclosing>>

\* The chunks that checksum.Verify(c, offset, size) reads.
Needs(c) == IF hashes[c] = {} THEN {} ELSE {c} \union hashes[c]

\* What Verify reads is as it should be ...
VerifyGood ==
    /\ spc = "verify"
    /\ Needs(spart) \cap rotten = {}
    /\ smap' = smap \union Needs(spart)
    /\ spc' = "after"
    /\ UNCHANGED <<hashes, rotten, spart, sleep, sclosing>>

\* ... or not, or it could not be read: c.chunk.Lost(part).
VerifyBad ==
    /\ spc = "verify"
    /\ \E got \in SUBSET Needs(spart) : smap' = (smap \union got) \ {spart}
    /\ Needs(spart) # {}
    /\ rotten' = rotten \ {spart}
    /\ spc' = "after"
    /\ UNCHANGED <<hashes, spart, sleep, sclosing>>

\* The next available chunk, if there is one.
Later == {c \in smap : c > spart}

\* A wrong end of a pass: the timer is not renewed.
AfterAsleep ==
    /\ spc = "after"
    /\ spc' = "select"
    /\ spart' = IF Later # {} THEN Min(Later) ELSE 0
    /\ UNCHANGED <<hashes, smap, rotten, sleep, sclosing>>

\* part, ok = c.chunk.After(part); from the start again if there is none.
After ==
    /\ spc = "after"
    /\ spc' = "select"
    /\ IF Later # {}
       THEN spart' = Min(Later) /\ UNCHANGED sleep
       ELSE spart' = 0 /\ sleep' = "set"
    /\ UNCHANGED <<hashes, smap, rotten, sclosing>>

\* Cache.Close cancels the context.
ScrubClose ==
    /\ ~sclosing
    /\ sclosing' = TRUE
    /\ UNCHANGED <<hashes, smap, rotten, spart, sleep, spc>>

Scrubbing == Awake \/ Stop \/ VerifyGood \/ VerifyBad \/ After

ScrubNext ==
    \/ \E c \in Parts : ScrubFetch(c) \/ Rot(c)
    \/ Scrubbing
    \/ ScrubClose

\* The goroutine runs, and a select that finds the context done again and
\* again takes that branch at last.
ScrubFairness == WF_scrubVars(Scrubbing) /\ SF_scrubVars(Stop)

ScrubSpec == ScrubInit /\ [][ScrubNext]_scrubVars /\ ScrubFairness

-----------------------------------------------------------------------------
(* Properties *)

\* "Check data integrity in background indefinitely" (cache.go:259): a chunk
\* of data that has gone bad is found in the end, while the cache is open.
CorruptionFound ==
    \A c \in UNION {DOMAIN h : h \in Hashed} :
        (c \in rotten /\ hashes[c] # {}) ~> (c \notin rotten \/ sclosing)

\* That much is true of an object of one chunk: then every pass ends at once,
\* and a new timer is set after it.
OneChunkScrubbed ==
    (Parts = {0} /\ 0 \in rotten) ~> (rotten = {} \/ sclosing)
=============================================================================
