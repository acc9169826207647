------------------------------ MODULE MCCache -----------------------------
(* A small object: chunks of two cells, the last one shorter.              *)
EXTENDS Cache

CONSTANT r1

OneReader == {r1}
MCWaiters == Readers \union Fetchers
MCSavers == {AutoSaver, Closer}
MCChunks == {c \in 0..Total : c * ChunkSize < Total}

\* A new cache directory.
MCInit ==
    /\ Init
    /\ disk.form = "empty" /\ disk.bits = {}
    /\ local = [x \in Cells |-> "blank"]
MCSpec == MCInit /\ [][Next]_vars
MCFairSpec == MCSpec /\ Fairness

\* A read of the last chunk that asks for more than there is.
TailRead == {[off |-> 2, len |-> 2]}
\* A read of the only cell of an object.
UnitRead == {[off |-> 0, len |-> 1]}
\* A read that crosses the border of two chunks.
Straddling == {[off |-> 0, len |-> 1], [off |-> 1, len |-> 2]}
=============================================================================
