------------------------------- MODULE Copier -------------------------------
(***************************************************************************)
(* nbd/cmd/chaoticp: a file is copied by several goroutines that take the  *)
(* numbers of its chunks, in random order, from a channel; afterwards both *)
(* files are read once more and compared.  Any error ends the program,     *)
(* whatever the other goroutines are doing.                                *)
(***************************************************************************)
EXTENDS Integers, Sequences, Functions

CONSTANTS Workers,    \* the goroutines: numWorkers of them
          CopyChunk,  \* chunkSize
          Sizes       \* sizes a source may have

ASSUME CopierAssumption == CopyChunk \in Nat \ {0} /\ Sizes \subseteq Nat /\ Workers # {}

VARIABLES
    size,     \* size of the source
    todo,     \* chunks the feeding goroutine has yet to send
    task,     \* task[w]: the chunk w copies, Waiting, or Gone when w has ended
    buf,      \* buf[w]: cells of the source in the buffer of w
    dest,     \* cells of the destination that hold what the source has there
    cpc,      \* main: "copy", "sync", "compare", "exited"
    exit      \* "none", "ok", "mismatch" or "error"

copyVars == <<size, todo, task, buf, dest, cpc, exit>>

Waiting == -1
Gone == -2

\* The cells of a chunk, as far as the file goes.
CellsOf(c) == {x \in 0..size - 1 : x \div CopyChunk = c}

TotalChunks == size \div CopyChunk

CopierInit ==
    /\ size \in Sizes
    /\ todo \in Bijection(1..TotalChunks, 0..TotalChunks - 1)  \* rand.Shuffle
    /\ task = [w \in Workers |-> Waiting]
    /\ buf = [w \in Workers |-> {}]
    /\ dest \in SUBSET (0..size - 1)  \* Truncate: zeroes, as the source may have
    /\ cpc = "copy"
    /\ exit = "none"

\* Both ends of the unbuffered channel are ready.
HandOver(w) ==
    /\ exit = "none"
    /\ todo # <<>> /\ task[w] = Waiting
    /\ task' = [task EXCEPT ![w] = Head(todo)]
    /\ todo' = Tail(todo)
    /\ UNCHANGED <<size, buf, dest, cpc, exit>>

\* src.ReadAt
CopyRead(w) ==
    /\ exit = "none"
    /\ task[w] \notin {Waiting, Gone} /\ buf[w] = {}
    /\ buf' = [buf EXCEPT ![w] = CellsOf(task[w])]
    /\ UNCHANGED <<size, todo, task, dest, cpc, exit>>

\* dest.WriteAt
CopyWrite(w) ==
    /\ exit = "none"
    /\ buf[w] # {}
    /\ dest' = dest \union buf[w]
    /\ buf' = [buf EXCEPT ![w] = {}]
    /\ task' = [task EXCEPT ![w] = Waiting]
    /\ UNCHANGED <<size, todo, cpc, exit>>

\* The channel is closed.
WorkerEnd(w) ==
    /\ exit = "none"
    /\ todo = <<>> /\ task[w] = Waiting
    /\ task' = [task EXCEPT ![w] = Gone]
    /\ UNCHANGED <<size, todo, buf, dest, cpc, exit>>

\* A wrong Wait: main goes on when the channel is empty.
WaitForQueue ==
    /\ exit = "none" /\ cpc = "copy"
    /\ todo = <<>>
    /\ cpc' = "sync"
    /\ UNCHANGED <<size, todo, task, buf, dest, exit>>

\* wg.Wait
WaitForWorkers ==
    /\ exit = "none" /\ cpc = "copy"
    /\ \A w \in Workers : task[w] = Gone
    /\ cpc' = "sync"
    /\ UNCHANGED <<size, todo, task, buf, dest, exit>>

Sync ==
    /\ exit = "none" /\ cpc = "sync"
    /\ cpc' = "compare"
    /\ UNCHANGED <<size, todo, task, buf, dest, exit>>

\* checksum: hashes of the two files are equal if the files are.
Compare ==
    /\ exit = "none" /\ cpc = "compare"
    /\ exit' = IF dest = 0..size - 1 THEN "ok" ELSE "mismatch"
    /\ UNCHANGED <<size, todo, task, buf, dest, cpc>>

\* fatal, of any goroutine that reads, writes or syncs a file.
Fatal ==
    /\ exit = "none"
    /\ cpc # "copy" \/ \E w \in Workers : task[w] \notin {Waiting, Gone}
    /\ exit' = "error"
    /\ UNCHANGED <<size, todo, task, buf, dest, cpc>>

Copying(w) == HandOver(w) \/ CopyRead(w) \/ CopyWrite(w) \/ WorkerEnd(w)

CopierNext ==
    \/ \E w \in Workers : Copying(w)
    \/ WaitForWorkers \/ Sync \/ Compare
    \/ Fatal

CopierSpec == CopierInit /\ [][CopierNext]_copyVars

CopierFairness ==
    /\ \A w \in Workers : WF_copyVars(Copying(w))
    /\ WF_copyVars(WaitForWorkers \/ Sync \/ Compare)

-----------------------------------------------------------------------------
(* Properties *)

\* The program ends, however the chunks are spread over the goroutines, and
\* if there was no error it finds the copy to be right - of a source that
\* consists of whole chunks: what follows the last one is never copied.
CopyEnds ==
    (cpc = "copy") ~> \/ exit \in {"error", "ok"}
                      \/ exit = "mismatch" /\ size % CopyChunk # 0
=============================================================================
