---------------------------- MODULE ObjectReads -----------------------------
(***************************************************************************)
(* What nbd/s3 promises its callers: an io.ReaderAt over an immutable      *)
(* object.  A read may fail at any time; one that succeeds returns bytes   *)
(* of the object, from its offset on, and nothing of how the object is     *)
(* cached shows.  A restart of the program forgets the calls in progress.  *)
(***************************************************************************)
EXTENDS Naturals

CONSTANTS Callers,       \* whoever calls ReadAt
          Reads,         \* the reads they make
          Covered(_),    \* the cells a successful read returns
          NoRead,        \* no call in progress
          NoAnswer       \* no answer, or an error

VARIABLES called,   \* called[c]: the read c waits for
          answer    \* answer[c]: what the last read of c returned

absVars == <<called, answer>>

\* Bytes of the object, as the answer to a read.
Object(q) == [ok |-> TRUE, data |-> [x \in Covered(q) |-> "data"]]

AbsInit ==
    /\ called = [c \in Callers |-> NoRead]
    /\ answer = [c \in Callers |-> NoAnswer]

Call(c, q) ==
    /\ called[c] = NoRead
    /\ called' = [called EXCEPT ![c] = q]
    /\ answer' = [answer EXCEPT ![c] = NoAnswer]

Succeed(c) ==
    /\ called[c] # NoRead
    /\ called' = [called EXCEPT ![c] = NoRead]
    /\ answer' = [answer EXCEPT ![c] = Object(called[c])]

Fail(c) ==
    /\ called[c] # NoRead
    /\ called' = [called EXCEPT ![c] = NoRead]
    /\ answer' = [answer EXCEPT ![c] = NoAnswer]

Forget ==
    /\ called' = [c \in Callers |-> NoRead]
    /\ answer' = [c \in Callers |-> NoAnswer]

AbsNext ==
    \/ \E c \in Callers, q \in Reads : Call(c, q)
    \/ \E c \in Callers : Succeed(c) \/ Fail(c)
    \/ Forget

AbsSpec == AbsInit /\ [][AbsNext]_absVars
=============================================================================
