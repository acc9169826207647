------------------------------ MODULE Sandbox -------------------------------
(***************************************************************************)
(* lib/sandbox: a directory is filled with the files that some commands    *)
(* need, and the commands are run in it until one of them fails.  What a   *)
(* command writes to its two outputs is kept in one buffer, by a goroutine *)
(* for each of them.                                                       *)
(*                                                                         *)
(* The caller is a test: it schedules commands, builds the sandbox (or     *)
(* leaves that to Execute), changes files in it, executes the commands,    *)
(* gives up at the first error, and calls Cleanup in the end.              *)
(***************************************************************************)
EXTENDS Naturals, Sequences

CONSTANTS Commands,   \* commands a test may schedule
          FilesOf,    \* FilesOf[c]: the executable, the arguments, the libraries
          Extras,     \* files a test may copy into the sandbox by itself
          MaxWrites   \* bound on what a command writes to an output

ASSUME WritesAssumption == MaxWrites \in Nat

VARIABLES
    commands,  \* s.commands
    files,     \* s.files
    deferred,  \* s.errors is not empty
    tmpdir,    \* the directories of the sandbox: files in each
    missing,   \* files that build has yet to copy
    bpc,       \* "idle", "build", "execute", "command", "returned" or "clean"
    inExecute, \* build was called by Execute
    next,      \* the command that Execute runs next
    wrote,     \* wrote[tag]: what the command has written to an output so far
    shown,     \* Result.output: buf and chunks
    said,      \* ghost: said[tag]: what all the commands have written to it
    done,      \* ghost: commands that ended with code 0, and found their files
    result     \* "none", "zero", "nonzero" or "error"

boxVars == <<commands, files, deferred, tmpdir, missing, bpc, inExecute, next,
             wrote, shown, said, done, result>>

Tags == {"stdout", "stderr"}

SandboxInit ==
    /\ commands = <<>> /\ files = {} /\ deferred = FALSE
    /\ tmpdir = {} /\ missing = {}
    /\ bpc = "idle" /\ inExecute = FALSE /\ next = 1
    /\ wrote = [t \in Tags |-> 0]
    /\ shown = [buf |-> <<>>, chunks |-> <<>>]
    /\ said = [t \in Tags |-> <<>>]
    /\ done = {}
    /\ result = "none"

Scheduled == {commands[i] : i \in 1..Len(commands)}

runVars == <<next, wrote, shown, said, done>>

\* Command, CommandWithLibs
Command(c) ==
    /\ bpc = "idle" /\ tmpdir = {} /\ c \notin Scheduled
    /\ commands' = Append(commands, c)
    /\ files' = files \union FilesOf[c]
    /\ UNCHANGED <<deferred, tmpdir, missing, bpc, inExecute, runVars, result>>

\* The executable or its libraries are not found: an error for later.
CommandNotFound ==
    /\ bpc = "idle" /\ tmpdir = {}
    /\ deferred' = TRUE
    /\ UNCHANGED <<commands, files, tmpdir, missing, bpc, inExecute, runVars, result>>

Return(r) == bpc' = "returned" /\ result' = r

\* Build, and Execute of a sandbox that was not built.
Build(execute) ==
    /\ bpc = "idle" /\ tmpdir = {}
    /\ inExecute' = execute
    /\ IF deferred
       THEN Return("error") /\ UNCHANGED <<tmpdir, missing>>
       ELSE /\ tmpdir' = {{}} /\ missing' = files
            /\ bpc' = "build" /\ UNCHANGED result
    /\ UNCHANGED <<commands, files, deferred, runVars>>

\* Copy: now, or when the sandbox is built.
CopyIn(f) ==
    /\ bpc = "idle"
    /\ IF tmpdir = {}
       THEN files' = files \union {f} /\ UNCHANGED tmpdir
       ELSE tmpdir' = {d \union {f} : d \in tmpdir} /\ UNCHANGED files
    /\ UNCHANGED <<commands, deferred, missing, bpc, inExecute, runVars, result>>

\* cp, for the next file of a map in any order
BuildCopy(f) ==
    /\ bpc = "build" /\ f \in missing
    /\ tmpdir' = {d \union {f} : d \in tmpdir}
    /\ missing' = missing \ {f}
    /\ UNCHANGED <<commands, files, deferred, bpc, inExecute, runVars, result>>

\* MkdirTemp or a cp fails; the directory stays for Cleanup.
BuildFail ==
    /\ bpc = "build"
    /\ Return("error")
    /\ tmpdir' \in (IF missing = files THEN {tmpdir, {}} ELSE {tmpdir})
    /\ UNCHANGED <<commands, files, deferred, missing, inExecute, runVars>>

BuildEnd ==
    /\ bpc = "build" /\ missing = {}
    /\ bpc' = IF inExecute THEN "execute" ELSE "idle"
    /\ UNCHANGED <<commands, files, deferred, tmpdir, missing, inExecute, runVars, result>>

\* Execute of a sandbox that was built
Execute ==
    /\ bpc = "idle" /\ tmpdir # {}
    /\ bpc' = "execute"
    /\ UNCHANGED <<commands, files, deferred, tmpdir, missing, inExecute, runVars, result>>

\* multiBuffer.Write
Written(m, tag, data) ==
    [buf |-> m.buf \o data, chunks |-> Append(m.chunks, [tag |-> tag, size |-> Len(data)])]

Line(c) == <<"$", c>>

\* exec: the line that names the command, and then the command.
ExecBegin ==
    /\ bpc = "execute" /\ next <= Len(commands)
    /\ bpc' = "command"
    /\ wrote' = [t \in Tags |-> 0]
    /\ shown' = Written(shown, "stdout", <<Line(commands[next])>>)
    /\ said' = [said EXCEPT !["stdout"] = Append(@, Line(commands[next]))]
    /\ UNCHANGED <<commands, files, deferred, tmpdir, missing, inExecute, next, done, result>>

\* The goroutine of an output passes on some bytes of it.
Output(tag, n) ==
    /\ bpc = "command"
    /\ wrote[tag] + n <= MaxWrites
    /\ LET data == [i \in 1..n |-> <<tag, wrote[tag] + i>>]
       IN /\ shown' = Written(shown, tag, data)
          /\ said' = [said EXCEPT ![tag] = @ \o data]
    /\ wrote' = [wrote EXCEPT ![tag] = @ + n]
    /\ UNCHANGED <<commands, files, deferred, tmpdir, missing, bpc, inExecute, next, done, result>>

\* The command ends with code 0 ...
ExecNext ==
    /\ bpc = "command"
    /\ done' = done \union {c \in {commands[next]} : \A d \in tmpdir : FilesOf[c] \subseteq d}
    /\ next' = next + 1
    /\ bpc' = "execute"
    /\ UNCHANGED <<commands, files, deferred, tmpdir, missing, inExecute, wrote, shown, said, result>>

\* A wrong loop: it goes on after a command that failed.
ExecFailNext ==
    /\ bpc = "command"
    /\ next' = next + 1
    /\ bpc' = "execute"
    /\ UNCHANGED <<commands, files, deferred, tmpdir, missing, inExecute, wrote, shown, said, done, result>>

\* ... or with another one: Execute leaves its loop.
ExecFail ==
    /\ bpc = "command"
    /\ Return("nonzero")
    /\ UNCHANGED <<commands, files, deferred, tmpdir, missing, inExecute, runVars>>

\* unshare cannot be started.
ExecError ==
    /\ bpc = "command"
    /\ Return("error")
    /\ UNCHANGED <<commands, files, deferred, tmpdir, missing, inExecute, runVars>>

ExecuteEnd ==
    /\ bpc = "execute" /\ next > Len(commands)
    /\ Return("zero")
    /\ UNCHANGED <<commands, files, deferred, tmpdir, missing, inExecute, runVars>>

\* Cleanup, of whatever there is.
Cleanup ==
    /\ bpc = "returned"
    /\ tmpdir' = {}
    /\ commands' = IF tmpdir = {} THEN commands ELSE <<>>
    /\ files' = IF tmpdir = {} THEN files ELSE {}
    /\ bpc' = "clean"
    /\ UNCHANGED <<deferred, missing, inExecute, runVars, result>>

SandboxNext ==
    \/ \E c \in Commands : Command(c)
    \/ CommandNotFound
    \/ \E f \in Extras : CopyIn(f)
    \/ \E execute \in BOOLEAN : Build(execute)
    \/ \E f \in files : BuildCopy(f)
    \/ BuildFail \/ BuildEnd
    \/ Execute \/ ExecBegin
    \/ \E t \in Tags, n \in 1..MaxWrites : Output(t, n)
    \/ ExecNext \/ ExecFail \/ ExecError \/ ExecuteEnd
    \/ Cleanup

SandboxSpec == SandboxInit /\ [][SandboxNext]_boxVars

-----------------------------------------------------------------------------
(* Properties *)

\* A chunk in the loop of multiBuffer.Read: it is behind what the chunks
\* before it have taken of the buffer.
ReadChunk(m, tag, i, r) ==
    [at |-> r.at + m.chunks[i].size,
     out |-> IF m.chunks[i].tag = tag
             THEN r.out \o SubSeq(m.buf, r.at + 1, r.at + m.chunks[i].size)
             ELSE r.out]

\* multiBuffer.Read
Read(m, tag) ==
    LET read[i \in 0..Len(m.chunks)] ==
            IF i = 0 THEN [at |-> 0, out |-> <<>>]
            ELSE ReadChunk(m, tag, i, read[i - 1])
    IN read[Len(m.chunks)].out

\* "Exit code of test command sequence" (exec.go:143): an Execute that reports
\* code 0 has run every command that was scheduled, each with success and in
\* a directory with its files; and its output tells apart what the commands
\* wrote to their two outputs, however the writes were mixed.
ResultTrue ==
    /\ result = "zero" /\ bpc = "returned" => Scheduled \subseteq done
    /\ \A t \in Tags : Read(shown, t) = said[t]
=============================================================================
