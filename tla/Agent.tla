------------------------------- MODULE Agent --------------------------------
(***************************************************************************)
(* secrets/agent: the connection to ssh-agent that all signatures of the   *)
(* daemon go through.  Sign tries twice: if the first signature fails, the *)
(* connection is made anew.  c.lock is held shared for a signature, and    *)
(* exclusively from connect to the end of check.                           *)
(***************************************************************************)
EXTENDS Naturals

CONSTANT Signers  \* the goroutines that sign

VARIABLES
    agentUp, \* ssh-agent runs
    link,    \* c.socket: "none", "up", "broken" (its ssh-agent is gone) or
             \* "closed" (Close was called on it)
    call,    \* each signer: "idle", "first", "lock", "check", "again", "ok",
             \* "error"
    excused  \* ghost: signers whose call had no ssh-agent for some time

agentVars == <<agentUp, link, call, excused>>

Calling == {p \in Signers : call[p] \in {"first", "lock", "check", "again"}}
Locked == \E p \in Signers : call[p] = "check"

\* agent.New: connect and check.
Connected == agentUp /\ link' = "up"

Sign(p) ==
    /\ call[p] \in {"idle", "ok", "error"}
    /\ call' = [call EXCEPT ![p] = "first"]
    /\ excused' = IF agentUp THEN excused \ {p} ELSE excused \union {p}
    /\ UNCHANGED <<agentUp, link>>

\* A wrong Sign: one attempt.
FirstOnly(p) ==
    /\ call[p] = "first" /\ ~Locked
    /\ call' = [call EXCEPT ![p] = IF link = "up" THEN "ok" ELSE "error"]
    /\ UNCHANGED <<agentUp, link, excused>>

First(p) ==
    /\ call[p] = "first" /\ ~Locked
    /\ call' = [call EXCEPT ![p] = IF link = "up" THEN "ok" ELSE "lock"]
    /\ UNCHANGED <<agentUp, link, excused>>

\* connect: a socket that is already closed cannot be closed, and nothing
\* replaces it then.
Connect(p) ==
    /\ call[p] = "lock" /\ ~Locked
    /\ link' = IF link # "closed" /\ agentUp THEN "up" ELSE "closed"
    /\ call' = [call EXCEPT ![p] = IF link' = "up" THEN "check" ELSE "error"]
    /\ UNCHANGED <<agentUp, excused>>

\* check signs twice, over the new connection.
CheckLink(p) ==
    /\ call[p] = "check"
    /\ call' = [call EXCEPT ![p] = IF link = "up" THEN "again" ELSE "error"]
    /\ UNCHANGED <<agentUp, link, excused>>

Again(p) ==
    /\ call[p] = "again" /\ ~Locked
    /\ call' = [call EXCEPT ![p] = IF link = "up" THEN "ok" ELSE "error"]
    /\ UNCHANGED <<agentUp, link, excused>>

SignStep(p) == First(p) \/ Connect(p) \/ CheckLink(p) \/ Again(p)

\* external: ssh-agent dies, and is started again.
AgentDies ==
    /\ agentUp
    /\ agentUp' = FALSE
    /\ link' = IF link = "up" THEN "broken" ELSE link
    /\ excused' = excused \union Calling
    /\ UNCHANGED call

AgentReturns ==
    /\ ~agentUp
    /\ agentUp' = TRUE
    /\ UNCHANGED <<link, call, excused>>

-----------------------------------------------------------------------------
(* Properties *)

\* Sign fails only if ssh-agent was away during the call, or if Sign found it
\* away before: a restart of ssh-agent between two calls goes unnoticed.
SignFailsWithCause ==
    \A p \in Signers : call[p] = "error" => p \in excused \/ link = "closed"
=============================================================================
