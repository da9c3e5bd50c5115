------------------------------- MODULE McpCall -------------------------------
(***************************************************************************)
(* What a tool call of the MCP server promises, whatever happens inside    *)
(* (src/common/mcp_server.cpp): the call is submitted once; either it is   *)
(* executed exactly once against the radare2 session and the outcome of    *)
(* that execution is its answer, or it is refused and never executed.      *)
(* McpQueue implements this specification.                                 *)
(***************************************************************************)
CONSTANTS Calls,        \* the tool calls, one per request of a client
          Outcomes,     \* what an execution may produce
          NoOutcome,    \* nothing was executed
          Refused       \* the answer of a call the server did not execute

VARIABLES
    phase,      \* [Calls -> "new", "submitted", "executed" or "answered"]
    outcome,    \* [Calls -> outcome of the execution, NoOutcome before it]
    answer      \* [Calls -> what the client was told, NoOutcome before]

vars == <<phase, outcome, answer>>

Init ==
    /\ phase = [c \in Calls |-> "new"]
    /\ outcome = [c \in Calls |-> NoOutcome]
    /\ answer = [c \in Calls |-> NoOutcome]

Submit(c) ==
    /\ phase[c] = "new"
    /\ phase' = [phase EXCEPT ![c] = "submitted"]
    /\ UNCHANGED <<outcome, answer>>

Execute(c) ==
    /\ phase[c] = "submitted"
    /\ phase' = [phase EXCEPT ![c] = "executed"]
    /\ \E o \in Outcomes : outcome' = [outcome EXCEPT ![c] = o]
    /\ UNCHANGED answer

Answer(c) ==
    /\ phase[c] = "executed"
    /\ phase' = [phase EXCEPT ![c] = "answered"]
    /\ answer' = [answer EXCEPT ![c] = outcome[c]]
    /\ UNCHANGED outcome

Refuse(c) ==
    /\ phase[c] \in {"new", "submitted"}
    /\ phase' = [phase EXCEPT ![c] = "answered"]
    /\ answer' = [answer EXCEPT ![c] = Refused]
    /\ UNCHANGED outcome

Next == \E c \in Calls : Submit(c) \/ Execute(c) \/ Answer(c) \/ Refuse(c)

Spec == Init /\ [][Next]_vars
=============================================================================
