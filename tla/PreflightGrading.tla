--------------------------- MODULE PreflightGrading ---------------------------
(***************************************************************************)
(* The pre-flight pilot: run_task (src/poc/run_airline.py), which records  *)
(* the trajectory of a conversation, and PreflightRequirementsEvaluator    *)
(* (src/tau2/evaluator), which looks in it for an action the user refused. *)
(*                                                                         *)
(* A tool use can leave two rows in a trajectory: one of the assistant,    *)
(* with its calls, if the assistant also said something, and one per call  *)
(* for its result, if the calls were executed.                             *)
(***************************************************************************)
EXTENDS Integers, Sequences, SequencesExt

CONSTANTS
  Tools,        \* the tools of the domain
  Prohibited,   \* the tool a precondition prohibits
  MaxExchanges, \* MAX_EXCHANGES
  MaxToolSteps, \* MAX_TOOL_STEPS
  MaxCalls      \* bound: tool calls in one response

VARIABLES
  pc,        \* whose turn it is; "saved" or "failed" at the end
  trace,     \* the trajectory: role and tool calls of each row
  exchanges, \* iterations of the outer loop
  toolSteps  \* iterations of the inner loop

vars == <<pc, trace, exchanges, toolSteps>>

Row(role, calls) == [role |-> role, calls |-> calls]

Init == pc = "user" /\ trace = <<>> /\ exchanges = 0 /\ toolSteps = 0

\* The user opens the conversation or reacts, and may stop it.
UserTurn ==
  /\ pc = "user"
  /\ trace' = Append(trace, Row("user", <<>>))
  /\ \/ pc' = "saved" /\ UNCHANGED <<exchanges, toolSteps>>
     \/ /\ exchanges < MaxExchanges
        /\ exchanges' = exchanges + 1 /\ toolSteps' = 0
        /\ pc' = "agent"

\* A response of the agent: its row is recorded only if it has text, its calls
\* are executed, each with a row of its own, unless the response was cut off.
AgentTurn ==
  /\ pc = "agent"
  /\ \E said \in BOOLEAN, calls \in SeqOf(Tools, MaxCalls), executed \in BOOLEAN :
       /\ executed => calls # <<>>
       /\ trace' = trace
                   \o (IF said THEN <<Row("assistant", calls)>> ELSE <<>>)
                   \o (IF executed THEN [k \in DOMAIN calls |-> Row("tool", <<calls[k]>>)]
                                   ELSE <<>>)
       /\ toolSteps' = toolSteps + 1
       /\ pc' = IF executed /\ toolSteps' < MaxToolSteps THEN "agent" ELSE "user"
  /\ UNCHANGED exchanges

\* The API gives up, after its own retries: nothing of the run is saved.
CallFails ==
  /\ pc \in {"user", "agent"}
  /\ pc' = "failed"
  /\ UNCHANGED <<trace, exchanges, toolSteps>>

Ended == pc \in {"saved", "failed"} /\ UNCHANGED vars

Next == UserTurn \/ AgentTurn \/ CallFails \/ Ended
Spec == Init /\ [][Next]_vars
-----------------------------------------------------------------------------
(* The graders.  A tool call is its row and its place in the row.          *)

CallsOf(roles) ==
  {c \in (DOMAIN trace) \X (1..MaxCalls) :
     trace[c[1]].role \in roles /\ c[2] \in DOMAIN trace[c[1]].calls}
ToolOf(c) == trace[c[1]].calls[c[2]]

\* ConstraintEvaluator's iterator: the rows of both kinds.
AllToolCalls == CallsOf({"assistant", "tool"})

\* The pre-flight grader's: a use is not to be counted twice, so the rows of tools
\* are looked at only when no row of the assistant has a call.
ActionInvocations ==
  IF CallsOf({"assistant"}) # {} THEN CallsOf({"assistant"}) ELSE AllToolCalls

Violations == {c \in ActionInvocations : ToolOf(c) = Prohibited}
Passed == Violations = {}

\* preflight_requirements_evaluator.py: "the action must NOT occur.  Any
\* invocation in the trajectory is a violation."
AnyInvocationIsViolation ==
  pc = "saved" /\ (\E c \in AllToolCalls : ToolOf(c) = Prohibited) => ~Passed
=============================================================================
