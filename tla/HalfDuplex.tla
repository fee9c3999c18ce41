----------------------------- MODULE HalfDuplex -----------------------------
(***************************************************************************)
(* The half-duplex (turn-based) orchestrator of tau2:                      *)
(* src/tau2/orchestrator/orchestrator.py, class Orchestrator, run through  *)
(* BaseOrchestrator.run().                                                 *)
(*                                                                         *)
(* One behaviour is one call of run(): initialize() outside the try block, *)
(* then step() and _check_termination() alternate while not done, then     *)
(* _finalize(), with _cleanup() in the finally clause when an exception    *)
(* escapes.  What the agent, the user and the environment answer is        *)
(* nondeterministic: a message is reduced to whether its text is blank,    *)
(* audio only, plain or carries a stop token, and to how many tool calls   *)
(* it makes.                                                               *)
(***************************************************************************)
EXTENDS Integers, Sequences, SequencesExt

CONSTANTS
  MaxSteps,              \* max_steps
  MaxErrors,             \* max_errors
  MaxCalls,              \* bound: tool calls in one message
  Modes,                 \* which [solo, validate] settings runs may have
  HasTimeout,            \* timeout is not None
  Histories              \* per solo_mode, the tasks' message histories; <<>>
                         \* starts afresh

Participants == {"AGENT", "USER"}
Role == Participants \cup {"ENV"}
Texts == {"blank", "audio", "plain", "stop"}

(***************************************************************************)
(* An element of the trajectory: who sent it, whom to_role named as its    *)
(* receiver, and its content.  A ToolMessage goes from ENV to its          *)
(* requestor.                                                              *)
(***************************************************************************)
Message == [from : Role, to : Role, text : Texts, calls : 0..MaxCalls]

IsToolCall(m) == m.calls > 0
HasText(m) == m.text \in {"plain", "stop"}
\* Message.validate(): some content, or a tool call.
Valid(m) == m.text # "blank" \/ IsToolCall(m)

\* is_stop of an agent that has a stop token looks at the text only,
\* UserSimulator.is_stop never takes a tool call for a stop.
IsStop(m) == /\ m.text = "stop"
             /\ m.from = "USER" => ~IsToolCall(m)

Other(p) == IF p = "AGENT" THEN "USER" ELSE "AGENT"
StopReason(p) == IF p = "AGENT" THEN "AGENT_STOP" ELSE "USER_STOP"
ErrorReason(p) == IF p = "AGENT" THEN "AGENT_ERROR" ELSE "USER_ERROR"

ErrorReasons == {"AGENT_ERROR", "USER_ERROR"}
Reasons == ErrorReasons \cup
           {"AGENT_STOP", "USER_STOP", "MAX_STEPS", "TOO_MANY_ERRORS", "TIMEOUT"}

ASSUME LimitsAssumption == /\ MaxSteps \in Nat
                           /\ MaxErrors \in Nat
                           /\ MaxCalls \in Nat \ {0}
ASSUME ModeAssumption == /\ Modes \subseteq [solo : BOOLEAN, validate : BOOLEAN]
                         /\ HasTimeout \in BOOLEAN

(***************************************************************************)
(* A message of a task's history goes where its kind says: a tool call to  *)
(* the environment, text to the other participant, a result to the         *)
(* requestor it names.                                                     *)
(***************************************************************************)
Addressed(m) == IF m.from = "ENV" THEN m.to \in Participants /\ ~IsToolCall(m)
                ELSE m.to = IF IsToolCall(m) THEN "ENV" ELSE Other(m.from)

ASSUME HistoryAssumption ==
  \A solo \in BOOLEAN : /\ Histories[solo] \subseteq Seq(Message)
                        /\ \A h \in Histories[solo] : \A i \in 1..Len(h) : Addressed(h[i])

\* Every call of the i-th message has its result right behind it.
Answered(traj, i) ==
  \A k \in 1..traj[i].calls :
    /\ i + k <= Len(traj)
    /\ traj[i + k].from = "ENV"
    /\ traj[i + k].to = traj[i].from

\* A result stands among those of a message before it.
AnswersCall(traj, i) == \E j \in 1..(i - 1) : i \in (j + 1)..(j + traj[j].calls)

\* A history that neither the replay by set_state nor validate_message_history
\* refuses: set_state raises on a result too few or too many, on a call that ends
\* the history as well, and on a user message in solo mode.
Replayable(h, solo) ==
  \A i \in 1..Len(h) :
    /\ h[i].from \in Participants => Valid(h[i]) /\ Answered(h, i)
    /\ h[i].from = "ENV" => AnswersCall(h, i)
    /\ solo => h[i].from # "USER"

VARIABLES
  mode,               \* solo_mode and validate_communication of this run
  pc,                 \* where run() is
  from_role, to_role, \* self.from_role, self.to_role
  message,            \* self.message, as the positions in trajectory it wraps
  done,               \* self.done
  termination_reason, \* self.termination_reason
  step_count,         \* self.step_count
  num_errors,         \* self.num_errors
  trajectory,         \* self.trajectory
  inbox,              \* per participant: positions handed to it, in order
  stops               \* per participant: how often stop() was called

control == <<done, termination_reason, step_count, num_errors>>
route == <<from_role, to_role, message, trajectory>>
vars == <<mode, pc, control, route, inbox, stops>>

SoloMode == mode.solo
ValidateCommunication == mode.validate

Init ==
  /\ mode \in Modes
  /\ pc = "init"
  /\ from_role = "AGENT" /\ to_role = "USER" /\ message = <<>>
  /\ done = FALSE /\ termination_reason = "NONE"
  /\ step_count = 0 /\ num_errors = 0
  /\ trajectory = <<>>
  /\ inbox = [p \in Participants |-> <<>>]
  /\ stops = [p \in Participants |-> 0]

-----------------------------------------------------------------------------
(* Helpers shared by initialize() and step().                              *)

\* _check_communication_error() raises AgentError or UserError.
CommunicationError(m) ==
  /\ m.from \in Participants
  /\ \/ ~IsToolCall(m) /\ ~HasText(m)
     \/ IsToolCall(m) /\ HasText(m)
     \/ m.from = "AGENT" /\ SoloMode /\ HasText(m) /\ ~IsStop(m)

\* The verdict of a turn, and check_communication_error() overriding it.
Conclude(m, isDone, reason) ==
  LET failed == ValidateCommunication /\ CommunicationError(m)
  IN  /\ done' = (isDone \/ failed)
      /\ termination_reason' = IF failed THEN ErrorReason(m.from) ELSE reason

\* Positions of the messages of a trajectory that name r as receiver.
AddressedTo(traj, r) ==
  LET upTo[n \in 0..Len(traj)] ==
        IF n = 0 THEN <<>>
        ELSE IF traj[n].to = r THEN Append(upTo[n - 1], n) ELSE upTo[n - 1]
  IN  upTo[Len(traj)]

\* Mutant: of several tool results only the last one is delivered.
DeliverLast(p) == inbox' = [inbox EXCEPT ![p] = Append(@, message[Len(message)])]

\* Hand the current message to a participant.
Deliver(p) == inbox' = [inbox EXCEPT ![p] = @ \o message]

\* Mutant: a tool call is routed as if it were text.
SendAsText(m) == /\ trajectory' = Append(trajectory, m)
                 /\ message' = <<Len(trajectory) + 1>>
                 /\ from_role' = m.from
                 /\ to_role' = Other(m.from)

\* Append one message of a participant and route it.
Send(m) == /\ trajectory' = Append(trajectory, m)
           /\ message' = <<Len(trajectory) + 1>>
           /\ from_role' = m.from
           /\ to_role' = m.to

\* What a participant may answer: LLM output is not constrained beyond validate().
Answers(p) ==
  {m \in [from : {p}, to : Role \ {p}, text : Texts, calls : 0..MaxCalls] :
     Valid(m) /\ Addressed(m)}

\* In solo mode the agent's plain text ends the run with an agent error.
SoloTalk(m) == SoloMode /\ ~IsToolCall(m) /\ ~IsStop(m)
-----------------------------------------------------------------------------
(* initialize(): runs before the try block, so an exception in it skips    *)
(* both _finalize() and _cleanup().                                        *)

\* sync_tools() comes last and may raise.
AfterInitialize == pc' \in {"aborted", IF done' THEN "finalize" ELSE "loop"}

\* A fresh dialogue opens with DEFAULT_FIRST_AGENT_MESSAGE.
InitializeFresh ==
  /\ pc = "init" /\ ~SoloMode
  /\ <<>> \in Histories[SoloMode]
  /\ LET first == [from |-> "AGENT", to |-> "USER", text |-> "plain", calls |-> 0]
     IN  Send(first) /\ Conclude(first, FALSE, "NONE")
  /\ AfterInitialize
  /\ UNCHANGED <<mode, step_count, num_errors, inbox, stops>>

\* A fresh solo run opens with the agent's own first message; a message that
\* is both a tool call and a stop is sent to USER (the code's FIXIT).
InitializeSolo ==
  /\ pc = "init" /\ SoloMode
  /\ <<>> \in Histories[SoloMode]
  /\ \E a \in Answers("AGENT") :
       LET m == IF IsStop(a) THEN [a EXCEPT !.to = "USER"] ELSE a
       IN  /\ Send(m)
           /\ Conclude(m, IsStop(m) \/ SoloTalk(m),
                       IF IsStop(m) THEN "AGENT_STOP"
                       ELSE IF SoloTalk(m) THEN "AGENT_ERROR" ELSE "NONE")
  /\ AfterInitialize
  /\ UNCHANGED <<mode, step_count, num_errors, inbox, stops>>

\* A run that continues a task's history: everything but its last message is
\* in the participants' initial states, the last message is still to deliver.
InitializeHistory ==
  /\ pc = "init"
  /\ \E h \in Histories[SoloMode] \ {<<>>} :
       LET last == h[Len(h)]
       IN  /\ Replayable(h, SoloMode)
           /\ trajectory' = h
           /\ message' = <<Len(h)>>
           /\ from_role' = last.from /\ to_role' = last.to
           /\ inbox' = [p \in Participants |->
                          AddressedTo(SubSeq(h, 1, Len(h) - 1), p)]
           /\ Conclude(last, IsStop(last) /\ last.from \in Participants,
                       IF IsStop(last) /\ last.from \in Participants
                       THEN StopReason(last.from) ELSE "NONE")
  /\ AfterInitialize
  /\ UNCHANGED <<mode, step_count, num_errors, stops>>

\* set_state, validate_message_history, an assertion or the first solo message raises.
InitializeRaises ==
  /\ pc = "init"
  /\ pc' = "aborted"
  /\ UNCHANGED <<mode, control, route, inbox, stops>>
-----------------------------------------------------------------------------
(* step(): one of three turns.  sync_tools() closes each and may raise,    *)
(* after everything else of the step has happened.                         *)

EndOfStep == /\ step_count' = step_count + 1
             /\ pc' \in {"check", "cleanup"}

\* AGENT/ENV -> USER and USER/ENV -> AGENT.
ParticipantTurn(p) ==
  /\ pc = "loop"
  /\ to_role = p /\ from_role # p
  /\ SoloMode => p = "AGENT"
  /\ Deliver(p)
  /\ \E m \in Answers(p) :
       /\ Send(m)
       /\ LET talk == p = "AGENT" /\ SoloTalk(m)
          IN  Conclude(m, done \/ IsStop(m) \/ talk,
                       IF talk THEN "AGENT_ERROR"
                       ELSE IF IsStop(m) THEN StopReason(p) ELSE termination_reason)
  /\ EndOfStep
  /\ UNCHANGED <<mode, num_errors, stops>>

\* generate_next_message or validate() raises (DummyUser always does).
ParticipantRaises ==
  /\ pc = "loop"
  /\ to_role \in Participants /\ from_role # to_role
  /\ pc' = "cleanup"
  /\ UNCHANGED <<mode, control, route, inbox, stops>>

\* AGENT/USER -> ENV: one ToolMessage per tool call, in order, some of them errors.
EnvironmentTurn ==
  /\ pc = "loop"
  /\ to_role = "ENV" /\ from_role \in Participants
  /\ LET call == trajectory[message[1]]
         answer == [from |-> "ENV", to |-> from_role, text |-> "plain", calls |-> 0]
     IN  /\ IsToolCall(call)
         /\ trajectory' = trajectory \o [k \in 1..call.calls |-> answer]
         /\ message' = [k \in 1..call.calls |-> Len(trajectory) + k]
         /\ \E failed \in 0..call.calls : num_errors' = num_errors + failed
  /\ from_role' = "ENV" /\ to_role' = from_role
  /\ EndOfStep
  /\ UNCHANGED <<mode, done, termination_reason, inbox, stops>>
-----------------------------------------------------------------------------
(* The rest of run().                                                      *)

OutOfSteps == step_count >= MaxSteps
OutOfErrors == num_errors >= MaxErrors

\* Mutant: a run that is over for another reason times out all the same.
TimesOutAnyway(limit) == HasTimeout /\ ~limit
\* _check_timeout(): the clock is looked at only while the run is not done.
MayTimeOut(limit) == HasTimeout /\ ~done /\ ~limit

\* _check_termination() and the loop condition.  The limits are not looked at
\* while the environment still owes an answer; when they are, they replace the
\* reason of a stop in the same step.
CheckTermination ==
  /\ pc = "check"
  /\ IF to_role = "ENV"
     THEN UNCHANGED <<done, termination_reason>>
     ELSE LET limit == OutOfSteps \/ OutOfErrors
          IN  \E late \in {b \in BOOLEAN : b => MayTimeOut(limit)} :
                /\ done' = (done \/ limit \/ late)
                /\ termination_reason' =
                     IF OutOfErrors THEN "TOO_MANY_ERRORS"
                     ELSE IF OutOfSteps THEN "MAX_STEPS"
                     ELSE IF late THEN "TIMEOUT" ELSE termination_reason
  /\ pc' = IF done' THEN "finalize" ELSE "loop"
  /\ UNCHANGED <<mode, step_count, num_errors, route, inbox, stops>>

StopBoth == stops' = [p \in Participants |-> stops[p] + 1]

\* _finalize(): the pending message goes to its receiver through stop(); a
\* message pending for the environment is a ValueError unless the run failed.
\* Building the SimulationRun may raise as well.
Finalize ==
  /\ pc = "finalize"
  /\ \/ /\ to_role = "ENV" /\ termination_reason \notin ErrorReasons
        /\ pc' = "cleanup"
        /\ UNCHANGED <<inbox, stops>>
     \/ /\ to_role = "ENV" /\ termination_reason \in ErrorReasons
        /\ pc' \in {"returned", "cleanup"}
        /\ StopBoth
        /\ UNCHANGED inbox
     \/ /\ to_role \in Participants
        /\ pc' \in {"returned", "cleanup"}
        /\ StopBoth
        /\ Deliver(to_role)
  /\ UNCHANGED <<mode, control, route>>

\* Mutant: the exception is swallowed.
CleanupAndGoOn == pc = "cleanup" /\ pc' = "loop" /\ StopBoth
                  /\ UNCHANGED <<mode, control, route, inbox>>

\* _cleanup(): stop both without a message, then the exception propagates.
Cleanup ==
  /\ pc = "cleanup"
  /\ pc' = "raised"
  /\ StopBoth
  /\ UNCHANGED <<mode, control, route, inbox>>

\* run() has returned a SimulationRun or raised.
Ended == /\ pc \in {"returned", "raised", "aborted"}
         /\ UNCHANGED vars

Initialize == InitializeFresh \/ InitializeSolo \/ InitializeHistory \/ InitializeRaises

Step == (\E p \in Participants : ParticipantTurn(p)) \/ ParticipantRaises \/ EnvironmentTurn

Next == Initialize \/ Step \/ CheckTermination \/ Finalize \/ Cleanup \/ Ended

\* run() is one thread: it goes on as long as every call it makes comes back.
Spec == Init /\ [][Next]_vars
FairSpec == Spec /\ WF_vars(Next)
-----------------------------------------------------------------------------
(* Properties.                                                             *)

\* The types of the variables.
TypeOK ==
  /\ mode \in Modes
  /\ pc \in {"init", "loop", "check", "finalize", "cleanup", "returned", "raised",
             "aborted"}
  /\ from_role \in Role /\ to_role \in Role
  /\ message \in Seq(Nat \ {0})
  /\ done \in BOOLEAN
  /\ termination_reason \in Reasons \cup {"NONE"}
  /\ step_count \in Nat /\ num_errors \in Nat
  /\ trajectory \in Seq(Message)
  /\ inbox \in [Participants -> Seq(Nat \ {0})]
  /\ stops \in [Participants -> Nat]

\* The branches of step() that raise "Invalid role combination" and "should
\* send tool call to environment" are dead: whenever the loop takes a step the
\* pending message is the end of the trajectory, was routed where to_role says,
\* and is a tool call exactly when it is the environment's turn.
RoutingSound ==
  pc \in {"loop", "check"} =>
    /\ from_role # to_role
    /\ message # <<>>
    /\ message[Len(message)] = Len(trajectory)
    /\ \A k \in 1..Len(message) : trajectory[message[k]].to = to_role
    /\ \A k \in 1..Len(message) : trajectory[message[k]].from = from_role
    /\ to_role = "ENV" <=> IsToolCall(trajectory[message[1]])

\* Every tool call in the trajectory but a last one still pending is followed
\* at once by exactly its own results, and results stand nowhere else: the
\* evaluators replay the trajectory under this assumption (set_state).
ToolResultsPaired ==
  \A i \in 1..Len(trajectory) :
    /\ IsToolCall(trajectory[i]) /\ i < Len(trajectory) =>
         /\ Answered(trajectory, i)
         /\ i + trajectory[i].calls < Len(trajectory) =>
              trajectory[i + trajectory[i].calls + 1].from # "ENV"
    /\ trajectory[i].from = "ENV" => AnswersCall(trajectory, i)

\* A simulation is never returned with a tool call nobody executed, unless
\* it is reported as a communication error of a participant.
NoUnexecutedCall ==
  pc = "returned" /\ IsToolCall(trajectory[Len(trajectory)])
    => \/ termination_reason \in ErrorReasons
       \/ Len(trajectory) = 1 /\ IsStop(trajectory[1])

\* Tool calls and results of a trajectory, while it grows and when it is returned.
ToolCallsSettled == ToolResultsPaired /\ NoUnexecutedCall

\* Each participant is handed the messages addressed to it in order, none
\* twice and none skipped, however step(), stop() and the initial history
\* share the work: one message under way is all it can be missing, and a run
\* that returns has handed over everything, the final message included.
DeliveredInOrder ==
  \A p \in Participants :
    /\ IsPrefix(inbox[p], AddressedTo(trajectory, p))
    /\ pc = "returned" => inbox[p] = AddressedTo(trajectory, p)

\* How a run ends.  Both participants are stopped by a run that returns exactly
\* once; by one that raises at least once if it got past initialize(), at most
\* twice, and never while a turn may still follow.  The reported reason is one
\* the conversation bears out, and the limits are overrun by no more than the one
\* environment step that is exempt from the check, and the errors of one message.
StoppedAtEnd ==
  /\ stops["AGENT"] = stops["USER"]
  /\ pc = "returned" => stops["AGENT"] = 1
  /\ pc = "raised" => stops["AGENT"] \in 1..2
  /\ pc \notin {"returned", "cleanup", "raised"} => stops["AGENT"] = 0
Borne(reason) ==
  LET last == trajectory[Len(trajectory)]
  IN  CASE reason = "AGENT_STOP" -> last.from = "AGENT" /\ IsStop(last)
        [] reason = "USER_STOP" -> last.from = "USER" /\ IsStop(last)
        [] reason = "MAX_STEPS" -> OutOfSteps /\ ~OutOfErrors
        [] reason = "TOO_MANY_ERRORS" -> OutOfErrors
        [] reason = "TIMEOUT" -> HasTimeout /\ ~IsStop(last)
        [] reason \in ErrorReasons ->
             /\ last.from = IF reason = "AGENT_ERROR" THEN "AGENT" ELSE "USER"
             /\ CommunicationError(last)
        [] OTHER -> FALSE
ReasonBorneOut == pc = "returned" => Borne(termination_reason)
AtLeastOne(n) == IF n = 0 THEN 1 ELSE n
LimitsHold ==
  /\ step_count <= AtLeastOne(MaxSteps) + 1
  /\ num_errors <= AtLeastOne(MaxErrors) + MaxCalls - 1
RunEndsSoundly == StoppedAtEnd /\ ReasonBorneOut /\ LimitsHold

-----------------------------------------------------------------------------
\* The orchestrator implements the dialogue: the floor is to_role, the caller
\* whoever a pending tool call comes from, and a run that is done, or has left
\* its loop through an exception, is a closed dialogue.
Abstract == INSTANCE Dialogue WITH
  Parties <- Participants,
  phase <- IF pc = "init" THEN "new"
           ELSE IF done \/ pc \in {"cleanup", "raised", "aborted"} THEN "closed" ELSE "open",
  floor <- to_role,
  caller <- IF to_role = "ENV" THEN from_role ELSE to_role

ImplementsDialogue == Abstract!Spec
=============================================================================
