------------------------------ MODULE FullDuplex ------------------------------
(***************************************************************************)
(* The full-duplex orchestrator of voice runs                              *)
(* (src/tau2/orchestrator/full_duplex_orchestrator.py, class               *)
(* FullDuplexOrchestrator), run through BaseOrchestrator.run().            *)
(*                                                                         *)
(* Both participants emit one chunk per tick, each hearing the chunk the   *)
(* other emitted in the tick before.  Tool calls are executed within the   *)
(* tick and their results delivered, on a channel of their own, with the   *)
(* caller's next chunk, or through stop() when there is none.  A chunk is  *)
(* known by the tick it was emitted in; a tool call, and its result, by    *)
(* the tick of the call.                                                   *)
(***************************************************************************)
EXTENDS Integers, Sequences, SequencesExt

CONSTANTS
  MaxSteps,  \* max_steps
  MaxErrors, \* max_errors
  MaxCalls,  \* bound: tool calls in one chunk
  HasTimeout \* timeout is not None

ASSUME LimitsAssumption == /\ MaxSteps \in Nat /\ MaxErrors \in Nat
                           /\ MaxCalls \in Nat /\ HasTimeout \in BOOLEAN

Participants == {"AGENT", "USER"}
Other(p) == IF p = "AGENT" THEN "USER" ELSE "AGENT"
StopReason(p) == IF p = "AGENT" THEN "AGENT_STOP" ELSE "USER_STOP"
Reasons == {"AGENT_STOP", "USER_STOP", "MAX_STEPS", "TOO_MANY_ERRORS", "TIMEOUT"}

VARIABLES
  pc,          \* where run() is
  done, termination_reason, step_count, num_errors, \* as in the base class
  ticks,       \* len(self.ticks)
  current,     \* per participant: the tick of self.current_{agent,user}_chunk
  emitted,     \* per participant: the tick of the chunk of the step under way
  pending,     \* per participant: its pending tool results
  heard,       \* per participant: the chunks it was given
  calls,       \* per participant: the tool calls it made
  results,     \* per participant: the tool results it was given
  stopSignals, \* who has sent a stop signal in the last step
  stops        \* per participant: how often stop() was called

verdict == <<done, termination_reason>>
counters == <<step_count, num_errors>>
channels == <<current, emitted, pending, heard, calls, results>>
duplexVars == <<pc, verdict, counters, ticks, channels, stopSignals, stops>>

Both(v) == [p \in Participants |-> v]

DuplexInit ==
  /\ pc = "init"
  /\ done = FALSE /\ termination_reason = "NONE" /\ step_count = 0 /\ num_errors = 0
  /\ ticks = 0
  /\ current = Both(0) /\ emitted = Both(0)
  /\ pending = Both(<<>>) /\ heard = Both(<<>>)
  /\ calls = Both(<<>>) /\ results = Both(<<>>)
  /\ stopSignals = {} /\ stops = Both(0)
-----------------------------------------------------------------------------
\* The first tick: the agent's greeting and the user's first chunk, which
\* answers a silent one.  A history, set_state, that chunk or, when the tick is
\* recorded, sync_tools may raise; it is too early then for _cleanup().
Initialize ==
  /\ pc = "init"
  /\ \/ ticks' = 1 /\ pc' = "user"
     \/ ticks' \in {0, 1} /\ pc' = "aborted"
  /\ UNCHANGED <<verdict, counters, channels, stopSignals, stops>>

\* Mutant: the agent hears what the user says in the same tick.
IncomingEmitted(p) == IF p = "AGENT" THEN emitted["USER"] ELSE current["AGENT"]
\* current_user_chunk or current_agent_chunk, of the tick before.
Incoming(p) == current[Other(p)]

\* _process_participant_turn: one get_next_chunk with both channels, the stop
\* signal, the tool calls at once, their results pending.
TakeTurn(p) ==
  /\ heard' = [heard EXCEPT ![p] = Append(@, Incoming(p))]
  /\ results' = [results EXCEPT ![p] = @ \o pending[p]]
  /\ emitted' = [emitted EXCEPT ![p] = ticks]
  /\ \E stop \in BOOLEAN :
       /\ done' = (done \/ stop)
       /\ termination_reason' = IF stop THEN StopReason(p) ELSE termination_reason
       /\ stopSignals' = IF stop THEN stopSignals \cup {p} ELSE stopSignals
  /\ \E n \in 0..MaxCalls : \E failed \in 0..n :
       /\ calls' = [calls EXCEPT ![p] = @ \o [k \in 1..n |-> ticks]]
       /\ pending' = [pending EXCEPT ![p] = [k \in 1..n |-> ticks]]
       /\ num_errors' = num_errors + failed
  /\ UNCHANGED <<step_count, ticks, current, stops>>

\* step(): the user's turn, the agent's, and the bookkeeping.
UserTurn == pc = "user" /\ TakeTurn("USER") /\ pc' = "agent"
AgentTurn == pc = "agent" /\ TakeTurn("AGENT") /\ pc' = "tick"

\* The tick is recorded; sync_tools may raise once it is.
EndTick ==
  /\ pc = "tick"
  /\ current' = emitted
  /\ ticks' = ticks + 1 /\ step_count' = step_count + 1
  /\ pc' \in {"check", "cleanup"}
  /\ UNCHANGED <<verdict, num_errors, emitted, pending, heard, calls, results,
                 stopSignals, stops>>

\* get_next_chunk or validate() raises.
TurnRaises ==
  /\ pc \in {"user", "agent"}
  /\ pc' = "cleanup"
  /\ UNCHANGED <<verdict, counters, ticks, channels, stopSignals, stops>>

OutOfSteps == step_count >= MaxSteps
OutOfErrors == num_errors >= MaxErrors

\* The last of the checks that apply has the last word.
Reason(late) ==
  IF OutOfErrors THEN "TOO_MANY_ERRORS" ELSE IF OutOfSteps THEN "MAX_STEPS"
  ELSE IF late THEN "TIMEOUT" ELSE termination_reason

\* _check_termination() and the loop condition.
CheckTermination ==
  /\ pc = "check"
  /\ LET limit == OutOfSteps \/ OutOfErrors
     IN  \E late \in {b \in BOOLEAN : b => HasTimeout /\ ~done /\ ~limit} :
           /\ done' = (done \/ limit \/ late)
           /\ termination_reason' = Reason(late)
  /\ pc' = IF done' THEN "finalize" ELSE "user"
  /\ UNCHANGED <<counters, ticks, channels, stopSignals, stops>>

\* Mutant: the user is forgotten.
StopAgent == stops' = [stops EXCEPT !["AGENT"] = @ + 1]
StopBoth == stops' = [p \in Participants |-> stops[p] + 1]

\* Mutant: what is pending is not handed over.
FinalizeOnly ==
  /\ pc = "finalize" /\ pc' \in {"returned", "cleanup"}
  /\ StopBoth
  /\ UNCHANGED <<verdict, counters, ticks, channels, stopSignals>>

\* _finalize(): pending tool results go through stop(), whose exceptions are
\* only logged; building the SimulationRun may still raise.
Finalize ==
  /\ pc = "finalize"
  /\ results' = [p \in Participants |-> results[p] \o pending[p]]
  /\ StopBoth
  /\ pc' \in {"returned", "cleanup"}
  /\ UNCHANGED <<verdict, counters, ticks, current, emitted, pending, heard, calls,
                 stopSignals>>

\* _cleanup(): both are stopped without anything, and the exception goes on.
Cleanup ==
  /\ pc = "cleanup"
  /\ StopBoth
  /\ pc' = "raised"
  /\ UNCHANGED <<verdict, counters, ticks, channels, stopSignals>>

DuplexEnded == pc \in {"returned", "raised", "aborted"} /\ UNCHANGED duplexVars

DuplexNext == \/ Initialize \/ UserTurn \/ AgentTurn \/ EndTick \/ TurnRaises
        \/ CheckTermination \/ Finalize \/ Cleanup \/ DuplexEnded

DuplexSpec == DuplexInit /\ [][DuplexNext]_duplexVars
-----------------------------------------------------------------------------
(* Properties.                                                             *)

\* The types of the variables.
DuplexTypeOK ==
  /\ pc \in {"init", "user", "agent", "tick", "check", "finalize", "cleanup",
             "returned", "raised", "aborted"}
  /\ done \in BOOLEAN /\ termination_reason \in Reasons \cup {"NONE"}
  /\ step_count \in 0..MaxSteps \/ step_count = 1
  /\ num_errors \in Nat /\ ticks \in {0, step_count + 1}
  /\ current \in [Participants -> Nat] /\ emitted \in [Participants -> Nat]
  /\ pending \in [Participants -> Seq(Nat)] /\ heard \in [Participants -> Seq(Nat)]
  /\ calls \in [Participants -> Seq(Nat)] /\ results \in [Participants -> Seq(Nat)]
  /\ stopSignals \subseteq Participants /\ stops \in [Participants -> Nat]

\* The two hear each other in lockstep, one tick late, without a gap: neither
\* learns the other's chunk of the same tick, although the user moves first.
HeardInLockstep ==
  \A p \in Participants :
    /\ \A k \in 1..Len(heard[p]) : heard[p][k] = k - 1
    /\ Len(heard[p]) <= ticks
    /\ pc \in {"user", "check", "finalize", "returned"} => Len(heard[p]) = ticks - 1

\* A tool result reaches its caller exactly once and in the order of the
\* calls; until then it is pending, and no longer than to the caller's next turn.
\* A run that returns owes nobody a result, not even of its last tick.
ResultsOnNextTick ==
  \A p \in Participants :
    /\ IsPrefix(results[p], calls[p])
    /\ pc \in {"user", "agent", "tick", "check", "finalize"} =>
         calls[p] = results[p] \o pending[p]
    /\ pc = "user" => \A k \in 1..Len(pending[p]) : pending[p][k] = ticks - 1
    /\ pc = "returned" => results[p] = calls[p]

\* Both channels of both participants: nothing lost, repeated or too early.
ChannelsInLockstep == HeardInLockstep /\ ResultsOnNextTick

\* How a run ends.  The reported reason is borne out by the last tick; when both
\* stop in one tick it is the agent's, and a limit reached in that tick comes
\* before both.  Both participants are stopped by a run that returns once; by one
\* that raises, at least once if it got past initialize(), and at most twice.
ReasonBorneOut ==
  pc \in {"finalize", "returned"} =>
    CASE OutOfErrors -> termination_reason = "TOO_MANY_ERRORS"
      [] ~OutOfErrors /\ OutOfSteps -> termination_reason = "MAX_STEPS"
      [] OTHER -> IF stopSignals = {} THEN termination_reason = "TIMEOUT" /\ HasTimeout
                  ELSE termination_reason =
                         StopReason(IF "AGENT" \in stopSignals THEN "AGENT" ELSE "USER")
StoppedAtEnd ==
  /\ stops["AGENT"] = stops["USER"]
  /\ pc = "returned" => stops["AGENT"] = 1
  /\ pc = "raised" => stops["AGENT"] \in 1..2
  /\ pc \in {"user", "agent", "tick", "check", "finalize", "aborted"} => stops["AGENT"] = 0
TickRunEndsSoundly == ReasonBorneOut /\ StoppedAtEnd
=============================================================================
