----------------------------- MODULE VoiceProofs -----------------------------
(***************************************************************************)
(* Theorems about Voice, for all limits and thresholds and however many    *)
(* ticks, tool calls and reconnections a run has: the two channels of the  *)
(* full-duplex orchestrator and how its runs end, the turn taking of the   *)
(* simulated user, what a Gemini session delivers across reconnections,    *)
(* what is heard of the agent's answers and shown of their text, for all   *)
(* five adapters and any tick length, and what the user's LLM is shown of  *)
(* any history. Last, about Cascade: for any numbers of tasks,             *)
(* transcripts, answers and pieces, what the user is understood to say is  *)
(* put to the model once, and an answer nobody interrupts is played whole  *)
(* and in order.                                                           *)
(***************************************************************************)
EXTENDS Voice, Cascade, SequenceLemmas, FiniteSetTheorems

-----------------------------------------------------------------------------
(* The orchestrator: the inductive invariant.                              *)

InStep == pc \in {"user", "agent", "tick"}
Going == InStep \/ pc \in {"check", "finalize"}

\* A tick is counted as a step when it is over; no step begins once max_steps
\* are done, except the first.
Clock ==
  /\ pc = "init" => ticks = 0 /\ step_count = 0
  /\ pc \notin {"init", "aborted"} => ticks = step_count + 1
  /\ InStep => step_count = 0 \/ step_count < MaxSteps

\* Before the first tick the channels are empty.
NothingYet ==
  pc = "init" => \A p \in Participants :
    /\ heard[p] = <<>> /\ pending[p] = <<>> /\ calls[p] = <<>> /\ results[p] = <<>>
    /\ current[p] = 0

\* Who has taken its turn in the step under way.
HasMoved(p) == pc = "tick" \/ (pc = "agent" /\ p = "USER")
LastTurn(p) == IF HasMoved(p) THEN ticks ELSE ticks - 1

\* Each turn hears one chunk, the next one; the chunks a step hears are those
\* emitted by the step before.
HeardInTurn ==
  \A p \in Participants :
    /\ \A k \in 1..Len(heard[p]) : heard[p][k] = k - 1
    /\ Len(heard[p]) <= ticks
    /\ Going \/ pc = "returned" => Len(heard[p]) = LastTurn(p)
    /\ Going => current[p] = ticks - 1
    /\ HasMoved(p) => emitted[p] = ticks

\* The results a participant is owed are those of its last turn.
OwedInTurn ==
  \A p \in Participants :
    /\ pc = "init" \/ Going => calls[p] = results[p] \o pending[p]
    /\ pc \in {"cleanup", "raised"} => \/ calls[p] = results[p] \o pending[p]
                                       \/ calls[p] = results[p]
    /\ pc = "returned" => calls[p] = results[p]
    /\ pc = "aborted" => calls[p] = <<>> /\ results[p] = <<>>
    /\ Going => \A k \in 1..Len(pending[p]) : pending[p][k] = LastTurn(p)

\* done and its reason are those of the stop signals of the step, until the
\* limits are checked.
SignalsKept ==
  /\ pc = "init" \/ InStep \/ pc = "check" =>
       IF stopSignals = {} THEN ~done
       ELSE /\ done
            /\ termination_reason = StopReason(IF "AGENT" \in stopSignals THEN "AGENT" ELSE "USER")
  /\ pc \in {"init", "user"} => stopSignals = {}
  /\ pc = "agent" => stopSignals \subseteq {"USER"}

\* Participants are stopped together, by the one action that ends a run.
StopsCounted ==
  /\ stops["AGENT"] = stops["USER"]
  /\ pc \in {"init", "aborted"} \/ Going => stops["AGENT"] = 0
  /\ pc = "cleanup" => stops["AGENT"] \in 0..1
  /\ pc = "returned" => stops["AGENT"] = 1
  /\ pc = "raised" => stops["AGENT"] \in 1..2

DuplexInv == /\ DuplexTypeOK /\ Clock /\ NothingYet /\ HeardInTurn /\ OwedInTurn
             /\ SignalsKept /\ ReasonBorneOut /\ StopsCounted
-----------------------------------------------------------------------------
(* The user: the inductive invariant.                                      *)

\* The counters never leave their ranges, and speech overheard is part of the
\* agent's speech.
EarsOK ==
  /\ UserTypeOK
  /\ overheard <= runOther

\* A backchannel in the queue is known for one.
BackchannelKnown == Talking /\ Head(queue) = "backchannel" => backchanneling
\* And nothing else is taken for one, but after one of a single chunk.
BackchannelOnly == backchanneling => lingering \/ (Talking /\ Head(queue) = "backchannel")

UserInv == EarsOK /\ OneUtteranceAtATime /\ BackchannelKnown
-----------------------------------------------------------------------------
(* The session: the inductive invariant.                                   *)

SessionTypes ==
  /\ at \in {"between", "flush", "execute", "reconnecting", "send", "gather", "failed", "ended"}
  /\ session \in {"none", "live", "closed"}
  /\ receiveTask \in {"none", "running", "done", "failed"}
  /\ eventsRead \in Nat
  /\ eventQueue \in Seq(Nat) /\ preserved \in Seq(Nat) /\ gathered \in Seq(Nat)
  /\ processed \in Seq(Nat) /\ toolResults \in Seq(Nat) /\ answered \in Seq(Nat)

Failed == at \in {"failed", "ended"}

\* Where events can be: gathered in the tick alone, preserved outside it, in the
\* queue while there is a loop.
SegmentPlaces ==
  /\ gathered # <<>> => at = "gather" \/ Failed
  /\ at = "gather" => preserved = <<>>
  /\ receiveTask = "none" => eventQueue = <<>>

\* Every event read is in one place, all in the order they were read.
AllEvents == processed \o gathered \o preserved \o eventQueue
InOrder == ~Failed => AllEvents = Numbers(eventsRead)

\* What was answered and what is to be answered are calls processed, in order.
Increasing(s) == \A j, k \in 1..Len(s) : j < k => s[j] < s[k]
Bounded(s, n) == \A k \in 1..Len(s) : s[k] <= n
AnsweredInOrder ==
  ~Failed => /\ Increasing(answered \o toolResults)
             /\ Bounded(answered \o toolResults, Len(processed))

SessionInv == SessionTypes /\ SegmentPlaces /\ InOrder /\ AnsweredInOrder /\ TornDownAlone
-----------------------------------------------------------------------------
(* The orchestrator.                                                       *)

\* The tick as a sequence of the calls made in it.
LEMMA CallsOfTick ==
  ASSUME NEW n \in Nat, NEW t \in Nat
  PROVE  /\ [k \in 1..n |-> t] \in Seq(Nat) /\ Len([k \in 1..n |-> t]) = n
         /\ \A k \in 1..Len([k \in 1..n |-> t]) : [j \in 1..n |-> t][k] = t
<1>1. [k \in 1..n |-> t] \in [1..n -> Nat]
  OBVIOUS
<1>2. [k \in 1..n |-> t] \in Seq(Nat) /\ Len([k \in 1..n |-> t]) = n
  BY <1>1, FunctionIsSeq
<1> QED
  BY <1>2

\* What a turn does to the channels of the one who takes it; the other's are
\* left alone.
TurnTaken(p) ==
  /\ heard' \in [Participants -> Seq(Nat)] /\ results' \in [Participants -> Seq(Nat)]
  /\ calls' \in [Participants -> Seq(Nat)] /\ pending' \in [Participants -> Seq(Nat)]
  /\ emitted' \in [Participants -> Nat]
  /\ \A q \in Participants \ {p} :
       /\ heard'[q] = heard[q] /\ results'[q] = results[q] /\ calls'[q] = calls[q]
       /\ pending'[q] = pending[q] /\ emitted'[q] = emitted[q]
  /\ Len(heard'[p]) = ticks /\ \A k \in 1..ticks : heard'[p][k] = k - 1
  /\ emitted'[p] = ticks
  /\ calls'[p] = results'[p] \o pending'[p]
  /\ \A k \in 1..Len(pending'[p]) : pending'[p][k] = ticks

LEMMA TurnEffect ==
  ASSUME NEW p \in Participants, TakeTurn(p), DuplexTypeOK, ticks \in Nat \ {0},
         Len(heard[p]) = ticks - 1, \A k \in 1..Len(heard[p]) : heard[p][k] = k - 1,
         Incoming(p) = ticks - 1, calls[p] = results[p] \o pending[p]
  PROVE  TurnTaken(p)
<1>1. /\ heard[p] \in Seq(Nat) /\ results[p] \in Seq(Nat) /\ pending[p] \in Seq(Nat)
      /\ calls[p] \in Seq(Nat) /\ Incoming(p) \in Nat
  BY DEF DuplexTypeOK
<1>2. /\ Append(heard[p], Incoming(p)) \in Seq(Nat)
      /\ Len(Append(heard[p], Incoming(p))) = ticks
      /\ \A k \in 1..ticks : Append(heard[p], Incoming(p))[k] = k - 1
  <2>1. /\ Append(heard[p], Incoming(p)) \in Seq(Nat)
        /\ Len(Append(heard[p], Incoming(p))) = Len(heard[p]) + 1
        /\ \A k \in 1..Len(heard[p]) : Append(heard[p], Incoming(p))[k] = heard[p][k]
        /\ Append(heard[p], Incoming(p))[Len(heard[p]) + 1] = Incoming(p)
    BY <1>1, AppendProperties
  <2>2. Len(heard[p]) + 1 = ticks /\ \A k \in 1..ticks : k \in 1..Len(heard[p]) \/ k = ticks
    OBVIOUS
  <2> QED
    BY <2>1, <2>2
<1>3. /\ results[p] \o pending[p] \in Seq(Nat)
  BY <1>1, ConcatProperties
<1>4. PICK n \in 0..MaxCalls :
        /\ calls' = [calls EXCEPT ![p] = @ \o [k \in 1..n |-> ticks]]
        /\ pending' = [pending EXCEPT ![p] = [k \in 1..n |-> ticks]]
  BY DEF TakeTurn
<1> DEFINE new == [k \in 1..n |-> ticks]
<1>5. new \in Seq(Nat) /\ \A k \in 1..Len(new) : new[k] = ticks
  <2>1. n \in Nat /\ ticks \in Nat
    BY LimitsAssumption
  <2> QED
    BY <2>1, CallsOfTick
<1> HIDE DEF new
<1>6. calls[p] \o new \in Seq(Nat)
  BY <1>1, <1>5, ConcatProperties
<1>7. /\ heard' = [heard EXCEPT ![p] = Append(@, Incoming(p))]
      /\ results' = [results EXCEPT ![p] = @ \o pending[p]]
      /\ emitted' = [emitted EXCEPT ![p] = ticks]
  BY DEF TakeTurn
<1>8. /\ calls' = [calls EXCEPT ![p] = @ \o new]
      /\ pending' = [pending EXCEPT ![p] = new]
  BY <1>4 DEF new
<1>9. /\ heard'[p] = Append(heard[p], Incoming(p)) /\ results'[p] = results[p] \o pending[p]
      /\ emitted'[p] = ticks /\ calls'[p] = calls[p] \o new /\ pending'[p] = new
  BY <1>7, <1>8 DEF DuplexTypeOK
<1>10. \A q \in Participants \ {p} :
         /\ heard'[q] = heard[q] /\ results'[q] = results[q] /\ calls'[q] = calls[q]
         /\ pending'[q] = pending[q] /\ emitted'[q] = emitted[q]
  BY <1>7, <1>8 DEF DuplexTypeOK
<1>11. heard' \in [Participants -> Seq(Nat)] /\ results' \in [Participants -> Seq(Nat)]
  BY <1>2, <1>3, <1>7 DEF DuplexTypeOK
<1>12. /\ calls' \in [Participants -> Seq(Nat)] /\ pending' \in [Participants -> Seq(Nat)]
       /\ emitted' \in [Participants -> Nat]
  BY <1>5, <1>6, <1>7, <1>8 DEF DuplexTypeOK
<1>13. calls'[p] = results'[p] \o pending'[p]
  BY <1>9
<1> QED
  BY <1>2, <1>5, <1>9, <1>10, <1>11, <1>12, <1>13 DEF TurnTaken

\* A turn keeps the invariant: the channels of the other are as they were.
LEMMA TurnKeepsChannels ==
  ASSUME DuplexInv, NEW p \in Participants, TakeTurn(p),
         \/ p = "USER" /\ pc = "user" /\ pc' = "agent"
         \/ p = "AGENT" /\ pc = "agent" /\ pc' = "tick"
  PROVE  /\ HeardInTurn' /\ OwedInTurn'
         /\ heard' \in [Participants -> Seq(Nat)] /\ results' \in [Participants -> Seq(Nat)]
         /\ calls' \in [Participants -> Seq(Nat)] /\ pending' \in [Participants -> Seq(Nat)]
         /\ emitted' \in [Participants -> Nat]
<1>0. /\ InStep /\ InStep' /\ ~HasMoved(p) /\ HasMoved(p)'
      /\ \A q \in Participants \ {p} : HasMoved(q)' <=> HasMoved(q)
  BY DEF InStep, HasMoved, Participants
<1>1. ticks \in Nat \ {0} /\ ticks' = ticks /\ current' = current
  BY <1>0 DEF DuplexInv, DuplexTypeOK, Clock, InStep, TakeTurn
<1>2. /\ Going /\ Going' /\ pc \notin {"init", "aborted", "returned", "cleanup", "raised"}
      /\ pc' \notin {"init", "aborted", "returned", "cleanup", "raised"}
  BY <1>0 DEF InStep, Going
<1>3. Other(p) \in Participants /\ \A q \in Participants : q = p \/ q = Other(p)
  BY DEF Participants, Other
<1>4. Incoming(p) = ticks - 1 /\ Len(heard[p]) = ticks - 1 /\ calls[p] = results[p] \o pending[p]
      /\ \A k \in 1..Len(heard[p]) : heard[p][k] = k - 1
  BY <1>0, <1>2, <1>3 DEF DuplexInv, HeardInTurn, OwedInTurn, Incoming, LastTurn
<1>5. TurnTaken(p)
  BY <1>1, <1>4, TurnEffect DEF DuplexInv
<1>6. HeardInTurn'
  <2>1. ASSUME NEW q \in Participants
        PROVE  /\ \A k \in 1..Len(heard'[q]) : heard'[q][k] = k - 1
               /\ Len(heard'[q]) <= ticks
               /\ Len(heard'[q]) = LastTurn(q)'
               /\ current'[q] = ticks - 1
               /\ HasMoved(q)' => emitted'[q] = ticks
    <3>1. CASE q = p
      <4>1. LastTurn(p)' = ticks
        BY <1>0, <1>1 DEF LastTurn
      <4>2. current[p] = ticks - 1
        BY <1>2 DEF DuplexInv, HeardInTurn
      <4> QED
        BY <1>1, <1>5, <3>1, <4>1, <4>2 DEF TurnTaken
    <3>2. CASE q # p
      <4>1. (HasMoved(q)' <=> HasMoved(q)) /\ LastTurn(q)' = LastTurn(q)
        BY <1>0, <1>1, <3>2 DEF LastTurn
      <4>2. heard'[q] = heard[q] /\ emitted'[q] = emitted[q]
        BY <1>5, <3>2 DEF TurnTaken
      <4> QED
        BY <1>1, <1>2, <4>1, <4>2 DEF DuplexInv, HeardInTurn
    <3> QED
      BY <3>1, <3>2
  <2> QED
    BY <1>1, <2>1 DEF HeardInTurn
<1>7. OwedInTurn'
  <2>1. ASSUME NEW q \in Participants
        PROVE  /\ calls'[q] = results'[q] \o pending'[q]
               /\ \A k \in 1..Len(pending'[q]) : pending'[q][k] = LastTurn(q)'
    <3>1. CASE q = p
      <4>1. LastTurn(p)' = ticks
        BY <1>0, <1>1 DEF LastTurn
      <4> QED
        BY <1>5, <3>1, <4>1 DEF TurnTaken
    <3>2. CASE q # p
      <4>1. LastTurn(q)' = LastTurn(q)
        BY <1>0, <1>1, <3>2 DEF LastTurn
      <4>2. /\ results'[q] = results[q] /\ calls'[q] = calls[q] /\ pending'[q] = pending[q]
        BY <1>5, <3>2 DEF TurnTaken
      <4> QED
        BY <1>2, <4>1, <4>2 DEF DuplexInv, OwedInTurn
    <3> QED
      BY <3>1, <3>2
  <2> QED
    BY <1>2, <2>1 DEF OwedInTurn
<1> QED
  BY <1>5, <1>6, <1>7 DEF TurnTaken

\* A turn ends the run only with a stop signal of its own.
LEMMA TurnKeepsSignals ==
  ASSUME DuplexInv, NEW p \in Participants, TakeTurn(p),
         \/ p = "USER" /\ pc = "user" /\ pc' = "agent"
         \/ p = "AGENT" /\ pc = "agent" /\ pc' = "tick"
  PROVE  /\ SignalsKept'
         /\ done' \in BOOLEAN /\ termination_reason' \in Reasons \cup {"NONE"}
         /\ stopSignals' \subseteq Participants
<1>1. PICK stop \in BOOLEAN :
        /\ done' = (done \/ stop)
        /\ termination_reason' = IF stop THEN StopReason(p) ELSE termination_reason
        /\ stopSignals' = IF stop THEN stopSignals \cup {p} ELSE stopSignals
  BY DEF TakeTurn
<1>2. /\ done' \in BOOLEAN /\ termination_reason' \in Reasons \cup {"NONE"}
      /\ stopSignals' \subseteq Participants
  BY <1>1 DEF DuplexInv, DuplexTypeOK, Reasons, StopReason, Participants
<1>3. IF stopSignals = {} THEN ~done
      ELSE /\ done
           /\ termination_reason = StopReason(IF "AGENT" \in stopSignals THEN "AGENT" ELSE "USER")
  BY DEF DuplexInv, SignalsKept, InStep
<1>4. IF stopSignals' = {} THEN ~done'
      ELSE /\ done'
           /\ termination_reason' = StopReason(IF "AGENT" \in stopSignals' THEN "AGENT" ELSE "USER")
  <2>1. CASE stop
    <3>1. done' /\ stopSignals' = stopSignals \cup {p} /\ termination_reason' = StopReason(p)
      BY <1>1, <2>1
    <3>2. p = "USER" => stopSignals' = {"USER"}
      BY <3>1 DEF DuplexInv, SignalsKept
    <3> QED
      BY <3>1, <3>2
  <2>2. CASE ~stop
    BY <1>1, <1>3, <2>2
  <2> QED
    BY <2>1, <2>2
<1>5. pc' = "agent" => stopSignals' \subseteq {"USER"}
  BY <1>1 DEF DuplexInv, SignalsKept
<1> QED
  BY <1>2, <1>4, <1>5 DEF SignalsKept

\* What a turn keeps, whoever takes it.
LEMMA TurnKeeps ==
  ASSUME DuplexInv, NEW p \in Participants, TakeTurn(p),
         \/ p = "USER" /\ pc = "user" /\ pc' = "agent"
         \/ p = "AGENT" /\ pc = "agent" /\ pc' = "tick"
  PROVE  DuplexInv'
<1>1. InStep /\ InStep'
  BY DEF InStep
<1>2. /\ HeardInTurn' /\ OwedInTurn'
      /\ heard' \in [Participants -> Seq(Nat)] /\ results' \in [Participants -> Seq(Nat)]
      /\ calls' \in [Participants -> Seq(Nat)] /\ pending' \in [Participants -> Seq(Nat)]
      /\ emitted' \in [Participants -> Nat]
  BY TurnKeepsChannels
<1>3. /\ SignalsKept'
      /\ done' \in BOOLEAN /\ termination_reason' \in Reasons \cup {"NONE"}
      /\ stopSignals' \subseteq Participants
  BY TurnKeepsSignals
<1>4. UNCHANGED <<step_count, ticks, current, stops>>
  BY DEF TakeTurn
<1>5. num_errors' \in Nat
  <2>1. PICK n \in 0..MaxCalls : \E failed \in 0..n : num_errors' = num_errors + failed
    BY DEF TakeTurn
  <2> QED
    BY <2>1, LimitsAssumption DEF DuplexInv, DuplexTypeOK
<1>6. DuplexTypeOK'
  BY <1>1, <1>2, <1>3, <1>4, <1>5 DEF DuplexInv, DuplexTypeOK, InStep
<1>7. Clock' /\ StopsCounted' /\ ReasonBorneOut' /\ NothingYet'
  BY <1>1, <1>4 DEF DuplexInv, Clock, NothingYet, StopsCounted, ReasonBorneOut, InStep, Going
<1> QED
  BY <1>2, <1>3, <1>6, <1>7 DEF DuplexInv

\* The limits, when they are checked, have the last word, and a run that goes on
\* has heard no stop signal.
LEMMA CheckKeeps == DuplexInv /\ CheckTermination => DuplexInv'
<1> SUFFICES ASSUME DuplexInv, CheckTermination PROVE DuplexInv'
  OBVIOUS
<1> DEFINE limit == OutOfSteps \/ OutOfErrors
<1>1. PICK late \in BOOLEAN :
        /\ late => HasTimeout /\ ~done /\ ~limit
        /\ done' = (done \/ limit \/ late)
        /\ termination_reason' = Reason(late)
  BY DEF CheckTermination
<1>2. /\ pc = "check" /\ pc' = IF done' THEN "finalize" ELSE "user"
      /\ UNCHANGED <<step_count, num_errors, ticks, current, emitted, pending, heard, calls,
                     results, stopSignals, stops>>
  BY DEF CheckTermination, counters, channels
<1>3. done' \in BOOLEAN /\ termination_reason' \in Reasons \cup {"NONE"}
  BY <1>1 DEF DuplexInv, DuplexTypeOK, Reasons, Reason
<1>4. DuplexTypeOK'
  BY <1>2, <1>3 DEF DuplexInv, DuplexTypeOK
<1>5. Clock'
  <2>1. ~done' => ~OutOfSteps
    BY <1>1
  <2>2. step_count \in Nat /\ MaxSteps \in Nat
    BY LimitsAssumption DEF DuplexInv, DuplexTypeOK
  <2>3. ~OutOfSteps => step_count < MaxSteps
    BY <2>2 DEF OutOfSteps
  <2> QED
    BY <1>2, <2>1, <2>3 DEF DuplexInv, Clock, InStep
<1>6. HeardInTurn' /\ OwedInTurn' /\ StopsCounted' /\ NothingYet'
  BY <1>2 DEF DuplexInv, NothingYet, HeardInTurn, OwedInTurn, StopsCounted, LastTurn, HasMoved, Going, InStep
<1>7. SignalsKept'
  BY <1>1, <1>2 DEF DuplexInv, SignalsKept, InStep, Reason
<1>8. ReasonBorneOut'
  <2>1. /\ OutOfErrors' <=> OutOfErrors
        /\ OutOfSteps' <=> OutOfSteps
    BY <1>2 DEF OutOfErrors, OutOfSteps
  <2>2. CASE limit
    BY <1>1, <2>1, <2>2 DEF ReasonBorneOut, Reason
  <2>3. CASE ~limit /\ stopSignals # {}
    <3>1. done /\ termination_reason = StopReason(IF "AGENT" \in stopSignals THEN "AGENT" ELSE "USER")
      BY <1>2, <2>3 DEF DuplexInv, SignalsKept
    <3>2. ~late /\ termination_reason' = termination_reason
      BY <1>1, <2>3, <3>1 DEF Reason
    <3> QED
      BY <1>2, <2>1, <2>3, <3>1, <3>2 DEF ReasonBorneOut
  <2>4. CASE ~limit /\ stopSignals = {}
    <3>1. ~done
      BY <1>2, <2>4 DEF DuplexInv, SignalsKept
    <3>2. pc' = "finalize" => late /\ termination_reason' = "TIMEOUT" /\ HasTimeout
      BY <1>1, <1>2, <2>4, <3>1 DEF Reason
    <3> QED
      BY <1>2, <2>1, <2>4, <3>2 DEF ReasonBorneOut
  <2> QED
    BY <2>2, <2>3, <2>4
<1> QED
  BY <1>4, <1>5, <1>6, <1>7, <1>8 DEF DuplexInv

\* Both participants are stopped once more.
LEMMA StoppedOnce ==
  ASSUME DuplexTypeOK, StopBoth
  PROVE  /\ stops' \in [Participants -> Nat]
         /\ stops'["AGENT"] = stops["AGENT"] + 1 /\ stops'["USER"] = stops["USER"] + 1
<1>1. \A p \in Participants : stops[p] + 1 \in Nat
  BY DEF DuplexTypeOK
<1>2. stops' = [p \in Participants |-> stops[p] + 1]
  BY DEF StopBoth
<1>3. "AGENT" \in Participants /\ "USER" \in Participants
  BY DEF Participants
<1> QED
  BY <1>1, <1>2, <1>3

\* What is pending at the end is handed over by stop().
LEMMA FinalizeKeeps == DuplexInv /\ Finalize => DuplexInv'
<1> SUFFICES ASSUME DuplexInv, Finalize PROVE DuplexInv'
  OBVIOUS
<1>1. /\ pc = "finalize" /\ pc' \in {"returned", "cleanup"}
      /\ results' = [p \in Participants |-> results[p] \o pending[p]]
      /\ UNCHANGED <<done, termination_reason, step_count, num_errors, ticks, current, emitted,
                     pending, heard, calls, stopSignals>>
  BY DEF Finalize, verdict, counters
<1>2. /\ stops' \in [Participants -> Nat]
      /\ stops'["AGENT"] = stops["AGENT"] + 1 /\ stops'["USER"] = stops["USER"] + 1
  BY StoppedOnce DEF DuplexInv, Finalize
<1>3. results' \in [Participants -> Seq(Nat)]
  <2>1. ASSUME NEW p \in Participants PROVE results[p] \o pending[p] \in Seq(Nat)
    BY ConcatProperties DEF DuplexInv, DuplexTypeOK
  <2> QED
    BY <1>1, <2>1
<1>4. DuplexTypeOK'
  BY <1>1, <1>2, <1>3 DEF DuplexInv, DuplexTypeOK
<1>5. OwedInTurn'
  <2>1. \A p \in Participants : calls'[p] = results'[p]
    BY <1>1 DEF DuplexInv, OwedInTurn, Going
  <2> QED
    BY <1>1, <2>1 DEF OwedInTurn, Going, InStep
<1>6. HeardInTurn' /\ Clock' /\ NothingYet'
  BY <1>1 DEF DuplexInv, NothingYet, HeardInTurn, Clock, LastTurn, HasMoved, Going, InStep
<1>7. SignalsKept' /\ ReasonBorneOut'
  BY <1>1 DEF DuplexInv, SignalsKept, ReasonBorneOut, InStep, OutOfErrors, OutOfSteps
<1>8. StopsCounted'
  BY <1>1, <1>2 DEF DuplexInv, StopsCounted, Going, InStep
<1> QED
  BY <1>4, <1>5, <1>6, <1>7, <1>8 DEF DuplexInv

\* Every step of the orchestrator keeps the invariant.
LEMMA DuplexStep == DuplexInv /\ [DuplexNext]_duplexVars => DuplexInv'
<1> SUFFICES ASSUME DuplexInv, [DuplexNext]_duplexVars PROVE DuplexInv'
  OBVIOUS
<1> USE DEF verdict, counters, channels
<1>1. CASE Initialize
  <2>1. /\ pc = "init" /\ \/ ticks' = 1 /\ pc' = "user"
                          \/ ticks' \in {0, 1} /\ pc' = "aborted"
        /\ UNCHANGED <<verdict, counters, channels, stopSignals, stops>>
    BY <1>1 DEF Initialize
  <2>2. ticks = 0 /\ step_count = 0
    BY <2>1 DEF DuplexInv, Clock
  <2>3. DuplexTypeOK' /\ Clock'
    BY <2>1, <2>2 DEF DuplexInv, DuplexTypeOK, Clock, InStep
  <2>4. \A p \in Participants :
          /\ heard[p] = <<>> /\ pending[p] = <<>> /\ calls[p] = <<>> /\ results[p] = <<>>
          /\ current[p] = 0
    BY <2>1 DEF DuplexInv, NothingYet
  <2>5. HeardInTurn'
    BY <2>1, <2>4 DEF HeardInTurn, LastTurn, HasMoved, Going, InStep
  <2>6. OwedInTurn'
    <3>1. <<>> \o <<>> = <<>> /\ 1..Len(<<>>) = {}
      BY ConcatEmptySeq, EmptySeq
    <3> QED
      BY <2>1, <2>4, <3>1 DEF OwedInTurn, Going, InStep
  <2>7. SignalsKept' /\ ReasonBorneOut' /\ StopsCounted' /\ NothingYet'
    BY <2>1 DEF DuplexInv, SignalsKept, ReasonBorneOut, StopsCounted, NothingYet, InStep, Going
  <2> QED
    BY <2>3, <2>5, <2>6, <2>7 DEF DuplexInv
<1>2. CASE UserTurn
  BY <1>2, TurnKeeps DEF UserTurn, Participants
<1>3. CASE AgentTurn
  BY <1>3, TurnKeeps DEF AgentTurn, Participants
<1>4. CASE EndTick
  <2>1. /\ pc = "tick" /\ pc' \in {"check", "cleanup"}
        /\ current' = emitted /\ ticks' = ticks + 1 /\ step_count' = step_count + 1
        /\ UNCHANGED <<verdict, num_errors, emitted, pending, heard, calls, results,
                       stopSignals, stops>>
    BY <1>4 DEF EndTick
  <2>2. /\ ticks = step_count + 1 /\ step_count \in Nat /\ MaxSteps \in Nat
        /\ step_count = 0 \/ step_count < MaxSteps
    BY <2>1, LimitsAssumption DEF DuplexInv, DuplexTypeOK, Clock, InStep
  <2>3. DuplexTypeOK' /\ Clock' /\ NothingYet'
    <3>1. step_count' \in 0..MaxSteps \/ step_count' = 1
      BY <2>1, <2>2
    <3>2. ticks' = step_count' + 1 /\ ticks' \in {0, step_count' + 1}
      BY <2>1, <2>2
    <3> QED
      BY <2>1, <3>1, <3>2 DEF DuplexInv, DuplexTypeOK, Clock, NothingYet, InStep
  <2>4. ASSUME NEW p \in Participants
        PROVE  /\ LastTurn(p)' = LastTurn(p) /\ LastTurn(p) = ticks /\ emitted[p] = ticks
               /\ Len(heard[p]) = ticks /\ \A k \in 1..Len(heard[p]) : heard[p][k] = k - 1
               /\ \A k \in 1..Len(pending[p]) : pending[p][k] = ticks
               /\ calls[p] = results[p] \o pending[p]
    <3>1. LastTurn(p) = ticks /\ emitted[p] = ticks
      BY <2>1 DEF DuplexInv, HeardInTurn, LastTurn, HasMoved
    <3>2. LastTurn(p)' = ticks
      BY <2>1, <2>2 DEF LastTurn, HasMoved
    <3> QED
      BY <2>1, <3>1, <3>2 DEF DuplexInv, HeardInTurn, OwedInTurn, Going, InStep
  <2>5. HeardInTurn' /\ OwedInTurn'
    <3>1. ticks <= ticks + 1 /\ (ticks + 1) - 1 = ticks
      BY <2>2
    <3>2. HeardInTurn'
      BY <2>1, <2>4, <3>1 DEF HeardInTurn, HasMoved, Going, InStep
    <3> QED
      BY <2>1, <2>4, <3>2 DEF OwedInTurn, Going, InStep
  <2>6. SignalsKept' /\ ReasonBorneOut' /\ StopsCounted'
    BY <2>1 DEF DuplexInv, SignalsKept, ReasonBorneOut, StopsCounted, InStep, Going
  <2> QED
    BY <2>3, <2>5, <2>6 DEF DuplexInv
<1>5. CASE TurnRaises
  <2>1. /\ InStep /\ pc' = "cleanup"
        /\ UNCHANGED <<verdict, counters, ticks, channels, stopSignals, stops>>
    BY <1>5 DEF TurnRaises, InStep
  <2>2. DuplexTypeOK' /\ Clock' /\ NothingYet'
    BY <2>1 DEF DuplexInv, DuplexTypeOK, Clock, NothingYet, InStep
  <2>3. HeardInTurn' /\ OwedInTurn'
    BY <2>1 DEF DuplexInv, HeardInTurn, OwedInTurn, InStep, Going, HasMoved
  <2>4. SignalsKept' /\ ReasonBorneOut' /\ StopsCounted'
    BY <2>1 DEF DuplexInv, SignalsKept, ReasonBorneOut, StopsCounted, InStep, Going
  <2> QED
    BY <2>2, <2>3, <2>4 DEF DuplexInv
<1>6. CASE CheckTermination
  BY <1>6, CheckKeeps
<1>7. CASE Finalize
  BY <1>7, FinalizeKeeps
<1>8. CASE Cleanup
  <2>1. /\ pc = "cleanup" /\ pc' = "raised"
        /\ UNCHANGED <<verdict, counters, ticks, channels, stopSignals>>
    BY <1>8 DEF Cleanup
  <2>2. /\ stops' \in [Participants -> Nat]
        /\ stops'["AGENT"] = stops["AGENT"] + 1 /\ stops'["USER"] = stops["USER"] + 1
    BY <1>8, StoppedOnce DEF DuplexInv, Cleanup
  <2>3. DuplexTypeOK' /\ Clock' /\ NothingYet'
    BY <2>1, <2>2 DEF DuplexInv, DuplexTypeOK, Clock, NothingYet, InStep
  <2>4. HeardInTurn' /\ OwedInTurn'
    BY <2>1 DEF DuplexInv, HeardInTurn, OwedInTurn, InStep, Going, HasMoved
  <2>5. SignalsKept' /\ ReasonBorneOut' /\ StopsCounted'
    BY <2>1, <2>2 DEF DuplexInv, SignalsKept, ReasonBorneOut, StopsCounted, InStep, Going
  <2> QED
    BY <2>3, <2>4, <2>5 DEF DuplexInv
<1>9. CASE UNCHANGED duplexVars
  <2>1. DuplexTypeOK' /\ Clock' /\ NothingYet'
    BY <1>9 DEF duplexVars, DuplexInv, DuplexTypeOK, Clock, NothingYet, InStep
  <2>2. HeardInTurn' /\ OwedInTurn'
    BY <1>9 DEF duplexVars, DuplexInv, HeardInTurn, OwedInTurn, LastTurn, InStep, Going, HasMoved
  <2>3. SignalsKept' /\ ReasonBorneOut' /\ StopsCounted'
    BY <1>9 DEF duplexVars, DuplexInv, SignalsKept, ReasonBorneOut, StopsCounted, InStep, Going,
                OutOfErrors, OutOfSteps
  <2> QED
    BY <2>1, <2>2, <2>3 DEF DuplexInv
<1> QED
  BY <1>1, <1>2, <1>3, <1>4, <1>5, <1>6, <1>7, <1>8, <1>9 DEF DuplexNext, DuplexEnded

\* Nothing has happened yet.
LEMMA DuplexStart == DuplexInit => DuplexInv
<1> SUFFICES ASSUME DuplexInit PROVE DuplexInv
  OBVIOUS
<1>1. /\ Both(0) \in [Participants -> Nat] /\ \A p \in Participants : Both(0)[p] = 0
      /\ Both(<<>>) \in [Participants -> Seq(Nat)] /\ \A p \in Participants : Both(<<>>)[p] = <<>>
  BY EmptySeq DEF Both
<1>2. <<>> \o <<>> = <<>> /\ 1..Len(<<>>) = {} /\ Len(<<>>) = 0
  BY ConcatEmptySeq, EmptySeq
<1>3. DuplexTypeOK /\ Clock
  <2>1. /\ current \in [Participants -> Nat] /\ emitted \in [Participants -> Nat]
        /\ pending \in [Participants -> Seq(Nat)] /\ heard \in [Participants -> Seq(Nat)]
        /\ calls \in [Participants -> Seq(Nat)] /\ results \in [Participants -> Seq(Nat)]
        /\ stops \in [Participants -> Nat]
    BY <1>1 DEF DuplexInit
  <2>2. 0 \in 0..MaxSteps
    BY LimitsAssumption
  <2> QED
    BY <2>1, <2>2 DEF DuplexInit, DuplexTypeOK, Clock, InStep
<1>4. NothingYet /\ HeardInTurn /\ OwedInTurn
  <2>1. \A p \in Participants :
          /\ heard[p] = <<>> /\ pending[p] = <<>> /\ calls[p] = <<>> /\ results[p] = <<>>
          /\ current[p] = 0
    BY <1>1 DEF DuplexInit
  <2>2. NothingYet
    BY <2>1 DEF NothingYet
  <2>3. HeardInTurn
    BY <1>2, <2>1 DEF DuplexInit, HeardInTurn, HasMoved, InStep, Going
  <2>4. OwedInTurn
    BY <1>2, <2>1 DEF DuplexInit, OwedInTurn, InStep, Going
  <2> QED
    BY <2>2, <2>3, <2>4
<1>5. SignalsKept /\ ReasonBorneOut /\ StopsCounted
  BY <1>1 DEF DuplexInit, SignalsKept, ReasonBorneOut, StopsCounted, InStep, Going, Participants
<1> QED
  BY <1>3, <1>4, <1>5 DEF DuplexInv

\* The orchestrator of a voice run keeps its invariant.
LEMMA DuplexCorrect == Spec => []DuplexInv
<1>1. Init => DuplexInv
  BY DuplexStart DEF Init
<1>2. [Next]_voiceVars => [DuplexNext]_duplexVars
  BY DEF Next, voiceVars, OrchestratorMoves, UserMoves, ContextMoves, AgentMoves, SessionMoves
<1> QED
  BY <1>1, <1>2, DuplexStep, PTL DEF Spec

\* The variables of the orchestrator keep to their types, for all limits.
THEOREM DuplexTypes == Spec => []DuplexTypeOK
<1>1. DuplexInv => DuplexTypeOK
  BY DEF DuplexInv
<1> QED
  BY <1>1, DuplexCorrect, PTL

\* Both participants hear every chunk of the other, one tick late, and get the
\* result of every tool call, in order and on their next turn: nothing is lost,
\* repeated or early, however many ticks there are and calls in each.
THEOREM Lockstep == Spec => []ChannelsInLockstep
<1>1. DuplexInv => ChannelsInLockstep
  <2> SUFFICES ASSUME DuplexInv PROVE ChannelsInLockstep
    OBVIOUS
  <2>1. HeardInLockstep
    BY DEF DuplexInv, HeardInTurn, HeardInLockstep, LastTurn, HasMoved, Going, InStep
  <2>2. ResultsOnNextTick
    <3>1. ASSUME NEW p \in Participants PROVE IsPrefix(results[p], calls[p])
      <4>1. results[p] \in Seq(Nat) /\ pending[p] \in Seq(Nat) /\ calls[p] \in Seq(Nat)
        BY DEF DuplexInv, DuplexTypeOK
      <4>2. \/ calls[p] = results[p] \o pending[p]
            \/ calls[p] = results[p] \o <<>>
        <5>1. results[p] \o <<>> = results[p]
          BY <4>1, ConcatEmptySeq
        <5>2. calls[p] = results[p] \o pending[p] \/ calls[p] = results[p]
          BY DEF DuplexInv, DuplexTypeOK, OwedInTurn, Going, InStep
        <5> QED
          BY <5>1, <5>2
      <4>3. <<>> \in Seq(Nat)
        BY EmptySeq
      <4> QED
        BY <4>1, <4>2, <4>3, PrefixOfConcat
    <3>2. ASSUME NEW p \in Participants
          PROVE  /\ Going => calls[p] = results[p] \o pending[p]
                 /\ pc = "user" => \A k \in 1..Len(pending[p]) : pending[p][k] = ticks - 1
                 /\ pc = "returned" => results[p] = calls[p]
      BY DEF DuplexInv, OwedInTurn, LastTurn, HasMoved, Going, InStep
    <3> QED
      BY <3>1, <3>2 DEF ResultsOnNextTick, Going, InStep
  <2> QED
    BY <2>1, <2>2 DEF ChannelsInLockstep
<1> QED
  BY <1>1, DuplexCorrect, PTL

\* The reported reason of a voice run is borne out by its last tick, and both
\* participants are stopped, once by a run that returns.
THEOREM TickRunEnds == Spec => []TickRunEndsSoundly
<1>1. DuplexInv => TickRunEndsSoundly
  BY DEF DuplexInv, StopsCounted, TickRunEndsSoundly, StoppedAtEnd, Going, InStep
<1> QED
  BY <1>1, DuplexCorrect, PTL
-----------------------------------------------------------------------------
(* The user.                                                               *)

\* The thresholds one by one.
LEMMA Thresholds ==
  /\ WaitOther \in Nat /\ WaitSelf \in Nat /\ BackchannelMax \in Nat /\ MaxRun \in Nat
  /\ Yield \in Nat \ {0, 1} /\ YieldInterrupting \in Nat \ {0, 1}
  /\ CheckInterval \in Nat \ {0} /\ Lengths \subseteq Nat \ {0}
BY ThresholdAssumption

\* A counter goes no further than one above its threshold.
LEMMA UpBounded ==
  ASSUME NEW threshold \in Nat, NEW n \in 0..(threshold + 1)
  PROVE  Up(n, threshold) \in 0..(threshold + 1)
BY DEF Up

\* Remainders.
LEMMA Remainder ==
  ASSUME NEW n \in Nat, NEW m \in Nat \ {0}
  PROVE  n % m \in 0..(m - 1)
OBVIOUS

\* What every tick does to the ears.
LEMMA ListenEffect ==
  ASSUME UserInv, NEW speech \in BOOLEAN, Listen(speech)
  PROVE  /\ policy' \in Policies
         /\ tick' \in 0..(CheckInterval - 1) /\ sinceOther' \in 0..(WaitOther + 1)
         /\ runOther' \in 0..MaxRun
         /\ Ongoing(speech) \in 0..MaxRun /\ Ongoing(speech) <= runOther'
         /\ SinceBackchannel(speech) \in 0..(BackchannelMax + 1)
<1>1. /\ overheard \in 0..MaxRun /\ runOther \in 0..MaxRun /\ overheard <= runOther
      /\ sinceOther \in 0..(WaitOther + 1) /\ sinceBackchannel \in 0..(BackchannelMax + 1)
      /\ tick \in 0..(CheckInterval - 1) /\ policy \in Policies
  BY DEF UserInv, EarsOK, UserTypeOK
<1>2. policy' \in Policies
  BY <1>1 DEF Listen
<1>3. tick' \in 0..(CheckInterval - 1)
  <2>1. tick + 1 \in Nat
    BY <1>1
  <2> QED
    BY <2>1, Thresholds, Remainder DEF Listen
<1>4. sinceOther' \in 0..(WaitOther + 1)
  <2>1. 0 \in 0..(WaitOther + 1) /\ Up(sinceOther, WaitOther) \in 0..(WaitOther + 1)
    BY <1>1, Thresholds, UpBounded
  <2> QED
    BY <2>1 DEF Listen
<1>5. runOther' \in 0..MaxRun /\ Ongoing(speech) \in 0..MaxRun /\ Ongoing(speech) <= runOther'
  BY <1>1, Thresholds DEF Listen, Ongoing
<1>6. SinceBackchannel(speech) \in 0..(BackchannelMax + 1)
  <2>1. /\ 1 \in 0..(BackchannelMax + 1)
        /\ Up(sinceBackchannel, BackchannelMax) \in 0..(BackchannelMax + 1)
    BY <1>1, Thresholds, UpBounded
  <2> QED
    BY <1>1, <2>1 DEF SinceBackchannel
<1> QED
  BY <1>2, <1>3, <1>4, <1>5, <1>6

\* What a chunk does to the voice.
LEMMA EmitEffect ==
  ASSUME UserInv, NEW chunk, Emit(chunk)
  PROVE  said' = chunk /\ runSelf' \in 0..(MaxRun + 1)
<1>1. runSelf \in 0..(MaxRun + 1)
  BY DEF UserInv, EarsOK, UserTypeOK
<1>2. 0 \in 0..(MaxRun + 1) /\ Up(runSelf, MaxRun) \in 0..(MaxRun + 1)
  BY <1>1, Thresholds, UpBounded
<1> QED
  BY <1>2 DEF Emit

LEMMA QuietEffect ==
  ASSUME UserInv, Quiet
  PROVE  /\ said' = "silence" /\ runSelf' \in 0..(MaxRun + 1)
         /\ sinceSelf' \in 0..(WaitSelf + 1)
<1>1. said' = "silence" /\ runSelf' \in 0..(MaxRun + 1)
  BY EmitEffect DEF Quiet
<1>2. sinceSelf' \in 0..(WaitSelf + 1)
  <2>1. sinceSelf \in 0..(WaitSelf + 1)
    BY DEF UserInv, EarsOK, UserTypeOK
  <2>2. Up(sinceSelf, WaitSelf) \in 0..(WaitSelf + 1)
    BY <2>1, Thresholds, UpBounded
  <2> QED
    BY <2>2 DEF Quiet
<1> QED
  BY <1>1, <1>2

\* An utterance cut into chunks.
LEMMA CutIntoChunks ==
  ASSUME NEW n \in Nat, NEW kind \in Kinds
  PROVE  /\ [i \in 1..n |-> kind] \in Seq(Kinds)
         /\ Len([i \in 1..n |-> kind]) = n
         /\ \A i \in 1..n : [j \in 1..n |-> kind][i] = kind
<1>1. [i \in 1..n |-> kind] \in [1..n -> Kinds]
  OBVIOUS
<1> QED
  BY <1>1, FunctionIsSeq

\* The invariant of the next state, from its ears, its voice and its queue.
LEMMA UserInvFrom ==
  ASSUME NEW speech \in BOOLEAN, UserInv, Listen(speech),
         overheard' \in {0, Ongoing(speech)},
         sinceBackchannel' \in {0, SinceBackchannel(speech)},
         runSelf' \in 0..(MaxRun + 1), sinceSelf' \in 0..(WaitSelf + 1),
         said' \in Kinds \cup Others,
         backchanneling' \in BOOLEAN, delivering' \in BOOLEAN, waiting' \in BOOLEAN,
         lingering' \in BOOLEAN, queue' \in Seq(Kinds), OneUtteranceAtATime', BackchannelKnown'
  PROVE  UserInv'
<1>1. /\ policy' \in Policies
      /\ tick' \in 0..(CheckInterval - 1) /\ sinceOther' \in 0..(WaitOther + 1)
      /\ runOther' \in 0..MaxRun
      /\ Ongoing(speech) \in 0..MaxRun /\ Ongoing(speech) <= runOther'
      /\ SinceBackchannel(speech) \in 0..(BackchannelMax + 1)
  BY ListenEffect
<1>2. overheard' \in 0..MaxRun /\ overheard' <= runOther'
  BY <1>1, Thresholds
<1>3. sinceBackchannel' \in 0..(BackchannelMax + 1)
  BY <1>1, Thresholds
<1> QED
  BY <1>1, <1>2, <1>3 DEF UserInv, EarsOK, UserTypeOK

\* One chunk less of the utterance in the queue.
LEMMA RestOfUtterance ==
  ASSUME UserInv, Talking
  PROVE  /\ Head(queue) \in Kinds /\ Tail(queue) \in Seq(Kinds)
         /\ \A i \in 1..Len(Tail(queue)) : Tail(queue)[i] = Head(queue)
         /\ Tail(queue) # <<>> => Len(queue) > 1 /\ Head(Tail(queue)) = Head(queue)
         /\ Len(queue) > 1 => Tail(queue) # <<>>
<1>1. queue \in Seq(Kinds) /\ queue # <<>> /\ Len(queue) \in Nat \ {0} /\ Head(queue) = queue[1]
  BY EmptySeq DEF UserInv, EarsOK, UserTypeOK, Talking
<1>2. /\ Head(queue) \in Kinds /\ Tail(queue) \in Seq(Kinds) /\ Len(Tail(queue)) = Len(queue) - 1
      /\ \A i \in 1..Len(Tail(queue)) : Tail(queue)[i] = queue[i + 1]
  BY <1>1, HeadTailProperties
<1>3. \A i \in 1..Len(queue) : queue[i] = queue[1]
  BY <1>1 DEF UserInv, OneUtteranceAtATime
<1>4. \A i \in 1..Len(Tail(queue)) : Tail(queue)[i] = Head(queue)
  <2>1. \A i \in 1..Len(Tail(queue)) : i + 1 \in 1..Len(queue)
    BY <1>1, <1>2
  <2> QED
    BY <1>1, <1>2, <1>3, <2>1
<1>5. Tail(queue) # <<>> => Len(queue) > 1 /\ Head(Tail(queue)) = Head(queue)
  <2>1. SUFFICES ASSUME Tail(queue) # <<>> PROVE Len(queue) > 1 /\ Head(Tail(queue)) = Head(queue)
    OBVIOUS
  <2>2. Len(Tail(queue)) \in Nat \ {0} /\ Head(Tail(queue)) = Tail(queue)[1]
    BY <1>2, <2>1, EmptySeq
  <2>3. Len(queue) > 1 /\ 1 \in 1..Len(Tail(queue))
    BY <1>1, <1>2, <2>2
  <2> QED
    BY <1>4, <2>2, <2>3
<1>6. Len(queue) > 1 => Tail(queue) # <<>>
  <2>1. Len(queue) > 1 => Len(Tail(queue)) # 0
    BY <1>1, <1>2
  <2> QED
    BY <2>1, EmptySeq
<1> QED
  BY <1>2, <1>4, <1>5, <1>6

\* The queue of a new utterance.
LEMMA NewUtterance ==
  ASSUME NEW n \in Nat, NEW kind \in Kinds, queue' = [i \in 1..n |-> kind],
         kind = "backchannel" => backchanneling', waiting' => FALSE
  PROVE  /\ queue' \in Seq(Kinds) /\ OneUtteranceAtATime' /\ BackchannelKnown'
         /\ n > 0 => queue' # <<>> /\ Head(queue') = kind
<1>1. /\ queue' \in Seq(Kinds) /\ Len(queue') = n /\ \A i \in 1..n : queue'[i] = kind
  BY CutIntoChunks
<1>2. OneUtteranceAtATime'
  BY <1>1 DEF OneUtteranceAtATime
<1>3. n > 0 => queue' # <<>> /\ Head(queue') = kind
  <2>1. SUFFICES ASSUME n > 0 PROVE queue' # <<>> /\ Head(queue') = kind
    OBVIOUS
  <2>2. queue' # <<>>
    BY <1>1, <2>1, EmptySeq
  <2>3. Head(queue') = queue'[1] /\ 1 \in 1..n
    BY <1>1, <2>1, <2>2
  <2> QED
    BY <1>1, <2>2, <2>3
<1>4. queue' # <<>> => n > 0
  <2>1. queue' # <<>> => Len(queue') \in Nat \ {0}
    BY <1>1, EmptySeq
  <2> QED
    BY <1>1, <2>1
<1>5. BackchannelKnown'
  BY <1>3, <1>4 DEF BackchannelKnown, Talking
<1> QED
  BY <1>1, <1>2, <1>3, <1>5

\* A queue left as it is.
LEMMA SameQueue ==
  ASSUME UserInv, UNCHANGED <<queue, backchanneling>>, waiting' => waiting \/ queue = <<>>
  PROVE  queue' \in Seq(Kinds) /\ OneUtteranceAtATime' /\ BackchannelKnown'
BY DEF UserInv, EarsOK, UserTypeOK, OneUtteranceAtATime, BackchannelKnown, Talking

\* An empty queue.
LEMMA NoQueue ==
  ASSUME queue' = <<>>
  PROVE  queue' \in Seq(Kinds) /\ OneUtteranceAtATime' /\ BackchannelKnown'
<1>1. <<>> \in Seq(Kinds) /\ Len(<<>>) = 0
  BY EmptySeq
<1> QED
  BY <1>1 DEF OneUtteranceAtATime, BackchannelKnown, Talking

\* The types the actions start from.
LEMMA UserFacts ==
  ASSUME UserInv
  PROVE  /\ backchanneling \in BOOLEAN /\ delivering \in BOOLEAN /\ waiting \in BOOLEAN
         /\ lingering \in BOOLEAN /\ sinceSelf \in 0..(WaitSelf + 1) /\ queue \in Seq(Kinds)
         /\ 0 \in 0..(WaitSelf + 1) /\ (waiting => queue = <<>>)
<1>1. 0 \in 0..(WaitSelf + 1)
  BY Thresholds
<1> QED
  BY <1>1 DEF UserInv, EarsOK, UserTypeOK, OneUtteranceAtATime

\* Every tick of the user keeps the invariant.
LEMMA TickKeeps ==
  ASSUME UserInv, NEW speech \in BOOLEAN, Tick(speech)
  PROVE  UserInv'
<1> USE UserFacts DEF Kinds, Others
<1>1. CASE StopTalking(speech)
  <2>1. /\ Listen(speech) /\ queue' = <<>> /\ backchanneling' = FALSE /\ Quiet
        /\ lingering' = FALSE /\ overheard' = Ongoing(speech) /\ sinceBackchannel' = SinceBackchannel(speech)
        /\ delivering' = delivering /\ waiting' = waiting
    BY <1>1 DEF StopTalking
  <2>2. /\ said' = "silence" /\ runSelf' \in 0..(MaxRun + 1) /\ sinceSelf' \in 0..(WaitSelf + 1)
    BY <2>1, QuietEffect
  <2>3. queue' \in Seq(Kinds) /\ OneUtteranceAtATime' /\ BackchannelKnown'
    BY <2>1, NoQueue
  <2> QED
    BY <2>1, <2>2, <2>3, UserInvFrom
<1>2. CASE KeepTalking(speech)
  <2>1. /\ Listen(speech) /\ Talking /\ ~waiting
        /\ queue' = Tail(queue) /\ Emit(Head(queue)) /\ sinceSelf' = 0
        /\ backchanneling' = (backchanneling /\ Len(queue) > 1)
        /\ delivering' = (delivering /\ Len(queue) > 1)
        /\ overheard' = Ongoing(speech) /\ sinceBackchannel' = SinceBackchannel(speech)
        /\ waiting' = waiting /\ lingering' = (lingering /\ Len(queue) > 1)
    BY <1>2 DEF KeepTalking
  <2>2. /\ Head(queue) \in Kinds /\ Tail(queue) \in Seq(Kinds)
        /\ \A i \in 1..Len(Tail(queue)) : Tail(queue)[i] = Head(queue)
        /\ Tail(queue) # <<>> => Len(queue) > 1 /\ Head(Tail(queue)) = Head(queue)
    BY <2>1, RestOfUtterance
  <2>3. said' = Head(queue) /\ runSelf' \in 0..(MaxRun + 1)
    BY <2>1, EmitEffect
  <2>4. OneUtteranceAtATime'
    BY <2>1, <2>2 DEF OneUtteranceAtATime
  <2>5. BackchannelKnown'
    BY <2>1, <2>2 DEF UserInv, BackchannelKnown, Talking
  <2>6. backchanneling' \in BOOLEAN /\ delivering' \in BOOLEAN /\ lingering' \in BOOLEAN
    BY <2>1
  <2>7. queue' \in Seq(Kinds) /\ said' \in Kinds
    BY <2>1, <2>2, <2>3
  <2>8. sinceSelf' \in 0..(WaitSelf + 1) /\ waiting' \in BOOLEAN
    BY <2>1
  <2> QED
    BY <2>1, <2>3, <2>4, <2>5, <2>6, <2>7, <2>8, UserInvFrom
<1>3. CASE GenerateMessage(speech)
  <2>1. /\ Listen(speech) /\ ~waiting /\ queue = <<>> /\ Generate
        /\ overheard' = 0 /\ sinceBackchannel' = SinceBackchannel(speech)
        /\ backchanneling' = backchanneling /\ delivering' = delivering /\ lingering' = lingering
    BY <1>3 DEF GenerateMessage, Talking
  <2>2. CASE Emit("call") /\ waiting' = TRUE /\ UNCHANGED <<queue, sinceSelf>>
    <3>1. said' = "call" /\ runSelf' \in 0..(MaxRun + 1)
      BY <2>2, EmitEffect
    <3>2. queue' \in Seq(Kinds) /\ OneUtteranceAtATime' /\ BackchannelKnown'
      BY <2>1, <2>2, NoQueue
    <3> QED
      BY <2>1, <2>2, <3>1, <3>2, UserInvFrom
  <2>3. CASE Emit("stop") /\ UNCHANGED <<queue, sinceSelf, waiting>>
    <3>1. said' = "stop" /\ runSelf' \in 0..(MaxRun + 1)
      BY <2>3, EmitEffect
    <3>2. queue' \in Seq(Kinds) /\ OneUtteranceAtATime' /\ BackchannelKnown'
      BY <2>1, <2>3, NoQueue
    <3> QED
      BY <2>1, <2>3, <3>1, <3>2, UserInvFrom
  <2>4. CASE /\ \E n \in Lengths : queue' = [i \in 1..(n - 1) |-> "reply"]
             /\ Emit("reply") /\ sinceSelf' = 0
             /\ UNCHANGED waiting
    <3>1. said' = "reply" /\ runSelf' \in 0..(MaxRun + 1)
      BY <2>4, EmitEffect
    <3>2. PICK n \in Lengths : queue' = [i \in 1..(n - 1) |-> "reply"]
      BY <2>4
    <3>3. n - 1 \in Nat
      BY Thresholds
    <3>4. queue' \in Seq(Kinds) /\ OneUtteranceAtATime' /\ BackchannelKnown'
      BY <2>1, <2>4, <3>2, <3>3, NewUtterance
    <3>5. sinceSelf' \in 0..(WaitSelf + 1) /\ waiting' \in BOOLEAN
      BY <2>4
    <3> QED
      BY <2>1, <3>1, <3>4, <3>5, UserInvFrom
  <2> QED
    BY <2>1, <2>2, <2>3, <2>4 DEF Generate
<1>4. CASE Backchannel(speech)
  <2>1. /\ Listen(speech) /\ ~waiting /\ waiting' = waiting
        /\ Emit("backchannel") /\ sinceSelf' = 0 /\ backchanneling' = TRUE
        /\ overheard' = Ongoing(speech) /\ sinceBackchannel' = 0
        /\ delivering' = delivering /\ lingering' = (queue' = <<>>)
    BY <1>4 DEF Backchannel
  <2>2. PICK n \in Lengths : queue' = [i \in 1..(n - 1) |-> "backchannel"]
    BY <1>4 DEF Backchannel
  <2>3. n - 1 \in Nat
    BY Thresholds
  <2>4. queue' \in Seq(Kinds) /\ OneUtteranceAtATime' /\ BackchannelKnown'
    BY <2>1, <2>2, <2>3, NewUtterance
  <2>5. said' = "backchannel" /\ runSelf' \in 0..(MaxRun + 1)
    BY <2>1, EmitEffect
  <2>6. sinceSelf' \in 0..(WaitSelf + 1) /\ lingering' \in BOOLEAN
    BY <2>1
  <2> QED
    BY <2>1, <2>4, <2>5, <2>6, UserInvFrom
<1>5. CASE Wait(speech) \/ WaitForResults(speech)
  <2>1. /\ Listen(speech) /\ Quiet /\ UNCHANGED <<queue, backchanneling, delivering, waiting, lingering>>
        /\ overheard' = Ongoing(speech) /\ sinceBackchannel' = SinceBackchannel(speech)
    BY <1>5 DEF Wait, WaitForResults, flags
  <2>2. /\ said' = "silence" /\ runSelf' \in 0..(MaxRun + 1) /\ sinceSelf' \in 0..(WaitSelf + 1)
    BY <2>1, QuietEffect
  <2>3. queue' \in Seq(Kinds) /\ OneUtteranceAtATime' /\ BackchannelKnown'
    BY <2>1, SameQueue
  <2> QED
    BY <2>1, <2>2, <2>3, UserInvFrom
<1>6. CASE ProcessToolResult(speech)
  <2>1. /\ Listen(speech) /\ waiting /\ queue = <<>> /\ backchanneling' = backchanneling
        /\ lingering' = lingering /\ overheard' = Ongoing(speech) /\ sinceBackchannel' = SinceBackchannel(speech)
    BY <1>6 DEF ProcessToolResult
  <2>2. CASE Emit("call") /\ UNCHANGED <<queue, sinceSelf, delivering, waiting>>
    <3>1. said' = "call" /\ runSelf' \in 0..(MaxRun + 1)
      BY <2>2, EmitEffect
    <3>2. queue' \in Seq(Kinds) /\ OneUtteranceAtATime' /\ BackchannelKnown'
      BY <2>1, <2>2, NoQueue
    <3> QED
      BY <2>1, <2>2, <3>1, <3>2, UserInvFrom
  <2>3. CASE Emit("stop") /\ waiting' = FALSE /\ UNCHANGED <<queue, sinceSelf, delivering>>
    <3>1. said' = "stop" /\ runSelf' \in 0..(MaxRun + 1)
      BY <2>3, EmitEffect
    <3>2. queue' \in Seq(Kinds) /\ OneUtteranceAtATime' /\ BackchannelKnown'
      BY <2>1, <2>3, NoQueue
    <3> QED
      BY <2>1, <2>3, <3>1, <3>2, UserInvFrom
  <2>4. CASE /\ \E n \in Lengths : queue' = queue \o [i \in 1..n |-> "result"]
             /\ delivering' = TRUE /\ waiting' = FALSE
             /\ Quiet
    <3>1. /\ said' = "silence" /\ runSelf' \in 0..(MaxRun + 1) /\ sinceSelf' \in 0..(WaitSelf + 1)
      BY <2>4, QuietEffect
    <3>2. PICK n \in Lengths : queue' = queue \o [i \in 1..n |-> "result"]
      BY <2>4
    <3>3. n \in Nat
      BY Thresholds
    <3>4. queue' = [i \in 1..n |-> "result"]
      BY <2>1, <3>2, <3>3, CutIntoChunks, ConcatEmptySeq
    <3>5. queue' \in Seq(Kinds) /\ OneUtteranceAtATime' /\ BackchannelKnown'
      BY <2>4, <3>3, <3>4, NewUtterance
    <3> QED
      BY <2>1, <2>4, <3>1, <3>5, UserInvFrom
  <2> QED
    BY <1>6, <2>1, <2>2, <2>3, <2>4 DEF ProcessToolResult
<1> QED
  BY <1>1, <1>2, <1>3, <1>4, <1>5, <1>6 DEF Tick

LEMMA UserStep == UserInv /\ [UserNext]_userVars => UserInv'
<1> SUFFICES ASSUME UserInv, [UserNext]_userVars PROVE UserInv'
  OBVIOUS
<1>1. ASSUME NEW speech \in BOOLEAN, Tick(speech) PROVE UserInv'
  BY <1>1, TickKeeps
<1>2. CASE UNCHANGED userVars
  BY <1>2 DEF userVars, ears, flags, UserInv, EarsOK, UserTypeOK, OneUtteranceAtATime,
              BackchannelKnown, Talking
<1> QED
  BY <1>1, <1>2 DEF UserNext, UserEnded

\* The user has said and heard nothing.
LEMMA UserStart == UserInit => UserInv /\ BackchannelOnly
<1> SUFFICES ASSUME UserInit PROVE UserInv /\ BackchannelOnly
  OBVIOUS
<1>1. <<>> \in Seq(Kinds) /\ Len(<<>>) = 0
  BY EmptySeq
<1>2. /\ 0 \in 0..MaxRun /\ 0 \in 0..(MaxRun + 1) /\ 0 \in 0..(WaitSelf + 1)
      /\ 0 \in 0..(WaitOther + 1) /\ 0 \in 0..(BackchannelMax + 1) /\ 0 \in 0..(CheckInterval - 1)
  BY Thresholds
<1>3. EarsOK
  <2>1. /\ overheard \in 0..MaxRun /\ runOther \in 0..MaxRun /\ runSelf \in 0..(MaxRun + 1)
        /\ sinceSelf \in 0..(WaitSelf + 1) /\ sinceOther \in 0..(WaitOther + 1)
        /\ sinceBackchannel \in 0..(BackchannelMax + 1) /\ tick \in 0..(CheckInterval - 1)
        /\ overheard <= runOther
    BY <1>2 DEF UserInit
  <2>2. policy \in Policies /\ queue \in Seq(Kinds) /\ said \in Kinds \cup Others
    BY <1>1 DEF UserInit, Others
  <2>3. {backchanneling, delivering, waiting, lingering} \subseteq BOOLEAN
    BY DEF UserInit
  <2> QED
    BY <2>1, <2>2, <2>3 DEF EarsOK, UserTypeOK
<1>4. OneUtteranceAtATime
  BY <1>1 DEF UserInit, OneUtteranceAtATime
<1> QED
  BY <1>3, <1>4 DEF UserInit, UserInv, BackchannelKnown, BackchannelOnly, Talking

\* The simulated user of a voice run keeps its invariant.
LEMMA UserCorrect == Spec => []UserInv
<1>1. Init => UserInv
  BY UserStart DEF Init
<1>2. [Next]_voiceVars => [UserNext]_userVars
  BY DEF Next, voiceVars, OrchestratorMoves, UserMoves, ContextMoves, AgentMoves, SessionMoves
<1> QED
  BY <1>1, <1>2, UserStep, PTL DEF Spec

\* The user's variables keep to their types, for all thresholds.
THEOREM UserTypes == Spec => []UserTypeOK
<1>1. UserInv => UserTypeOK
  BY DEF UserInv, EarsOK
<1> QED
  BY <1>1, UserCorrect, PTL

\* No utterance of the user is spliced into another, and a backchannel, once
\* begun, is heard to its end, whatever the agent does.
THEOREM Whole == Spec => UtterancesWhole
<1> DEFINE Finishes == Talking /\ Head(queue) = "backchannel" =>
                         queue' = Tail(queue) /\ said' = "backchannel"
<1>1. Init => UserInv
  BY UserStart DEF Init
<1>2. [Next]_voiceVars => [UserNext]_userVars
  BY DEF Next, voiceVars, OrchestratorMoves, UserMoves, ContextMoves, AgentMoves, SessionMoves
<1>3. UserInv => OneUtteranceAtATime
  BY DEF UserInv
<1>4. UserInv /\ [UserNext]_userVars => [Finishes]_userVars
  <2> SUFFICES ASSUME UserInv, Talking, Head(queue) = "backchannel",
                      NEW speech \in BOOLEAN, Tick(speech)
               PROVE  queue' = Tail(queue) /\ said' = "backchannel"
    BY DEF UserNext, UserEnded
  <2>1. backchanneling /\ ~waiting
    BY DEF UserInv, BackchannelKnown, OneUtteranceAtATime, Talking
  <2>2. KeepTalking(speech)
    BY <2>1 DEF Tick, StopTalking, MustYield, GenerateMessage, Backchannel, Wait, WaitForResults,
                ProcessToolResult
  <2> QED
    BY <2>2, EmitEffect DEF KeepTalking
<1> QED
  BY <1>1, <1>2, <1>3, <1>4, UserStep, PTL DEF Spec, UtterancesWhole, BackchannelFinished

\* Only backchannels are taken for backchannels, but where one of a single chunk
\* has left the flag set.
LEMMA OnlyBackchannels == UserInv /\ BackchannelOnly /\ [UserNext]_userVars => BackchannelOnly'
<1> SUFFICES ASSUME UserInv, BackchannelOnly, [UserNext]_userVars PROVE BackchannelOnly'
  OBVIOUS
<1>1. CASE UNCHANGED userVars
  BY <1>1 DEF userVars, flags, BackchannelOnly, Talking
<1>2. ASSUME NEW speech \in BOOLEAN, Tick(speech) PROVE BackchannelOnly'
  <2>1. CASE StopTalking(speech)
    BY <2>1 DEF StopTalking, BackchannelOnly
  <2>2. CASE KeepTalking(speech)
    <3>1. /\ Talking /\ queue' = Tail(queue)
          /\ backchanneling' = (backchanneling /\ Len(queue) > 1)
          /\ lingering' = (lingering /\ Len(queue) > 1)
      BY <2>2 DEF KeepTalking
    <3>2. /\ Tail(queue) # <<>> => Head(Tail(queue)) = Head(queue)
          /\ Len(queue) > 1 => Tail(queue) # <<>>
      BY <3>1, RestOfUtterance
    <3> QED
      BY <3>1, <3>2 DEF BackchannelOnly, Talking
  <2>3. CASE Backchannel(speech)
    <3>1. PICK n \in Lengths : queue' = [i \in 1..(n - 1) |-> "backchannel"]
      BY <2>3 DEF Backchannel
    <3>2. n - 1 \in Nat /\ "backchannel" \in Kinds
      BY Thresholds DEF Kinds
    <3>3. /\ queue' \in Seq(Kinds) /\ Len(queue') = n - 1
          /\ \A i \in 1..(n - 1) : queue'[i] = "backchannel"
      BY <3>1, <3>2, CutIntoChunks
    <3>4. queue' # <<>> => Head(queue') = "backchannel"
      <4>1. SUFFICES ASSUME queue' # <<>> PROVE Head(queue') = "backchannel"
        OBVIOUS
      <4>2. Len(queue') \in Nat \ {0}
        BY <3>3, <4>1, EmptySeq
      <4>3. Head(queue') = queue'[1] /\ 1 \in 1..(n - 1)
        BY <3>2, <3>3, <4>1, <4>2
      <4> QED
        BY <3>3, <4>3
    <3>5. lingering' = (queue' = <<>>)
      BY <2>3 DEF Backchannel
    <3> QED
      BY <3>4, <3>5 DEF BackchannelOnly, Talking
  <2>4. CASE GenerateMessage(speech)
    <3>1. backchanneling' => lingering'
      BY <2>4 DEF GenerateMessage, BackchannelOnly
    <3> QED
      BY <3>1 DEF BackchannelOnly
  <2>5. CASE Wait(speech) \/ WaitForResults(speech)
    BY <2>5 DEF Wait, WaitForResults, flags, BackchannelOnly, Talking
  <2>6. CASE ProcessToolResult(speech)
    <3>1. backchanneling' => lingering'
      BY <2>6 DEF ProcessToolResult, BackchannelOnly, UserInv, OneUtteranceAtATime, Talking
    <3> QED
      BY <3>1 DEF BackchannelOnly
  <2> QED
    BY <1>2, <2>1, <2>2, <2>3, <2>4, <2>5, <2>6 DEF Tick
<1> QED
  BY <1>1, <1>2 DEF UserNext, UserEnded

\* YieldsInTime, of TurnTaking: for all thresholds and lengths of utterances, the
\* user never talks on over an agent that has been speaking for as long as the
\* larger threshold, but in backchannels and in what follows one of one chunk.
THEOREM Yields == Spec => YieldsInTime
<1> DEFINE InTime == Talking /\ said' \in {"reply", "result"} =>
                       lingering \/ overheard' < Yield \/ overheard' < YieldInterrupting
<1>1. Init => UserInv /\ BackchannelOnly
  BY UserStart DEF Init
<1>2. [Next]_voiceVars => [UserNext]_userVars
  BY DEF Next, voiceVars, OrchestratorMoves, UserMoves, ContextMoves, AgentMoves, SessionMoves
<1>3. UserInv /\ BackchannelOnly /\ [UserNext]_userVars => BackchannelOnly'
  BY OnlyBackchannels
<1>4. UserInv /\ BackchannelOnly /\ [UserNext]_userVars => [InTime]_userVars
  <2> SUFFICES ASSUME UserInv, BackchannelOnly, Talking, said' \in {"reply", "result"}, ~lingering,
                      NEW speech \in BOOLEAN, Tick(speech)
               PROVE  overheard' < Yield \/ overheard' < YieldInterrupting
    BY DEF UserNext, UserEnded
  <2>1. ~waiting
    BY DEF UserInv, OneUtteranceAtATime, Talking
  <2>2. ~StopTalking(speech)
    BY QuietEffect DEF StopTalking
  <2>3. KeepTalking(speech)
    BY <2>1, <2>2 DEF Tick, GenerateMessage, Backchannel, Wait, WaitForResults, ProcessToolResult
  <2>4. said' = Head(queue) /\ ~MustYield(speech) /\ overheard' = Ongoing(speech)
    BY <2>3, EmitEffect DEF KeepTalking
  <2>5. ~backchanneling
    BY <2>4 DEF BackchannelOnly
  <2>6. Ongoing(speech) \in Nat
    BY <2>3, ListenEffect, Thresholds DEF KeepTalking
  <2>7. Threshold \in {Yield, YieldInterrupting}
    BY DEF Threshold
  <2>8. Ongoing(speech) = 0 \/ Ongoing(speech) < Threshold
    BY <2>4, <2>5, <2>6, <2>7, Thresholds DEF MustYield
  <2> QED
    BY <2>4, <2>6, <2>7, <2>8, Thresholds
<1> QED
  BY <1>1, <1>2, <1>3, <1>4, UserStep, PTL DEF Spec, YieldsInTime
-----------------------------------------------------------------------------
(* The session.                                                            *)

\* Counting on.
LEMMA NumbersOn ==
  ASSUME NEW m \in Nat, NEW n \in Nat
  PROVE  /\ [k \in 1..n |-> m + k] \in Seq(Nat)
         /\ Numbers(m) \in Seq(Nat) /\ Len(Numbers(m)) = m
         /\ Numbers(m) \o [k \in 1..n |-> m + k] = Numbers(m + n)
<1> DEFINE new == [k \in 1..n |-> m + k]
<1>1. \A i \in Nat : Numbers(i) \in Seq(Nat) /\ Len(Numbers(i)) = i
  <2>1. SUFFICES ASSUME NEW i \in Nat PROVE Numbers(i) \in Seq(Nat) /\ Len(Numbers(i)) = i
    OBVIOUS
  <2>2. Numbers(i) \in [1..i -> Nat]
    BY DEF Numbers
  <2> QED
    BY <2>2, FunctionIsSeq
<1>2. new \in Seq(Nat) /\ Len(new) = n
  <2>1. new \in [1..n -> Nat]
    OBVIOUS
  <2> QED
    BY <2>1, FunctionIsSeq
<1>3. m + n \in Nat /\ Numbers(m + n) \in Seq(Nat) /\ Len(Numbers(m + n)) = m + n
  BY <1>1
<1>4. /\ Numbers(m) \o new \in Seq(Nat) /\ Len(Numbers(m) \o new) = m + n
      /\ \A i \in 1..(m + n) : (Numbers(m) \o new)[i] = IF i <= m THEN Numbers(m)[i] ELSE new[i - m]
  <2> DEFINE old == Numbers(m)
  <2>1. old \in Seq(Nat) /\ Len(old) = m
    BY <1>1
  <2> HIDE DEF new, old
  <2>2. /\ old \o new \in Seq(Nat) /\ Len(old \o new) = Len(old) + Len(new)
        /\ \A i \in 1..(Len(old) + Len(new)) :
             (old \o new)[i] = IF i <= Len(old) THEN old[i] ELSE new[i - Len(old)]
    BY <1>2, <2>1, ConcatProperties
  <2>3. /\ old \o new \in Seq(Nat) /\ Len(old \o new) = m + n
        /\ \A i \in 1..(m + n) : (old \o new)[i] = IF i <= m THEN old[i] ELSE new[i - m]
    BY <1>2, <2>1, <2>2
  <2> QED
    BY <2>3 DEF old
<1>5. ASSUME NEW i \in 1..(m + n)
      PROVE  (Numbers(m) \o new)[i] = Numbers(m + n)[i]
  <2>1. Numbers(m + n)[i] = i
    BY DEF Numbers
  <2>2. CASE i <= m
    <3>1. i \in 1..m
      BY <2>2
    <3>2. Numbers(m)[i] = i
      BY <3>1 DEF Numbers
    <3> HIDE DEF new
    <3> QED
      BY <1>4, <2>1, <2>2, <3>2
  <2>3. CASE ~(i <= m)
    <3>1. i - m \in 1..n /\ m + (i - m) = i
      BY <2>3
    <3>2. new[i - m] = i
      BY <3>1
    <3> HIDE DEF new
    <3> QED
      BY <1>4, <2>1, <2>3, <3>2
  <2> QED
    BY <2>2, <2>3
<1>6. Numbers(m) \o new = Numbers(m + n)
  <2> HIDE DEF new
  <2> QED
    BY <1>3, <1>4, <1>5, SeqEqual
<1> QED
  BY <1>1, <1>2, <1>6

\* The calls of a batch, counted up to the nth of its events.
CallsUpTo(f, batch) ==
  /\ f \in [0..Len(batch) -> Seq(Nat)] /\ f[0] = <<>>
  /\ \A n \in 1..Len(batch) :
       f[n] = IF batch[n] \in toolCalls THEN Append(f[n - 1], batch[n]) ELSE f[n - 1]

LEMMA CallsAreCounted ==
  ASSUME NEW batch \in Seq(Nat)
  PROVE  \E f : CallsUpTo(f, batch) /\ CallsAmong(batch) = f[Len(batch)]
<1> DEFINE Rule(f) == [n \in 0..Len(batch) |->
                         IF n = 0 THEN <<>>
                         ELSE IF batch[n] \in toolCalls THEN Append(f[n - 1], batch[n])
                         ELSE f[n - 1]]
           upTo == CHOOSE f : f = Rule(f)
           step == [x \in (Nat \ {0}) \X Seq(Nat) |->
                      IF x[1] \in 1..Len(batch) /\ batch[x[1]] \in toolCalls
                      THEN Append(x[2], batch[x[1]]) ELSE x[2]]
<1>1. Len(batch) \in Nat /\ \A n \in 1..Len(batch) : batch[n] \in Nat
  OBVIOUS
<1>2. \A n \in 1..Len(batch), s \in Seq(Nat) :
        step[<<n, s>>] = IF batch[n] \in toolCalls THEN Append(s, batch[n]) ELSE s
  BY <1>1
<1>3. PICK g : Steps(g, Seq(Nat), <<>>, step, Len(batch))
  <2>1. step \in [(Nat \ {0}) \X Seq(Nat) -> Seq(Nat)]
    <3>1. ASSUME NEW x \in (Nat \ {0}) \X Seq(Nat)
          PROVE  (IF x[1] \in 1..Len(batch) /\ batch[x[1]] \in toolCalls
                  THEN Append(x[2], batch[x[1]]) ELSE x[2]) \in Seq(Nat)
      <4>1. x[1] \in Nat /\ x[2] \in Seq(Nat)
        OBVIOUS
      <4> QED
        BY <1>1, <4>1
    <3> QED
      BY <3>1
  <2> HIDE DEF step
  <2>2. \A n \in Nat : \E f : Steps(f, Seq(Nat), <<>>, step, n)
    BY <2>1, EmptySeq, StepsExist
  <2> QED
    BY <1>1, <2>2
<1>4. CallsUpTo(g, batch)
  <2>1. /\ g \in [0..Len(batch) -> Seq(Nat)] /\ g[0] = <<>>
        /\ \A n \in 1..Len(batch) : g[n] = step[<<n, g[n - 1]>>]
    BY <1>3 DEF Steps
  <2>2. ASSUME NEW n \in 1..Len(batch)
        PROVE  g[n] = IF batch[n] \in toolCalls THEN Append(g[n - 1], batch[n]) ELSE g[n - 1]
    <3>1. n - 1 \in 0..Len(batch)
      BY <1>1
    <3>2. g[n - 1] \in Seq(Nat)
      BY <2>1, <3>1
    <3> HIDE DEF step
    <3> QED
      BY <1>2, <2>1, <3>2
  <2> QED
    BY <2>1, <2>2 DEF CallsUpTo
<1>5. g = Rule(g)
  <2>1. ASSUME NEW n \in 0..Len(batch)
        PROVE  g[n] = IF n = 0 THEN <<>>
                      ELSE IF batch[n] \in toolCalls THEN Append(g[n - 1], batch[n])
                      ELSE g[n - 1]
    <3>1. n # 0 => n \in 1..Len(batch)
      BY <1>1
    <3> QED
      BY <1>4, <3>1 DEF CallsUpTo
  <2>2. g = [n \in 0..Len(batch) |-> g[n]]
    BY <1>4 DEF CallsUpTo
  <2> QED
    BY <2>1, <2>2
<1>6. upTo = Rule(upTo)
  <2>1. \E f : f = Rule(f)
    BY <1>5
  <2> QED
    BY <2>1
<1>7. \A n \in 0..Len(batch) :
        upTo[n] = IF n = 0 THEN <<>>
                  ELSE IF batch[n] \in toolCalls THEN Append(upTo[n - 1], batch[n])
                  ELSE upTo[n - 1]
  <2> HIDE DEF upTo
  <2> QED
    BY <1>6
<1> DEFINE S == {n \in Nat : n <= Len(batch) => upTo[n] = g[n]}
<1>8. 0 \in S
  <2> HIDE DEF upTo
  <2>1. upTo[0] = <<>>
    BY <1>1, <1>7
  <2> QED
    BY <1>4, <2>1 DEF CallsUpTo
<1>9. ASSUME NEW n \in Nat, n \in S
      PROVE  n + 1 \in S
  <2> HIDE DEF upTo
  <2>1. SUFFICES ASSUME n + 1 <= Len(batch) PROVE upTo[n + 1] = g[n + 1]
    OBVIOUS
  <2>2. n + 1 \in 0..Len(batch) /\ n + 1 \in 1..Len(batch) /\ n + 1 # 0 /\ n + 1 - 1 = n
    BY <1>1, <2>1
  <2>3. upTo[n + 1] = IF batch[n + 1] \in toolCalls THEN Append(upTo[n], batch[n + 1]) ELSE upTo[n]
    BY <1>7, <2>2
  <2>4. g[n + 1] = IF batch[n + 1] \in toolCalls THEN Append(g[n], batch[n + 1]) ELSE g[n]
    BY <1>4, <2>2 DEF CallsUpTo
  <2>5. upTo[n] = g[n]
    BY <1>1, <1>9, <2>1
  <2> QED
    BY <2>3, <2>4, <2>5
<1>10. \A n \in Nat : n \in S
  <2> HIDE DEF S
  <2> QED
    BY <1>8, <1>9, SetInduction
<1>11. upTo[Len(batch)] = g[Len(batch)]
  <2> HIDE DEF upTo
  <2> QED
    BY <1>1, <1>10
<1>12. CallsAmong(batch) = upTo[Len(batch)]
  BY DEF CallsAmong
<1> QED
  BY <1>4, <1>11, <1>12

\* The calls of a batch in order are in order, and each is one of the batch.
LEMMA CallsInOrder ==
  ASSUME NEW batch \in Seq(Nat), Increasing(batch)
  PROVE  /\ CallsAmong(batch) \in Seq(Nat) /\ Increasing(CallsAmong(batch))
         /\ \A k \in 1..Len(CallsAmong(batch)) :
              \E i \in 1..Len(batch) : CallsAmong(batch)[k] = batch[i]
<1>1. PICK f : CallsUpTo(f, batch) /\ CallsAmong(batch) = f[Len(batch)]
  BY CallsAreCounted
<1>2. Len(batch) \in Nat /\ \A n \in 1..Len(batch) : batch[n] \in Nat
  OBVIOUS
<1> DEFINE Sound(n) == /\ Increasing(f[n])
                       /\ \A k \in 1..Len(f[n]) : \E i \in 1..n : f[n][k] = batch[i]
           S == {n \in Nat : n <= Len(batch) => Sound(n)}
<1>3. 0 \in S
  <2>1. Len(f[0]) = 0
    BY <1>1 DEF CallsUpTo
  <2>2. Sound(0)
    BY <2>1 DEF Increasing
  <2> QED
    BY <2>2
<1>4. ASSUME NEW n \in Nat, n \in S
      PROVE  n + 1 \in S
  <2>1. SUFFICES ASSUME n + 1 <= Len(batch) PROVE Sound(n + 1)
    <3> HIDE DEF Sound
    <3> QED
      OBVIOUS
  <2>2. n + 1 \in 1..Len(batch) /\ n \in 0..Len(batch) /\ n + 1 - 1 = n
    BY <1>2, <2>1
  <2>3. f[n + 1] = IF batch[n + 1] \in toolCalls THEN Append(f[n], batch[n + 1]) ELSE f[n]
    BY <1>1, <2>2 DEF CallsUpTo
  <2>4. Sound(n)
    BY <1>2, <1>4, <2>1
  <2>5. CASE batch[n + 1] \notin toolCalls
    <3>1. f[n + 1] = f[n]
      BY <2>3, <2>5
    <3>2. ASSUME NEW k \in 1..Len(f[n]) PROVE \E i \in 1..(n + 1) : f[n][k] = batch[i]
      <4>1. PICK i \in 1..n : f[n][k] = batch[i]
        BY <2>4
      <4>2. i \in 1..(n + 1)
        OBVIOUS
      <4> QED
        BY <4>1, <4>2
    <3> QED
      BY <2>4, <3>1, <3>2
  <2>6. CASE batch[n + 1] \in toolCalls
    <3> DEFINE old == f[n]
               new == f[n + 1]
               call == batch[n + 1]
    <3>1. old \in Seq(Nat) /\ call \in Nat /\ new = Append(old, call)
      BY <1>1, <1>2, <2>2, <2>3, <2>6 DEF CallsUpTo
    <3>2. ASSUME NEW k \in 1..Len(old)
          PROVE  old[k] < call /\ \E i \in 1..(n + 1) : old[k] = batch[i]
      <4>1. PICK i \in 1..n : old[k] = batch[i]
        BY <2>4
      <4>2. i \in 1..(n + 1) /\ i < n + 1 /\ i \in 1..Len(batch)
        BY <1>2, <2>1
      <4> QED
        BY <2>2, <4>1, <4>2 DEF Increasing
    <3>3. Increasing(old)
      BY <2>4
    <3>4. n + 1 \in 1..(n + 1) /\ call = batch[n + 1]
      OBVIOUS
    <3> HIDE DEF old, new, call
    <3>5. /\ Len(new) = Len(old) + 1 /\ Len(old) \in Nat /\ new[Len(old) + 1] = call
          /\ \A k \in 1..Len(old) : new[k] = old[k]
      BY <3>1
    <3>6. ASSUME NEW j \in 1..Len(new), NEW k \in 1..Len(new), j < k PROVE new[j] < new[k]
      <4>1. j \in 1..Len(old)
        BY <3>5, <3>6
      <4>2. CASE k \in 1..Len(old)
        BY <3>3, <3>5, <3>6, <4>1, <4>2 DEF Increasing
      <4>3. CASE k = Len(old) + 1
        BY <3>2, <3>5, <4>1, <4>3
      <4> QED
        BY <3>5, <4>2, <4>3
    <3>7. ASSUME NEW k \in 1..Len(new) PROVE \E i \in 1..(n + 1) : new[k] = batch[i]
      <4>1. CASE k \in 1..Len(old)
        BY <3>2, <3>5, <4>1
      <4>2. CASE k = Len(old) + 1
        BY <3>4, <3>5, <4>2
      <4> QED
        BY <3>5, <4>1, <4>2
    <3>8. Increasing(new)
      BY <3>6 DEF Increasing
    <3> QED
      BY <3>7, <3>8 DEF new
  <2> QED
    BY <2>5, <2>6
<1>5. \A n \in Nat : n \in S
  <2> HIDE DEF S
  <2> QED
    BY <1>3, <1>4, SetInduction
<1>6. Sound(Len(batch))
  <2>1. Len(batch) \in S
    <3> HIDE DEF S
    <3> QED
      BY <1>2, <1>5
  <2> HIDE DEF Sound
  <2> QED
    BY <1>2, <2>1
<1>7. f[Len(batch)] \in Seq(Nat)
  BY <1>1, <1>2 DEF CallsUpTo
<1> QED
  BY <1>1, <1>6, <1>7

\* A tick gathers the next events: what it gathers goes on where the events
\* processed ended.
LEMMA GatheredAreNext ==
  ASSUME NEW p \in Seq(Nat), NEW g \in Seq(Nat), NEW q \in Seq(Nat), NEW n \in Nat,
         p \o g \o <<>> \o q = Numbers(n)
  PROVE  \A i \in 1..Len(g) : g[i] = Len(p) + i
<1> DEFINE pg == p \o g
<1>1. Len(p) \in Nat /\ Len(g) \in Nat /\ Len(q) \in Nat
  OBVIOUS
<1>2. pg \in Seq(Nat) /\ pg \o <<>> = pg
  BY ConcatOfNumbers
<1>3. pg \o q = Numbers(n) /\ Len(Numbers(n)) = n
  BY <1>2, NumbersOn
<1> DEFINE T == Nat
<1>4. /\ Len(pg) = Len(p) + Len(g)
      /\ \A i \in 1..(Len(p) + Len(g)) : pg[i] = IF i <= Len(p) THEN p[i] ELSE g[i - Len(p)]
  <2>1. p \in Seq(T) /\ g \in Seq(T)
    OBVIOUS
  <2> HIDE DEF T
  <2> QED
    BY <2>1, ConcatProperties
<1>5. /\ Len(pg \o q) = Len(pg) + Len(q)
      /\ \A i \in 1..(Len(pg) + Len(q)) : (pg \o q)[i] = IF i <= Len(pg) THEN pg[i] ELSE q[i - Len(pg)]
  <2>1. pg \in Seq(T) /\ q \in Seq(T)
    BY <1>2
  <2> HIDE DEF T, pg
  <2> QED
    BY <2>1, ConcatProperties
<1>6. ASSUME NEW i \in 1..Len(g) PROVE g[i] = Len(p) + i
  <2> DEFINE k == Len(p) + i
  <2>1. /\ k \in 1..(Len(p) + Len(g)) /\ ~(k <= Len(p)) /\ k - Len(p) = i
        /\ k \in 1..(Len(pg) + Len(q)) /\ k <= Len(pg) /\ k \in 1..n
    <3>1. n = Len(pg) + Len(q)
      BY <1>3, <1>5
    <3> HIDE DEF pg
    <3> QED
      BY <1>1, <1>4, <3>1
  <2> HIDE DEF k, pg
  <2>2. pg[k] = g[i]
    BY <1>4, <2>1
  <2>3. (pg \o q)[k] = pg[k]
    BY <1>5, <2>1
  <2>4. Numbers(n)[k] = k
    BY <2>1 DEF Numbers
  <2> QED
    BY <1>3, <2>2, <2>3, <2>4 DEF k
<1> QED
  BY <1>6

\* Numbers in order, followed by greater numbers in order.
LEMMA IncreasingOn ==
  ASSUME NEW s \in Seq(Nat), NEW t \in Seq(Nat), NEW n \in Nat, NEW m \in Nat, n <= m,
         Increasing(s), Bounded(s, n), Increasing(t),
         \A k \in 1..Len(t) : n < t[k] /\ t[k] <= m
  PROVE  Increasing(s \o t) /\ Bounded(s \o t, m)
<1> DEFINE st == s \o t
           T == Nat
<1>1. /\ Len(st) = Len(s) + Len(t)
      /\ \A i \in 1..(Len(s) + Len(t)) : st[i] = IF i <= Len(s) THEN s[i] ELSE t[i - Len(s)]
  <2>1. s \in Seq(T) /\ t \in Seq(T)
    OBVIOUS
  <2> HIDE DEF T
  <2> QED
    BY <2>1, ConcatProperties
<1>2. Len(s) \in Nat /\ Len(t) \in Nat
  OBVIOUS
<1>3. /\ \A k \in 1..Len(s) : s[k] \in Nat /\ s[k] <= n
      /\ \A k \in 1..Len(t) : t[k] \in Nat /\ n < t[k] /\ t[k] <= m
  BY DEF Bounded
<1>4. /\ \A j, k \in 1..Len(s) : j < k => s[j] < s[k]
      /\ \A j, k \in 1..Len(t) : j < k => t[j] < t[k]
  BY DEF Increasing
<1> HIDE DEF st
<1>5. ASSUME NEW k \in 1..Len(st)
      PROVE  \/ k \in 1..Len(s) /\ st[k] = s[k]
             \/ ~(k <= Len(s)) /\ k - Len(s) \in 1..Len(t) /\ st[k] = t[k - Len(s)]
  <2>1. k \in 1..(Len(s) + Len(t))
    BY <1>1
  <2>2. k <= Len(s) => k \in 1..Len(s)
    BY <1>2
  <2>3. ~(k <= Len(s)) => k - Len(s) \in 1..Len(t)
    BY <1>2, <2>1
  <2> QED
    BY <1>1, <2>1, <2>2, <2>3
<1>6. ASSUME NEW j \in 1..Len(st), NEW k \in 1..Len(st), j < k
      PROVE  st[j] < st[k]
  <2>1. CASE k \in 1..Len(s) /\ st[k] = s[k]
    <3>1. j \in 1..Len(s) /\ j <= Len(s)
      BY <1>2, <1>6, <2>1
    <3>2. st[j] = s[j]
      BY <1>5, <3>1
    <3> QED
      BY <1>4, <1>6, <2>1, <3>1, <3>2
  <2>2. CASE k - Len(s) \in 1..Len(t) /\ st[k] = t[k - Len(s)]
    <3>1. CASE j \in 1..Len(s) /\ st[j] = s[j]
      <4>1. s[j] \in Nat /\ s[j] <= n
        BY <1>3, <3>1
      <4>2. t[k - Len(s)] \in Nat /\ n < t[k - Len(s)]
        BY <1>3, <2>2
      <4>3. s[j] < t[k - Len(s)]
        BY <4>1, <4>2
      <4> QED
        BY <2>2, <3>1, <4>3
    <3>2. CASE j - Len(s) \in 1..Len(t) /\ st[j] = t[j - Len(s)]
      <4>1. j - Len(s) < k - Len(s)
        BY <1>2, <1>6
      <4> QED
        BY <1>4, <2>2, <3>2, <4>1
    <3> QED
      BY <1>5, <3>1, <3>2
  <2> QED
    BY <1>5, <2>1, <2>2
<1>7. ASSUME NEW k \in 1..Len(st) PROVE st[k] <= m
  <2>1. CASE k \in 1..Len(s) /\ st[k] = s[k]
    BY <1>3, <2>1
  <2>2. CASE k - Len(s) \in 1..Len(t) /\ st[k] = t[k - Len(s)]
    BY <1>3, <2>2
  <2> QED
    BY <1>5, <2>1, <2>2
<1>8. Increasing(st) /\ Bounded(st, m)
  BY <1>6, <1>7 DEF Increasing, Bounded
<1> QED
  BY <1>8 DEF st

\* The loop reads the next events, and queues them.
LEMMA SessionReceives ==
  ASSUME SessionInv, NEW kind, NEW last \in BOOLEAN, NEW late \in BOOLEAN,
         Receive(kind, last, late)
  PROVE  SessionInv'
<1> DEFINE turnEnds == last /\ ~late
           n == IF turnEnds THEN 2 ELSE 1
           new == [k \in 1..n |-> eventsRead + k]
<1>1. /\ eventsRead' = eventsRead + n /\ eventQueue' = eventQueue \o new
      /\ receiveTask' \in {"running", "done"} /\ session' = "live"
      /\ UNCHANGED <<at, preserved, gathered, processed, toolResults, answered>>
  BY DEF Receive, toolVars
<1>2. n \in Nat
  OBVIOUS
<1> HIDE DEF n
<1>3. eventsRead \in Nat /\ new \in Seq(Nat)
  BY <1>2, NumbersOn DEF SessionInv, SessionTypes
<1> HIDE DEF new
<1>4. SessionTypes'
  <2>1. eventQueue \o new \in Seq(Nat)
    BY <1>3, ConcatOfNumbers DEF SessionInv, SessionTypes
  <2> QED
    BY <1>1, <1>2, <1>3, <2>1 DEF SessionInv, SessionTypes
<1>5. SegmentPlaces'
  BY <1>1 DEF SessionInv, SegmentPlaces, Failed
<1>6. InOrder'
  <2>1. SUFFICES ASSUME ~Failed PROVE AllEvents' = Numbers(eventsRead + n)
    BY <1>1 DEF InOrder, Failed
  <2>2. AllEvents' = processed \o gathered \o preserved \o (eventQueue \o new)
    BY <1>1 DEF AllEvents
  <2>3. processed \o gathered \o preserved \o (eventQueue \o new) = AllEvents \o new
    <3> DEFINE before == processed \o gathered \o preserved
    <3>1. before \in Seq(Nat) /\ eventQueue \in Seq(Nat)
      <4>1. processed \o gathered \in Seq(Nat)
        BY ConcatOfNumbers DEF SessionInv, SessionTypes
      <4> QED
        BY <4>1, ConcatOfNumbers DEF SessionInv, SessionTypes
    <3> HIDE DEF before
    <3>2. (before \o eventQueue) \o new = before \o (eventQueue \o new)
      BY <1>3, <3>1, NumbersAssociate
    <3> QED
      BY <3>2 DEF before, AllEvents
  <2>4. AllEvents = Numbers(eventsRead)
    BY <2>1 DEF SessionInv, InOrder
  <2>5. Numbers(eventsRead) \o new = Numbers(eventsRead + n)
    BY <1>2, <1>3, NumbersOn DEF new
  <2> QED
    BY <2>2, <2>3, <2>4, <2>5
<1>7. AnsweredInOrder'
  BY <1>1 DEF SessionInv, AnsweredInOrder, Failed
<1>8. TornDownAlone'
  BY <1>1 DEF TornDownAlone
<1> QED
  BY <1>4, <1>5, <1>6, <1>7, <1>8 DEF SessionInv

\* The pending results are sent in one batch, or not at all.
LEMMA SessionFlushes ==
  ASSUME SessionInv, FlushPendingToolResults
  PROVE  SessionInv'
<1>1. /\ at = "flush" /\ at' \in {"execute", "failed"}
      /\ UNCHANGED <<session, receiveTask, eventsRead, eventQueue, preserved, gathered, processed>>
  BY DEF FlushPendingToolResults, Fail, events
<1>2. /\ toolResults' \in Seq(Nat) /\ answered' \in Seq(Nat)
      /\ answered' \o toolResults' = answered \o toolResults
  <2>1. CASE UNCHANGED toolVars
    BY <2>1 DEF SessionInv, SessionTypes, toolVars
  <2>2. CASE answered' = answered \o toolResults /\ toolResults' = <<>>
    <3>1. toolResults \in Seq(Nat) /\ answered \in Seq(Nat)
      BY DEF SessionInv, SessionTypes
    <3>2. answered \o toolResults \in Seq(Nat)
      BY <3>1, ConcatOfNumbers
    <3>3. (answered \o toolResults) \o <<>> = answered \o toolResults
      <4> DEFINE both == answered \o toolResults
      <4>1. both \in Seq(Nat)
        BY <3>2
      <4> HIDE DEF both
      <4>2. both \o <<>> = both
        BY <4>1, ConcatOfNumbers
      <4> QED
        BY <4>2 DEF both
    <3> QED
      BY <2>2, <3>2, <3>3, ConcatOfNumbers
  <2> QED
    BY <2>1, <2>2 DEF FlushPendingToolResults
<1>3. SessionTypes'
  BY <1>1, <1>2 DEF SessionInv, SessionTypes
<1>4. SegmentPlaces'
  BY <1>1 DEF SessionInv, SegmentPlaces, Failed
<1>5. InOrder'
  BY <1>1 DEF SessionInv, InOrder, AllEvents, Failed
<1>6. AnsweredInOrder'
  BY <1>1, <1>2 DEF SessionInv, AnsweredInOrder, Failed
<1>7. TornDownAlone'
  BY <1>1 DEF SessionInv, TornDownAlone
<1> QED
  BY <1>3, <1>4, <1>5, <1>6, <1>7 DEF SessionInv

\* The queue is put by for the first tick after the reconnection.
LEMMA SessionReconnects ==
  ASSUME SessionInv, PerformPendingReconnection
  PROVE  SessionInv'
<1>1. /\ at = "execute" /\ at' \in {"reconnecting", "failed"}
      /\ receiveTask' = "none" /\ preserved' = preserved \o eventQueue /\ eventQueue' = <<>>
      /\ UNCHANGED <<eventsRead, gathered, processed, toolResults, answered>>
  BY DEF PerformPendingReconnection, ForgetTask, Drain, Fail, toolVars
<1>2. session' \in {"none", "live", "closed"}
  BY DEF PerformPendingReconnection, SessionInv, SessionTypes
<1>3. SessionTypes'
  <2>1. preserved \o eventQueue \in Seq(Nat)
    BY ConcatOfNumbers DEF SessionInv, SessionTypes
  <2> QED
    BY <1>1, <1>2, <2>1, ConcatOfNumbers DEF SessionInv, SessionTypes
<1>4. SegmentPlaces'
  BY <1>1 DEF SessionInv, SegmentPlaces, Failed
<1>5. InOrder'
  <2>1. AllEvents' = processed \o gathered \o (preserved \o eventQueue) \o <<>>
    BY <1>1 DEF AllEvents
  <2>2. AllEvents' = AllEvents
    <3> DEFINE before == processed \o gathered
    <3>1. before \in Seq(Nat) /\ preserved \in Seq(Nat) /\ eventQueue \in Seq(Nat)
      BY ConcatOfNumbers DEF SessionInv, SessionTypes
    <3> HIDE DEF before
    <3>2. before \o (preserved \o eventQueue) \o <<>> = before \o preserved \o eventQueue
      BY <3>1, LastHandedOn
    <3> QED
      BY <2>1, <3>2 DEF before, AllEvents
  <2> QED
    BY <1>1, <2>2 DEF SessionInv, InOrder, Failed
<1>6. AnsweredInOrder'
  BY <1>1 DEF SessionInv, AnsweredInOrder, Failed
<1>7. TornDownAlone'
  BY <1>1 DEF TornDownAlone
<1> QED
  BY <1>3, <1>4, <1>5, <1>6, <1>7 DEF SessionInv

\* What was put by is gathered first; a loop starts on a queue that is empty.
LEMMA SessionSends ==
  ASSUME SessionInv, SendAudio
  PROVE  SessionInv'
<1>1. /\ at = "send" /\ at' \in {"gather", "failed"} /\ gathered' = preserved /\ preserved' = <<>>
      /\ UNCHANGED <<session, eventsRead, processed, toolResults, answered>>
  BY DEF SendAudio, Fail, toolVars
<1>2. gathered = <<>> /\ session \in {"live", "closed"}
  BY <1>1 DEF SessionInv, SegmentPlaces, Failed, TornDownAlone, SessionTypes
<1>3. eventQueue' = eventQueue
  BY DEF SendAudio, SessionInv, SegmentPlaces
<1>4. receiveTask' \in {"running", "done", "failed"}
  BY DEF SendAudio, SessionInv, SessionTypes
<1>5. SessionTypes'
  BY <1>1, <1>3, <1>4, ConcatOfNumbers DEF SessionInv, SessionTypes
<1>6. SegmentPlaces'
  BY <1>1, <1>4 DEF SegmentPlaces, Failed
<1>7. InOrder'
  <2>1. AllEvents' = processed \o preserved \o <<>> \o eventQueue
    BY <1>1, <1>3 DEF AllEvents
  <2>2. AllEvents = processed \o <<>> \o preserved \o eventQueue
    BY <1>2 DEF AllEvents
  <2>3. AllEvents' = AllEvents
    BY <2>1, <2>2, NextHandedOn DEF SessionInv, SessionTypes
  <2> QED
    BY <1>1, <2>3 DEF SessionInv, InOrder, Failed
<1>8. AnsweredInOrder'
  BY <1>1 DEF SessionInv, AnsweredInOrder, Failed
<1>9. TornDownAlone'
  BY <1>1, <1>2 DEF TornDownAlone
<1> QED
  BY <1>5, <1>6, <1>7, <1>8, <1>9 DEF SessionInv

\* The next event is gathered after those gathered before.
LEMMA SessionGathers ==
  ASSUME SessionInv, ReceiveEvent
  PROVE  SessionInv'
<1>1. /\ at = "gather" /\ eventQueue # <<>>
      /\ gathered' = Append(gathered, Head(eventQueue)) /\ eventQueue' = Tail(eventQueue)
      /\ UNCHANGED <<at, session, receiveTask, eventsRead, preserved, processed, toolResults, answered>>
  BY DEF ReceiveEvent, toolVars
<1>2. preserved = <<>> /\ receiveTask # "none"
  BY <1>1 DEF SessionInv, SegmentPlaces
<1>3. SessionTypes'
  <2>1. eventQueue \in Seq(Nat) /\ gathered \in Seq(Nat)
    BY DEF SessionInv, SessionTypes
  <2>2. Head(eventQueue) \in Nat /\ Tail(eventQueue) \in Seq(Nat)
    BY <1>1, <2>1, HeadTailProperties
  <2>3. Append(gathered, Head(eventQueue)) \in Seq(Nat)
    BY <2>1, <2>2, AppendProperties
  <2> QED
    BY <1>1, <2>2, <2>3 DEF SessionInv, SessionTypes
<1>4. SegmentPlaces'
  BY <1>1, <1>2 DEF SegmentPlaces
<1>5. InOrder'
  <2>1. AllEvents' = processed \o Append(gathered, Head(eventQueue)) \o <<>> \o Tail(eventQueue)
    BY <1>1, <1>2 DEF AllEvents
  <2>2. AllEvents = processed \o gathered \o <<>> \o eventQueue
    BY <1>2 DEF AllEvents
  <2>3. AllEvents' = AllEvents
    <3>1. processed \in Seq(Nat) /\ gathered \in Seq(Nat) /\ eventQueue \in Seq(Nat)
      BY DEF SessionInv, SessionTypes
    <3> QED
      BY <1>1, <2>1, <2>2, <3>1, HeadHandedOn
  <2> QED
    BY <1>1, <2>3 DEF SessionInv, InOrder, Failed
<1>6. AnsweredInOrder'
  BY <1>1 DEF SessionInv, AnsweredInOrder, Failed
<1>7. TornDownAlone'
  BY <1>1 DEF SessionInv, TornDownAlone
<1> QED
  BY <1>3, <1>4, <1>5, <1>6, <1>7 DEF SessionInv

\* The events gathered are processed, and the results of their calls wait: the
\* calls are later than any before.
LEMMA SessionTickEnds ==
  ASSUME SessionInv, EndSessionTick
  PROVE  SessionInv'
<1> DEFINE answers == CallsAmong(gathered)
<1>1. /\ at = "gather" /\ at' = "between"
      /\ processed' = processed \o gathered /\ gathered' = <<>> /\ toolResults' = toolResults \o answers
      /\ UNCHANGED <<session, receiveTask, eventQueue, preserved, eventsRead, answered>>
  BY DEF EndSessionTick
<1>2. /\ processed \in Seq(Nat) /\ gathered \in Seq(Nat) /\ preserved = <<>> /\ eventQueue \in Seq(Nat)
      /\ toolResults \in Seq(Nat) /\ answered \in Seq(Nat) /\ eventsRead \in Nat
  BY <1>1 DEF SessionInv, SessionTypes, SegmentPlaces
<1>3. processed \o gathered \o <<>> \o eventQueue = Numbers(eventsRead)
  BY <1>1, <1>2 DEF SessionInv, InOrder, AllEvents, Failed
<1>4. \A i \in 1..Len(gathered) : gathered[i] = Len(processed) + i
  BY <1>2, <1>3, GatheredAreNext
<1>5. Len(processed) \in Nat /\ Len(gathered) \in Nat
  BY <1>2
<1>6. Increasing(gathered)
  BY <1>4, <1>5 DEF Increasing
<1>7. /\ answers \in Seq(Nat) /\ Increasing(answers)
      /\ \A k \in 1..Len(answers) : \E i \in 1..Len(gathered) : answers[k] = gathered[i]
  BY <1>2, <1>6, CallsInOrder
<1> HIDE DEF answers
<1>8. processed' \in Seq(Nat) /\ Len(processed') = Len(processed) + Len(gathered)
  <2> DEFINE T == Nat
  <2>1. processed \in Seq(T) /\ gathered \in Seq(T)
    BY <1>2
  <2> HIDE DEF T
  <2>2. processed \o gathered \in Seq(T) /\ Len(processed \o gathered) = Len(processed) + Len(gathered)
    BY <2>1, ConcatProperties
  <2> QED
    BY <1>1, <2>2 DEF T
<1>9. SessionTypes'
  <2>1. toolResults \o answers \in Seq(Nat)
    BY <1>2, <1>7, ConcatOfNumbers
  <2> QED
    BY <1>1, <1>8, <2>1, ConcatOfNumbers DEF SessionInv, SessionTypes
<1>10. SegmentPlaces'
  BY <1>1 DEF SessionInv, SegmentPlaces
<1>11. InOrder'
  <2>1. AllEvents' = (processed \o gathered) \o <<>> \o <<>> \o eventQueue
    BY <1>1, <1>2 DEF AllEvents
  <2>2. AllEvents' = processed \o gathered \o <<>> \o eventQueue
    BY <1>2, <2>1, FirstTakes, ConcatOfNumbers
  <2> QED
    BY <1>1, <1>3, <2>2 DEF InOrder
<1>12. AnsweredInOrder'
  <2> DEFINE old == answered \o toolResults
  <2>1. old \in Seq(Nat) /\ Increasing(old) /\ Bounded(old, Len(processed))
    BY <1>1, <1>2, ConcatOfNumbers DEF SessionInv, AnsweredInOrder, Failed
  <2>2. answered' \o toolResults' = old \o answers
    <3>1. (answered \o toolResults) \o answers = answered \o (toolResults \o answers)
      BY <1>2, <1>7, NumbersAssociate
    <3> QED
      BY <1>1, <3>1
  <2> HIDE DEF old
  <2>3. ASSUME NEW k \in 1..Len(answers)
        PROVE  Len(processed) < answers[k] /\ answers[k] <= Len(processed')
    <3>1. PICK i \in 1..Len(gathered) : answers[k] = gathered[i]
      BY <1>7
    <3>2. answers[k] = Len(processed) + i
      BY <1>4, <3>1
    <3> QED
      BY <1>5, <1>8, <3>2
  <2>4. Len(processed') \in Nat /\ Len(processed) <= Len(processed')
    BY <1>5, <1>8
  <2>5. Increasing(old \o answers) /\ Bounded(old \o answers, Len(processed'))
    BY <1>5, <1>7, <2>1, <2>3, <2>4, IncreasingOn
  <2> QED
    BY <2>2, <2>5 DEF AnsweredInOrder, Increasing, Bounded
<1>13. TornDownAlone'
  BY <1>1 DEF SessionInv, TornDownAlone
<1> QED
  BY <1>9, <1>10, <1>11, <1>12, <1>13 DEF SessionInv

\* The other actions leave the queues alone, but for disconnect(), which ends the run.
LEMMA SessionElse ==
  ASSUME SessionInv,
         \/ ServerCloses \/ ConnectionClosed \/ ReceiveFails
         \/ StartSessionTick \/ Connect \/ NoReconnection \/ Disconnect
         \/ UNCHANGED geminiVars
  PROVE  SessionInv'
<1>1. CASE Disconnect
  <2>1. /\ at' = "ended" /\ receiveTask' = "none" /\ session' = "none" /\ eventQueue' = <<>>
        /\ UNCHANGED <<preserved, gathered, processed, eventsRead, toolResults, answered>>
    BY <1>1 DEF Disconnect, toolVars
  <2>2. SessionTypes'
    BY <2>1, ConcatOfNumbers DEF SessionInv, SessionTypes
  <2> QED
    BY <2>1, <2>2 DEF SessionInv, SegmentPlaces, InOrder, AnsweredInOrder, Failed, TornDownAlone
<1>2. CASE ~Disconnect
  <2>1. UNCHANGED <<eventQueue, preserved, gathered, processed, eventsRead, toolResults, answered>>
    BY <1>2 DEF ServerCloses, ConnectionClosed, ReceiveFails, StartSessionTick, Connect, NoReconnection,
                geminiVars, events, toolVars
  <2>2. /\ SessionTypes' /\ TornDownAlone'
        /\ Failed => Failed'
        /\ at = "gather" <=> at' = "gather"
        /\ receiveTask' = "none" => receiveTask = "none"
    BY <1>2, <2>1 DEF ServerCloses, ConnectionClosed, ReceiveFails, StartSessionTick, Connect,
                NoReconnection, Fail, geminiVars, events, toolVars, going, SessionInv, SessionTypes,
                TornDownAlone, Failed
  <2>3. SegmentPlaces'
    BY <2>1, <2>2 DEF SessionInv, SegmentPlaces
  <2>4. InOrder'
    BY <2>1, <2>2 DEF SessionInv, InOrder, AllEvents
  <2>5. AnsweredInOrder'
    BY <2>1, <2>2 DEF SessionInv, AnsweredInOrder
  <2> QED
    BY <2>2, <2>3, <2>4, <2>5 DEF SessionInv
<1> QED
  BY <1>1, <1>2

LEMMA SessionStep == SessionInv /\ [GeminiNext]_geminiVars => SessionInv'
<1> SUFFICES ASSUME SessionInv, [GeminiNext]_geminiVars PROVE SessionInv'
  OBVIOUS
<1>1. ASSUME NEW kind \in {"audio", "call", "goAway", "handle"}, NEW last \in BOOLEAN,
             NEW late \in BOOLEAN, Receive(kind, last, late)
      PROVE  SessionInv'
  BY <1>1, SessionReceives
<1> QED
  BY <1>1, SessionFlushes, SessionReconnects, SessionSends, SessionGathers, SessionTickEnds,
     SessionElse DEF GeminiNext, SessionTick

LEMMA SessionStart == GeminiInit => SessionInv
<1> SUFFICES ASSUME GeminiInit PROVE SessionInv
  OBVIOUS
<1>1. Len(<<>>) = 0 /\ <<>> \in Seq(Nat) /\ <<>> \o <<>> = <<>>
  BY ConcatOfNumbers
<1>2. SessionTypes /\ SegmentPlaces /\ TornDownAlone
  BY <1>1 DEF GeminiInit, SessionTypes, SegmentPlaces, TornDownAlone
<1>3. Numbers(0) = <<>>
  <2>1. Numbers(0) \in Seq(Nat) /\ Len(Numbers(0)) = 0
    BY NumbersOn
  <2> QED
    BY <2>1, EmptySeq
<1>4. InOrder
  BY <1>1, <1>3 DEF GeminiInit, InOrder, AllEvents
<1>5. AnsweredInOrder
  BY <1>1 DEF GeminiInit, AnsweredInOrder, Increasing, Bounded
<1> QED
  BY <1>2, <1>4, <1>5 DEF SessionInv

\* What the loop reads reaches the adapter once and in order, and calls are
\* answered in order, none of them twice, over any number of reconnections, each
\* of which has the session to itself.
THEOREM Resumes == Spec => []ResumesCleanly
<1>1. Init => SessionInv
  BY SessionStart DEF Init
<1>2. [Next]_voiceVars => [GeminiNext]_geminiVars
  BY DEF Next, voiceVars, OrchestratorMoves, UserMoves, ContextMoves, AgentMoves, SessionMoves
<1>3. SessionInv => ResumesCleanly
  <2> SUFFICES ASSUME SessionInv PROVE ResumesCleanly
    OBVIOUS
  <2>1. ASSUME ~Failed
        PROVE  \A j, k \in 1..Len(answered) : j < k => answered[j] < answered[k]
    <3> DEFINE T == Nat
    <3>1. answered \in Seq(T) /\ toolResults \in Seq(T)
      BY DEF SessionInv, SessionTypes
    <3>2. Len(answered) \in Nat /\ Len(toolResults) \in Nat
      BY DEF SessionInv, SessionTypes
    <3> HIDE DEF T
    <3>3. /\ Len(answered \o toolResults) = Len(answered) + Len(toolResults)
          /\ \A i \in 1..(Len(answered) + Len(toolResults)) :
               (answered \o toolResults)[i]
                 = IF i <= Len(answered) THEN answered[i] ELSE toolResults[i - Len(answered)]
      BY <3>1, ConcatProperties
    <3>4. \A i \in 1..Len(answered) :
            i \in 1..Len(answered \o toolResults) /\ (answered \o toolResults)[i] = answered[i]
      BY <3>2, <3>3
    <3>5. Increasing(answered \o toolResults)
      BY <2>1 DEF SessionInv, AnsweredInOrder
    <3> QED
      BY <3>4, <3>5 DEF Increasing
  <2>2. EventsOnceInOrder
    BY <2>1 DEF SessionInv, InOrder, AllEvents, Failed, EventsOnceInOrder
  <2> QED
    BY <2>2 DEF ResumesCleanly, SessionInv
<1> QED
  BY <1>1, <1>2, <1>3, SessionStep, PTL DEF Spec
-----------------------------------------------------------------------------
(* The agent's audio.                                                       *)

Piece == Items \X (Nat \ {0})

AudioTypes ==
  /\ service \in {"openai", "xai", "qwen", "gemini", "nova"}
  /\ phase \in {"between", "tick"} /\ content \in {"none", "text", "audio"}
  /\ item \in 0..MaxItems /\ skip \in 0..MaxItems /\ currentItem \in 0..MaxItems
  /\ lastText \in 0..MaxItems /\ textOf \in [Items -> Items]
  /\ arrived \in [Items -> Nat]
  /\ chunks \in Seq(Piece) /\ buffered \in Seq(Piece) /\ playedAudio \in Seq(Piece)
  /\ truncated \in BOOLEAN /\ cut \in 0..(TickLength + 1)
  /\ Hushed \subseteq Items /\ mixed \subseteq Items

\* Audio is in a tick or between two.
Held == IF phase = "tick" THEN chunks ELSE buffered
OnePlace ==
  /\ phase = "between" => chunks = <<>> /\ ~truncated
  /\ phase = "tick" => buffered = <<>>

\* What the service has sent: nothing yet of later items; what was hushed, or
\* should have been, had begun; and Nova's audio comes in a content of its own.
Begun(i) == i \in Items /\ arrived[i] > 0
SentInTurn ==
  /\ \A i \in Items : i > item => arrived[i] = 0
  /\ \A i \in Hushed \cup ignored : Begun(i)
  /\ service = "nova" /\ Begun(item) => content = "audio"

\* The audio on its way is in order, and no more than was sent.
Sorted(s) == \A j, k \in 1..Len(s) : j < k => Before(s[j], s[k])
Received(p) == p[1] <= item /\ p[2] <= arrived[p[1]]
Ordered ==
  /\ Sorted(OnTheWay)
  /\ \A k \in 1..Len(OnTheWay) : Received(OnTheWay[k])

\* Whether audio of an item is kept when it comes.
Accepted(i) ==
  /\ i # skip
  /\ service = "nova" => {AudioContent(i), TextContent(textOf[i])} \cap finals # {}

\* The item to skip at the next interruption is the one being sent.
Tracked ==
  /\ service # "nova" => skip \in Hushed \cup {None}
  /\ service \in {"xai", "qwen", "gemini"} =>
       /\ Begun(item) => currentItem = item
       /\ currentItem # None => Begun(currentItem)
  /\ service = "openai" /\ Begun(item) /\ Held # <<>> => ItemOf(Last(Held)) = item

\* Once interrupted, an item is no longer accepted, and what is left of it only
\* in the tick of the interruption.
Silent ==
  /\ item \in Hushed => ~Accepted(item)
  /\ ~truncated => \A k \in 1..Len(Held) : ItemOf(Held[k]) \notin Hushed

\* An item not interrupted is on its way as a whole, or, of Nova's, not at all.
HeardOut(i) ==
  \/ CountOf(i, OnTheWay) = arrived[i]
  \/ service = "nova" /\ CountOf(i, OnTheWay) = 0
HeardWhole ==
  /\ \A i \in Items \ (Hushed \cup mixed) : HeardOut(i)
  /\ Begun(item) /\ item \notin Hushed \cup mixed =>
       CountOf(item, OnTheWay) = IF Accepted(item) THEN arrived[item] ELSE 0

AudioInv == AudioTypes /\ OnePlace /\ SentInTurn /\ Ordered /\ Tracked /\ Silent /\ HeardWhole
-----------------------------------------------------------------------------
(* Pieces in sequences.                                                    *)

\* Sequences of pieces, put together.
LEMMA PiecesConcat ==
  ASSUME NEW s \in Seq(Piece), NEW t \in Seq(Piece)
  PROVE  /\ s \o t \in Seq(Piece) /\ s \o <<>> = s
         /\ Len(s) \in Nat /\ Len(t) \in Nat /\ Len(s \o t) = Len(s) + Len(t)
         /\ \A k \in 1..Len(s) : s[k] \in Piece /\ k \in 1..Len(s \o t) /\ (s \o t)[k] = s[k]
         /\ \A k \in 1..Len(t) :
              t[k] \in Piece /\ Len(s) + k \in 1..Len(s \o t) /\ (s \o t)[Len(s) + k] = t[k]
         /\ \A k \in 1..Len(s \o t) :
              \/ k \in 1..Len(s) /\ (s \o t)[k] = s[k]
              \/ k - Len(s) \in 1..Len(t) /\ (s \o t)[k] = t[k - Len(s)]
<1>1. /\ s \o t \in Seq(Piece) /\ Len(s \o t) = Len(s) + Len(t)
      /\ \A i \in 1..(Len(s) + Len(t)) : (s \o t)[i] = IF i <= Len(s) THEN s[i] ELSE t[i - Len(s)]
  BY ConcatProperties
<1>2. Len(s) \in Nat /\ Len(t) \in Nat
  BY LenProperties
<1>3. (\A k \in 1..Len(s) : s[k] \in Piece) /\ (\A k \in 1..Len(t) : t[k] \in Piece)
  BY ElementOfSeq
<1>4. s \o <<>> = s
  BY ConcatEmptySeq
<1> DEFINE st == s \o t
<1>5. ASSUME NEW k \in 1..Len(s)
      PROVE  k \in 1..Len(st) /\ st[k] = s[k]
  <2>1. k \in 1..(Len(s) + Len(t)) /\ k <= Len(s)
    BY <1>2
  <2> QED
    BY <1>1, <2>1
<1>6. ASSUME NEW k \in 1..Len(t)
      PROVE  Len(s) + k \in 1..Len(st) /\ st[Len(s) + k] = t[k]
  <2>1. Len(s) + k \in 1..(Len(s) + Len(t)) /\ ~(Len(s) + k <= Len(s)) /\ Len(s) + k - Len(s) = k
    BY <1>2
  <2> QED
    BY <1>1, <2>1
<1>7. ASSUME NEW k \in 1..Len(st)
      PROVE  \/ k \in 1..Len(s) /\ st[k] = s[k]
             \/ k - Len(s) \in 1..Len(t) /\ st[k] = t[k - Len(s)]
  <2>1. k \in 1..(Len(s) + Len(t))
    BY <1>1
  <2>2. CASE k <= Len(s)
    <3>1. k \in 1..Len(s)
      BY <1>2, <2>1, <2>2
    <3> QED
      BY <1>5, <3>1
  <2>3. CASE ~(k <= Len(s))
    <3>1. k - Len(s) \in 1..Len(t)
      BY <1>2, <2>1, <2>3
    <3> QED
      BY <1>1, <2>1, <2>3, <3>1
  <2> QED
    BY <2>2, <2>3
<1> QED
  BY <1>1, <1>2, <1>3, <1>4, <1>5, <1>6, <1>7

LEMMA PiecesAssociate ==
  ASSUME NEW r \in Seq(Piece), NEW s \in Seq(Piece), NEW t \in Seq(Piece)
  PROVE  (r \o s) \o t = r \o (s \o t)
  BY ConcatAssociative

\* Sequences in order, one after the other.
LEMMA SortedOn ==
  ASSUME NEW s \in Seq(Piece), NEW t \in Seq(Piece), Sorted(s), Sorted(t),
         \A j \in 1..Len(s), k \in 1..Len(t) : Before(s[j], t[k])
  PROVE  Sorted(s \o t)
<1> DEFINE st == s \o t
<1>1. SUFFICES ASSUME NEW j \in 1..Len(st), NEW k \in 1..Len(st), j < k
               PROVE  Before(st[j], st[k])
  BY DEF Sorted
<1>2. Len(s) \in Nat /\ Len(t) \in Nat /\ Len(st) \in Nat
  BY PiecesConcat
<1>3. \A i \in 1..Len(st) : \/ i \in 1..Len(s) /\ st[i] = s[i]
                            \/ i - Len(s) \in 1..Len(t) /\ st[i] = t[i - Len(s)]
  BY PiecesConcat
<1> HIDE DEF st
<1>4. CASE k \in 1..Len(s) /\ st[k] = s[k]
  <2>1. j \in 1..Len(s) /\ ~(j - Len(s) \in 1..Len(t))
    BY <1>1, <1>2, <1>4
  <2>2. st[j] = s[j]
    BY <1>3, <2>1
  <2> QED
    BY <1>1, <1>4, <2>1, <2>2 DEF Sorted
<1>5. CASE k - Len(s) \in 1..Len(t) /\ st[k] = t[k - Len(s)]
  <2>1. CASE j \in 1..Len(s) /\ st[j] = s[j]
    BY <1>5, <2>1
  <2>2. CASE j - Len(s) \in 1..Len(t) /\ st[j] = t[j - Len(s)]
    <3>1. j - Len(s) < k - Len(s)
      BY <1>1, <1>2
    <3> QED
      BY <1>5, <2>2, <3>1 DEF Sorted
  <2> QED
    BY <1>3, <2>1, <2>2
<1> QED
  BY <1>3, <1>4, <1>5

\* What comes before the rest of a sequence in order is in order.
LEMMA SortedPart ==
  ASSUME NEW s \in Seq(Piece), NEW t \in Seq(Piece), Sorted(s \o t)
  PROVE  Sorted(s)
<1>1. ASSUME NEW j \in 1..Len(s), NEW k \in 1..Len(s), j < k
      PROVE  Before(s[j], s[k])
  <2>1. /\ j \in 1..Len(s \o t) /\ (s \o t)[j] = s[j]
        /\ k \in 1..Len(s \o t) /\ (s \o t)[k] = s[k]
    BY PiecesConcat
  <2>2. Before((s \o t)[j], (s \o t)[k])
    BY <1>1, <2>1 DEF Sorted
  <2> QED
    BY <2>1, <2>2
<1> QED
  BY <1>1 DEF Sorted

\* The positions of an item in a sequence, which CountOf counts.
Positions(i, s) == {k \in 1..Len(s) : ItemOf(s[k]) = i}

LEMMA PositionsFinite ==
  ASSUME NEW s \in Seq(Piece), NEW i
  PROVE  /\ IsFiniteSet(Positions(i, s)) /\ CountOf(i, s) = Cardinality(Positions(i, s))
         /\ CountOf(i, s) \in Nat
         /\ CountOf(i, s) = 0 <=> \A k \in 1..Len(s) : ItemOf(s[k]) # i
<1>1. IsFiniteSet(1..Len(s))
  <2>1. Len(s) \in Int
    BY LenProperties
  <2> QED
    BY <2>1, FS_Interval
<1>2. Positions(i, s) \in SUBSET (1..Len(s))
  BY DEF Positions
<1>3. IsFiniteSet(Positions(i, s))
  BY <1>1, <1>2, FS_Subset
<1>4. CountOf(i, s) = Cardinality(Positions(i, s))
  BY DEF CountOf, Positions
<1>5. Cardinality(Positions(i, s)) \in Nat
  BY <1>3, FS_CardinalityType
<1>6. Cardinality(Positions(i, s)) = 0 <=> Positions(i, s) = {}
  BY <1>3, FS_EmptySet
<1> QED
  BY <1>3, <1>4, <1>5, <1>6 DEF Positions

\* Where a sequence has one of a set of pieces.
Indices(S, s) == {k \in 1..Len(s) : s[k] \in S}

LEMMA IndicesFinite ==
  ASSUME NEW s \in Seq(Piece), NEW S
  PROVE  IsFiniteSet(Indices(S, s)) /\ Cardinality(Indices(S, s)) \in Nat
<1>1. IsFiniteSet(1..Len(s))
  <2>1. Len(s) \in Int
    BY LenProperties
  <2> QED
    BY <2>1, FS_Interval
<1>2. Indices(S, s) \in SUBSET (1..Len(s))
  BY DEF Indices
<1>3. IsFiniteSet(Indices(S, s))
  BY <1>1, <1>2, FS_Subset
<1> QED
  BY <1>3, FS_CardinalityType

LEMMA IndicesConcat ==
  ASSUME NEW s \in Seq(Piece), NEW t \in Seq(Piece), NEW S
  PROVE  Cardinality(Indices(S, s \o t)) = Cardinality(Indices(S, s)) + Cardinality(Indices(S, t))
<1> DEFINE first == Indices(S, s)
           second == Indices(S, t)
           shift == [k \in second |-> Len(s) + k]
           moved == {Len(s) + k : k \in second}
<1>1. Len(s) \in Nat /\ Len(t) \in Nat /\ s \o t \in Seq(Piece)
  BY PiecesConcat
<1>2. second \subseteq Nat /\ first \subseteq 1..Len(s) /\ second \subseteq 1..Len(t)
  BY <1>1 DEF Indices
<1>3. ExistsBijection(second, moved)
  <2> HIDE DEF second
  <2>1. shift \in [second -> moved]
    OBVIOUS
  <2>2. \A a, b \in second : shift[a] = shift[b] => a = b
    <3>1. \A a \in second : shift[a] = Len(s) + a /\ a \in Nat
      BY <1>2
    <3> HIDE DEF shift
    <3> QED
      BY <1>1, <3>1
  <2>3. \A m \in moved : \E k \in second : shift[k] = m
    OBVIOUS
  <2>4. shift \in Bijection(second, moved)
    BY <2>1, <2>2, <2>3 DEF Bijection, Injection, IsInjective, Surjection
  <2> QED
    BY <2>4 DEF ExistsBijection
<1>4. IsFiniteSet(first) /\ IsFiniteSet(second)
  BY IndicesFinite
<1>5. IsFiniteSet(moved) /\ Cardinality(moved) = Cardinality(second)
  BY <1>3, <1>4, FS_Bijection
<1>6. first \cap moved = {}
  <2>1. ASSUME NEW k \in second PROVE Len(s) + k \notin first
    <3>1. k \in 1..Len(t) /\ Len(t) \in Nat
      BY PiecesConcat DEF Indices
    <3>2. ~(Len(s) + k \in 1..Len(s))
      BY <1>1, <3>1
    <3> QED
      BY <1>2, <3>2
  <2> HIDE DEF first, second
  <2> QED
    BY <2>1
<1>7. Indices(S, s \o t) = first \cup moved
  <2>1. ASSUME NEW k \in Indices(S, s \o t) PROVE k \in first \cup moved
    <3>1. k \in 1..Len(s \o t) /\ (s \o t)[k] \in S
      BY DEF Indices
    <3>2. CASE k \in 1..Len(s) /\ (s \o t)[k] = s[k]
      BY <3>1, <3>2 DEF Indices
    <3>3. CASE k - Len(s) \in 1..Len(t) /\ (s \o t)[k] = t[k - Len(s)]
      <4>1. k - Len(s) \in second
        BY <3>1, <3>3 DEF Indices
      <4>2. k = Len(s) + (k - Len(s))
        BY <1>1, <3>1
      <4> HIDE DEF second
      <4> QED
        BY <4>1, <4>2
    <3> QED
      BY <3>1, <3>2, <3>3, PiecesConcat
  <2>2. ASSUME NEW k \in first PROVE k \in Indices(S, s \o t)
    <3>1. k \in 1..Len(s) /\ s[k] \in S
      BY DEF Indices
    <3>2. k \in 1..Len(s \o t) /\ (s \o t)[k] = s[k]
      BY <3>1, PiecesConcat
    <3> QED
      BY <3>1, <3>2 DEF Indices
  <2>3. ASSUME NEW k \in second PROVE Len(s) + k \in Indices(S, s \o t)
    <3>1. k \in 1..Len(t) /\ t[k] \in S
      BY DEF Indices
    <3>2. Len(s) + k \in 1..Len(s \o t) /\ (s \o t)[Len(s) + k] = t[k]
      BY <3>1, PiecesConcat
    <3> QED
      BY <3>1, <3>2 DEF Indices
  <2> HIDE DEF first, second
  <2> QED
    BY <2>1, <2>2, <2>3
<1>8. Cardinality(first \cup moved) = Cardinality(first) + Cardinality(moved) - Cardinality({})
  <2> HIDE DEF first, moved
  <2> QED
    BY <1>4, <1>5, <1>6, FS_Union
<1>9. Cardinality({}) = 0
  BY FS_EmptySet
<1>10. Cardinality(first) \in Nat /\ Cardinality(second) \in Nat
  BY <1>4, FS_CardinalityType
<1> HIDE DEF first, second, moved
<1>11. Cardinality(first \cup moved) = Cardinality(first) + Cardinality(second)
  BY <1>5, <1>8, <1>9, <1>10
<1> QED
  BY <1>1, <1>7, <1>11 DEF first, second

\* The pieces of an item in two sequences together.
LEMMA CountConcat ==
  ASSUME NEW s \in Seq(Piece), NEW t \in Seq(Piece), NEW i
  PROVE  CountOf(i, s \o t) = CountOf(i, s) + CountOf(i, t)
<1> DEFINE of == {p \in Piece : ItemOf(p) = i}
<1>1. ASSUME NEW u \in Seq(Piece) PROVE CountOf(i, u) = Cardinality(Indices(of, u))
  <2>1. \A k \in 1..Len(u) : u[k] \in Piece
    BY ElementOfSeq
  <2>2. Positions(i, u) = Indices(of, u)
    BY <2>1 DEF Positions, Indices
  <2> QED
    BY <2>2, PositionsFinite
<1> HIDE DEF of
<1>2. s \o t \in Seq(Piece)
  BY PiecesConcat
<1>3. Cardinality(Indices(of, s \o t)) = Cardinality(Indices(of, s)) + Cardinality(Indices(of, t))
  BY IndicesConcat
<1> QED
  BY <1>1, <1>2, <1>3

\* New pieces of an item: n of it, after those that have arrived, and none of another.
LEMMA NewPieces ==
  ASSUME NEW i \in Items, NEW n \in Nat, arrived \in [Items -> Nat]
  PROVE  /\ Pieces(i, n) \in Seq(Piece) /\ Len(Pieces(i, n)) = n
         /\ \A k \in 1..n : Pieces(i, n)[k] = <<i, arrived[i] + k>>
         /\ Sorted(Pieces(i, n))
         /\ CountOf(i, Pieces(i, n)) = n
         /\ \A j : j # i => CountOf(j, Pieces(i, n)) = 0
<1> DEFINE new == Pieces(i, n)
<1>1. arrived[i] \in Nat
  OBVIOUS
<1>2. \A k \in 1..n : new[k] = <<i, arrived[i] + k>>
  BY DEF Pieces
<1>3. new \in Seq(Piece) /\ Len(new) = n
  <2>1. ASSUME NEW k \in 1..n PROVE <<i, arrived[i] + k>> \in Piece
    <3>1. arrived[i] + k \in Nat \ {0}
      BY <1>1
    <3> QED
      BY <3>1 DEF Piece
  <2>2. new \in [1..n -> Piece]
    BY <2>1 DEF Pieces
  <2> QED
    BY <2>2, FunctionIsSeq
<1> HIDE DEF new
<1>4. Sorted(new)
  <2>1. ASSUME NEW j \in 1..n, NEW k \in 1..n, j < k PROVE Before(new[j], new[k])
    <3>1. new[j] = <<i, arrived[i] + j>> /\ new[k] = <<i, arrived[i] + k>>
      BY <1>2
    <3>2. arrived[i] + j < arrived[i] + k
      BY <1>1, <2>1
    <3> QED
      BY <3>1, <3>2 DEF Before
  <2> QED
    BY <1>3, <2>1 DEF Sorted
<1>5. \A k \in 1..n : ItemOf(new[k]) = i
  BY <1>2 DEF ItemOf
<1>6. CountOf(i, new) = n
  <2>1. Positions(i, new) = 1..n
    BY <1>3, <1>5 DEF Positions
  <2>2. Cardinality(1..n) = n
    <3>1. Cardinality(1..n) = IF 1 > n THEN 0 ELSE n - 1 + 1
      BY FS_Interval
    <3> QED
      BY <3>1
  <2> QED
    BY <1>3, <2>1, <2>2, PositionsFinite
<1>7. ASSUME NEW j, j # i PROVE CountOf(j, new) = 0
  BY <1>3, <1>5, <1>7, PositionsFinite
<1> QED
  BY <1>2, <1>3, <1>4, <1>6, <1>7 DEF new

\* A sequence cut in two.
LEMMA CutInTwo ==
  ASSUME NEW s \in Seq(Piece), NEW n \in 0..Len(s)
  PROVE  /\ FirstOf(n, s) \in Seq(Piece) /\ AfterFirst(n, s) \in Seq(Piece)
         /\ FirstOf(n, s) \o AfterFirst(n, s) = s
<1>1. Len(s) \in Nat /\ \A k \in 1..Len(s) : s[k] \in Piece
  BY LenProperties, ElementOfSeq
<1>2. SubSeq(s, 1, n) \in Seq(Piece)
  <2>1. \A k \in 1..n : s[k] \in Piece
    BY <1>1
  <2> QED
    BY <2>1, SubSeqProperties
<1>3. SubSeq(s, n + 1, Len(s)) \in Seq(Piece)
  <2>1. \A k \in (n + 1)..Len(s) : s[k] \in Piece
    BY <1>1
  <2>2. n + 1 \in Int /\ Len(s) \in Int
    BY <1>1
  <2> QED
    BY <2>1, <2>2, SubSeqProperties
<1>4. SubSeq(s, 1, n) \o SubSeq(s, n + 1, Len(s)) = SubSeq(s, 1, Len(s))
  <2>1. 1 \in 1..(Len(s) + 1) /\ n \in (1 - 1)..Len(s) /\ Len(s) \in n..Len(s)
    BY <1>1
  <2> QED
    BY <2>1, ConcatAdjacentSubSeq
<1>5. SubSeq(s, 1, Len(s)) = s
  BY SubSeqFull
<1> QED
  BY <1>2, <1>3, <1>4, <1>5 DEF FirstOf, AfterFirst
-----------------------------------------------------------------------------
(* The inductive invariant, action by action.                              *)

\* What the invariant says of the sequences.
LEMMA AudioFacts ==
  ASSUME AudioInv
  PROVE  /\ Held \in Seq(Piece) /\ OnTheWay = playedAudio \o Held /\ OnTheWay \in Seq(Piece)
         /\ Len(Held) \in Nat /\ Len(OnTheWay) \in Nat
         /\ \A k \in 1..Len(Held) : \E j \in 1..Len(OnTheWay) : Held[k] = OnTheWay[j]
         /\ \A k \in 1..Len(Held) : Begun(ItemOf(Held[k]))
         /\ item \in Nat /\ \A i \in Items : i \in Nat /\ i # None /\ arrived[i] \in Nat
         /\ \A i \in Items : ~Begun(i) => CountOf(i, OnTheWay) = 0
<1>1. Held \in Seq(Piece) /\ OnTheWay = playedAudio \o Held /\ playedAudio \in Seq(Piece)
  BY DEF AudioInv, AudioTypes, Held, OnTheWay
<1>2. OnTheWay \in Seq(Piece) /\ Len(Held) \in Nat
  BY <1>1, PiecesConcat
<1>3. \A k \in 1..Len(Held) : \E j \in 1..Len(OnTheWay) : Held[k] = OnTheWay[j]
  BY <1>1, PiecesConcat
<1>4. MaxItems \in Nat
  BY AudioAssumption
<1>5. item \in Nat /\ \A i \in Items : i \in Nat /\ i # None /\ arrived[i] \in Nat
  BY <1>4 DEF AudioInv, AudioTypes, Items, None
<1>6. ASSUME NEW j \in 1..Len(OnTheWay) PROVE Begun(ItemOf(OnTheWay[j]))
  <2>1. Received(OnTheWay[j]) /\ OnTheWay[j] \in Piece
    BY <1>2, ElementOfSeq DEF AudioInv, Ordered
  <2>2. OnTheWay[j][1] \in Items /\ OnTheWay[j][2] \in Nat \ {0}
    BY <2>1 DEF Piece
  <2> QED
    BY <1>5, <2>1, <2>2 DEF Received, Begun, ItemOf
<1>7. ASSUME NEW i \in Items, ~Begun(i) PROVE CountOf(i, OnTheWay) = 0
  BY <1>2, <1>6, <1>7, PositionsFinite
<1>8. Len(OnTheWay) \in Nat
  BY <1>2, LenProperties
<1> QED
  BY <1>1, <1>2, <1>3, <1>5, <1>6, <1>7, <1>8

LEMMA NothingCounted ==
  ASSUME NEW i
  PROVE  CountOf(i, <<>>) = 0
<1> DEFINE none == <<>>
<1>1. none \in Seq(Piece) /\ Len(none) = 0
  BY EmptySeq
<1> HIDE DEF none
<1>2. \A k \in 1..Len(none) : ItemOf(none[k]) # i
  BY <1>1
<1>3. CountOf(i, none) = 0
  BY <1>1, <1>2, PositionsFinite
<1> QED
  BY <1>3 DEF none

LEMMA AudioStart == AudioInit => AudioInv
<1> SUFFICES ASSUME AudioInit PROVE AudioInv
  OBVIOUS
<1>1. MaxItems \in Nat /\ TickLength \in Nat \ {0} /\ service \in Services
      /\ Services \subseteq {"openai", "xai", "qwen", "gemini", "nova"}
  BY AudioAssumption DEF AudioInit
<1>2. <<>> \in Seq(Piece)
  BY EmptySeq
<1>3. AudioTypes
  <2>1. textOf \in [Items -> Items] /\ arrived \in [Items -> Nat]
    BY DEF AudioInit
  <2>2. None \in 0..MaxItems /\ Unknown \in 0..(TickLength + 1)
    BY <1>1 DEF None, Unknown
  <2> QED
    BY <1>1, <1>2, <2>1, <2>2 DEF AudioInit, AudioTypes, Hushed
<1>4. OnTheWay = <<>> /\ Held = <<>> /\ Len(<<>>) = 0
  BY <1>2, PiecesConcat, EmptySeq DEF AudioInit, OnTheWay, Held
<1>5. \A i \in Items : arrived[i] = 0 /\ ~Begun(i)
  BY DEF AudioInit, Begun
<1>6. ~Begun(item) /\ Hushed = {} /\ ignored = {} /\ currentItem = None /\ skip = None
  BY DEF AudioInit, Begun, Items, None, Hushed
<1>7. OnePlace
  BY DEF AudioInit, OnePlace
<1>8. SentInTurn
  BY <1>5, <1>6 DEF SentInTurn
<1>9. Ordered
  BY <1>4 DEF Ordered, Sorted
<1>10. Tracked
  BY <1>4, <1>6 DEF Tracked
<1>11. Silent
  BY <1>4, <1>6 DEF Silent
<1>12. HeardWhole
  BY <1>4, <1>5, <1>6, NothingCounted DEF HeardWhole, HeardOut
<1> QED
  BY <1>3, <1>7, <1>8, <1>9, <1>10, <1>11, <1>12 DEF AudioInv

LEMMA AudioTickStarts == AudioInv /\ StartAudioTick => AudioInv'
<1> SUFFICES ASSUME AudioInv, StartAudioTick PROVE AudioInv'
  OBVIOUS
<1>1. AudioTypes'
  <2>1. <<>> \in Seq(Piece)
    BY EmptySeq
  <2>2. Unknown \in 0..(TickLength + 1)
    BY AudioAssumption DEF Unknown
  <2> QED
    BY <2>1, <2>2 DEF AudioInv, AudioTypes, StartAudioTick, serviceVars, historyVars, Hushed
<1>2. Held' = Held /\ OnTheWay' = OnTheWay /\ ~truncated /\ ~truncated'
  BY DEF AudioInv, OnePlace, StartAudioTick, Held, OnTheWay, historyVars
<1>3. UNCHANGED <<service, item, content, arrived, skip, currentItem, finals, textOf, Hushed, ignored,
                  mixed>>
  BY DEF StartAudioTick, serviceVars, historyVars, Hushed
<1>4. OnePlace'
  BY DEF StartAudioTick, OnePlace
<1>5. (\A i : Begun(i)' <=> Begun(i)) /\ (\A i : Accepted(i)' <=> Accepted(i))
  BY <1>3 DEF Begun, Accepted
<1>6. SentInTurn'
  BY <1>3, <1>5 DEF AudioInv, SentInTurn
<1>7. Ordered'
  BY <1>2, <1>3 DEF AudioInv, Ordered, Sorted, Received
<1>8. Tracked'
  BY <1>2, <1>3, <1>5 DEF AudioInv, Tracked
<1>9. Silent'
  BY <1>2, <1>3, <1>5 DEF AudioInv, Silent
<1>10. HeardWhole'
  BY <1>2, <1>3, <1>5 DEF AudioInv, HeardWhole, HeardOut
<1> QED
  BY <1>1, <1>4, <1>6, <1>7, <1>8, <1>9, <1>10 DEF AudioInv

\* What comes is kept when its item is accepted, which stays as it is; and the
\* item to skip at the next interruption is the one that came.
LEMMA DeltaEffect ==
  ASSUME AudioInv, NEW i \in Items, NEW n \in 1..MaxAudio, AudioDelta(i, n)
  PROVE  /\ phase = "tick" /\ item' = i /\ arrived' = [arrived EXCEPT ![i] = @ + n]
         /\ UNCHANGED <<service, phase, content, buffered, truncated, cut, playedAudio, mixed,
                        Hushed, ignored, finals, textOf, lastText>>
         /\ i \in {item, item + 1} /\ (service = "nova" => i = item /\ content = "audio")
         /\ Begun(i) => i = item
         /\ Accepted(i)' <=> Accepted(i)
         /\ Accepted(i) => chunks' = chunks \o Pieces(i, n) /\ i \notin Hushed
         /\ ~Accepted(i) => chunks' = chunks /\ (service # "nova" => i = skip /\ i \in Hushed)
         /\ skip' \in {skip, None}
         /\ service \in {"xai", "qwen", "gemini"} => currentItem' = i
         /\ currentItem' \in {currentItem, i}
<1>1. /\ phase = "tick" /\ item' = i /\ arrived' = [arrived EXCEPT ![i] = @ + n]
      /\ UNCHANGED <<service, phase, content, buffered, truncated, cut, playedAudio, mixed, Hushed,
                     ignored>>
      /\ (service = "nova" => i = item /\ content = "audio")
      /\ i \in {item, item + 1}
  BY DEF AudioDelta, historyVars, SendingItem, Hushed
<1>2. Begun(i) => i = item
  <2>1. i > item => ~Begun(i)
    BY AudioFacts DEF AudioInv, SentInTurn, Begun
  <2> QED
    BY <1>1, <2>1, AudioFacts
<1>3. i \in Hushed => i = item /\ ~Accepted(i)
  BY <1>2 DEF AudioInv, SentInTurn, Silent
<1>4. service \in {"openai", "xai", "qwen", "gemini", "nova"}
  BY DEF AudioInv, AudioTypes
<1>5. service # "nova" => skip \in Hushed \cup {None}
  BY DEF AudioInv, Tracked
<1>6. i # None
  BY AudioFacts
<1>7. service \in {"xai", "qwen", "gemini"} /\ i = skip => currentItem = i
  BY <1>3, <1>5, <1>6 DEF AudioInv, Tracked, SentInTurn
<1>8. CASE service = "openai"
  <2>1. OpenAIAudioDelta(i, n)
    BY <1>8 DEF AudioDelta
  <2> QED
    BY <1>1, <1>2, <1>3, <1>5, <1>6, <1>8, <2>1 DEF OpenAIAudioDelta, Keep, Discard, Accepted
<1>9. CASE service \in {"xai", "qwen", "gemini"}
  <2>1. XAIAudioDelta(i, n)
    BY <1>9 DEF AudioDelta, QwenAudioDelta, GeminiAudioDelta
  <2> QED
    BY <1>1, <1>2, <1>3, <1>5, <1>6, <1>7, <1>9, <2>1 DEF XAIAudioDelta, Keep, Discard, Accepted
<1>10. CASE service = "nova"
  <2>1. NovaAudioOutput(i, n)
    BY <1>10 DEF AudioDelta
  <2>2. UNCHANGED <<skip, finals, textOf, lastText>>
    BY <2>1 DEF NovaAudioOutput
  <2>3. Accepted(i)' <=> Accepted(i)
    BY <1>1, <2>2 DEF Accepted, AudioContent, TextContent
  <2>4. /\ Accepted(i) => chunks' = chunks \o Pieces(i, n)
        /\ ~Accepted(i) => chunks' = chunks
        /\ currentItem' \in {currentItem, i}
    BY <1>10, <2>1 DEF NovaAudioOutput, Keep, Discard, Accepted
  <2> QED
    BY <1>1, <1>2, <1>3, <1>10, <2>2, <2>3, <2>4
<1> QED
  BY <1>4, <1>8, <1>9, <1>10

\* New pieces go on what is on its way.
LEMMA PutOn ==
  ASSUME AudioInv, NEW i \in Items, NEW n \in 1..MaxAudio, AudioDelta(i, n), Accepted(i)
  PROVE  /\ Pieces(i, n) \in Seq(Piece)
         /\ Held' = Held \o Pieces(i, n) /\ OnTheWay' = OnTheWay \o Pieces(i, n)
         /\ CountOf(i, OnTheWay') = CountOf(i, OnTheWay) + n
         /\ \A j : j # i => CountOf(j, OnTheWay') = CountOf(j, OnTheWay)
         /\ n \in Nat \ {0}
<1> DEFINE new == Pieces(i, n)
           held == Held
<1>1. n \in Nat /\ n # 0 /\ arrived \in [Items -> Nat]
  BY AudioAssumption DEF AudioInv, AudioTypes
<1>2. new \in Seq(Piece) /\ CountOf(i, new) = n /\ \A j : j # i => CountOf(j, new) = 0
  BY <1>1, NewPieces
<1>3. Held' = held \o new /\ held = chunks /\ playedAudio' = playedAudio /\ phase = "tick" /\ phase' = "tick"
  BY DeltaEffect DEF Held
<1>4. OnTheWay = playedAudio \o held /\ OnTheWay' = playedAudio \o (held \o new)
  BY <1>3 DEF OnTheWay, Held
<1>5. playedAudio \in Seq(Piece) /\ held \in Seq(Piece)
  BY AudioFacts DEF AudioInv, AudioTypes
<1> HIDE DEF new, held
<1>6. playedAudio \o (held \o new) = (playedAudio \o held) \o new
  BY <1>2, <1>5, PiecesAssociate
<1>7. OnTheWay' = OnTheWay \o new
  BY <1>4, <1>6
<1>8. \A j : CountOf(j, OnTheWay') = CountOf(j, OnTheWay) + CountOf(j, new) /\ CountOf(j, OnTheWay) \in Nat
  <2> DEFINE way == OnTheWay
  <2>1. way \in Seq(Piece) /\ OnTheWay' = way \o new
    BY <1>7, AudioFacts
  <2> HIDE DEF way
  <2>2. \A j : CountOf(j, way \o new) = CountOf(j, way) + CountOf(j, new)
    BY <1>2, <2>1, CountConcat
  <2>3. \A j : CountOf(j, way) \in Nat
    BY <2>1, PositionsFinite
  <2> QED
    BY <2>1, <2>2, <2>3 DEF way
<1>9. CountOf(i, OnTheWay') = CountOf(i, OnTheWay) + n
  BY <1>2, <1>8
<1>10. \A j : j # i => CountOf(j, OnTheWay') = CountOf(j, OnTheWay)
  BY <1>2, <1>8
<1> QED
  BY <1>1, <1>2, <1>3, <1>7, <1>9, <1>10 DEF new, held

LEMMA AudioKept ==
  ASSUME AudioInv, NEW i \in Items, NEW n \in 1..MaxAudio, AudioDelta(i, n)
  PROVE  /\ AudioTypes' /\ OnePlace' /\ SentInTurn' /\ arrived[i] \in Nat
         /\ arrived'[i] = arrived[i] + n /\ \A j \in Items : j # i => arrived'[j] = arrived[j]
         /\ \A j \in Items : Begun(j) => Begun(j)'
<1>1. n \in Nat \ {0} /\ arrived \in [Items -> Nat] /\ i \in Nat /\ arrived[i] \in Nat /\ item \in Nat
  <2>1. MaxAudio \in Nat
    BY AudioAssumption
  <2>2. arrived \in [Items -> Nat]
    BY DEF AudioInv, AudioTypes
  <2> QED
    BY <2>1, <2>2, AudioFacts
<1>2. arrived' \in [Items -> Nat] /\ arrived'[i] = arrived[i] + n
      /\ \A j \in Items : j # i => arrived'[j] = arrived[j]
  BY <1>1, DeltaEffect
<1>3. AudioTypes'
  <2>1. chunks' \in Seq(Piece)
    <3>1. CASE Accepted(i)
      <4>1. Pieces(i, n) \in Seq(Piece) /\ chunks \in Seq(Piece) /\ chunks' = chunks \o Pieces(i, n)
        BY <3>1, PutOn, DeltaEffect DEF AudioInv, AudioTypes
      <4> QED
        BY <4>1, PiecesConcat
    <3>2. CASE ~Accepted(i)
      BY <3>2, DeltaEffect DEF AudioInv, AudioTypes
    <3> QED
      BY <3>1, <3>2
  <2>2. MaxItems \in Nat /\ i \in 0..MaxItems /\ None \in 0..MaxItems
    BY AudioAssumption DEF Items, None
  <2>3. skip' \in 0..MaxItems /\ currentItem' \in 0..MaxItems /\ item' \in 0..MaxItems
    BY <2>2, DeltaEffect DEF AudioInv, AudioTypes, AudioDelta
  <2>4. UNCHANGED <<service, phase, content, lastText, textOf, buffered, playedAudio, truncated, cut,
                    Hushed, ignored, mixed>>
    BY DeltaEffect
  <2>5. skip \in 0..MaxItems
    BY DEF AudioInv, AudioTypes
  <2> QED
    BY <1>2, <2>1, <2>3, <2>4 DEF AudioInv, AudioTypes
<1>4. OnePlace'
  BY DeltaEffect DEF AudioInv, OnePlace
<1>5. \A j \in Items : Begun(j) => Begun(j)'
  BY <1>1, <1>2 DEF Begun
<1>6. SentInTurn'
  <2>1. ASSUME NEW j \in Items, j > item' PROVE arrived'[j] = 0
    <3>1. item' = i /\ i \in {item, item + 1}
      BY DeltaEffect
    <3>2. j # i /\ j > item
      BY <1>1, <2>1, <3>1, AudioFacts
    <3> QED
      BY <1>2, <3>2 DEF AudioInv, SentInTurn
  <2>2. \A j \in Hushed' \cup ignored' : Begun(j)'
    BY <1>5, DeltaEffect DEF AudioInv, SentInTurn, Begun
  <2>3. service' = "nova" => content' = "audio"
    BY DeltaEffect
  <2> QED
    BY <2>1, <2>2, <2>3 DEF SentInTurn
<1> QED
  BY <1>1, <1>2, <1>3, <1>4, <1>5, <1>6

LEMMA AudioComes ==
  ASSUME AudioInv, NEW i \in Items, NEW n \in 1..MaxAudio, AudioDelta(i, n)
  PROVE  AudioInv'
<1>1. /\ AudioTypes' /\ OnePlace' /\ SentInTurn' /\ arrived[i] \in Nat
      /\ arrived'[i] = arrived[i] + n /\ (\A j \in Items : j # i => arrived'[j] = arrived[j])
      /\ \A j \in Items : Begun(j) => Begun(j)'
  BY AudioKept
<1>2. /\ item' = i /\ UNCHANGED <<service, phase, truncated, mixed, Hushed>>
      /\ i \in {item, item + 1} /\ (service = "nova" => i = item)
      /\ (Begun(i) => i = item) /\ (Accepted(i)' <=> Accepted(i))
      /\ (Accepted(i) => i \notin Hushed)
      /\ (~Accepted(i) => chunks' = chunks /\ (service # "nova" => i = skip /\ i \in Hushed))
      /\ skip' \in {skip, None}
      /\ (service \in {"xai", "qwen", "gemini"} => currentItem' = i)
  BY DeltaEffect
<1>3. n \in Nat \ {0} /\ item \in Nat /\ \A j \in Items : j \in Nat /\ j # None /\ arrived[j] \in Nat
  BY AudioFacts, AudioAssumption
<1>4. ~Accepted(i) => Held' = Held /\ OnTheWay' = OnTheWay
  BY DeltaEffect DEF Held, OnTheWay
<1>5. Held \in Seq(Piece) /\ OnTheWay \in Seq(Piece) /\ Len(OnTheWay) \in Nat
  BY AudioFacts
<1>6. \A k \in 1..Len(OnTheWay) : OnTheWay[k] \in Piece /\ Received(OnTheWay[k])
  BY <1>5, ElementOfSeq DEF AudioInv, Ordered
<1>7. ASSUME NEW p \in Piece, Received(p)
      PROVE  p[1] <= item' /\ p[2] <= arrived'[p[1]]
  <2>1. p[1] \in Items /\ p[2] \in Nat /\ p[1] \in Nat /\ p[1] <= item /\ p[2] <= arrived[p[1]]
    BY <1>3, <1>7 DEF Piece, Received
  <2>2. arrived'[p[1]] \in Nat /\ arrived[p[1]] <= arrived'[p[1]] /\ arrived[p[1]] \in Nat
    BY <1>1, <1>3, <2>1
  <2> QED
    BY <1>2, <1>3, <2>1, <2>2
<1>8. Ordered'
  <2>1. CASE Accepted(i)
    <3> DEFINE way == OnTheWay
               new == Pieces(i, n)
    <3>1. new \in Seq(Piece) /\ OnTheWay' = way \o new /\ Len(new) = n /\ Sorted(new)
          /\ \A k \in 1..n : new[k] = <<i, arrived[i] + k>>
      BY <1>3, <2>1, PutOn, NewPieces DEF AudioInv, AudioTypes
    <3>2. \A k \in 1..Len(way) : way[k] \in Piece /\ Received(way[k])
      BY <1>6
    <3>3. way \in Seq(Piece) /\ Sorted(way)
      BY <1>5 DEF AudioInv, Ordered
    <3> HIDE DEF way, new
    <3>4. ASSUME NEW j \in 1..Len(way), NEW k \in 1..Len(new) PROVE Before(way[j], new[k])
      <4>1. way[j] \in Piece /\ way[j][1] <= item /\ way[j][2] <= arrived[way[j][1]]
            /\ new[k] = <<i, arrived[i] + k>>
        BY <3>1, <3>2 DEF Received
      <4>2. way[j][1] \in Items /\ way[j][2] \in Nat
        BY <4>1 DEF Piece
      <4>3. way[j][1] <= i
        BY <1>2, <1>3, <4>1, <4>2
      <4>4. ASSUME way[j][1] = i PROVE way[j][2] < arrived[i] + k
        <5>1. way[j][2] <= arrived[i]
          BY <4>1, <4>4
        <5>2. k \in Nat \ {0}
          BY <1>3, <3>1
        <5> QED
          BY <1>1, <4>2, <5>1, <5>2
      <4>5. new[k][1] = i /\ new[k][2] = arrived[i] + k
        BY <4>1
      <4> QED
        BY <1>3, <4>2, <4>3, <4>4, <4>5 DEF Before
    <3>5. Sorted(way \o new)
      BY <3>1, <3>3, <3>4, SortedOn
    <3>6. ASSUME NEW k \in 1..Len(way \o new)
          PROVE  (way \o new)[k][1] <= item' /\ (way \o new)[k][2] <= arrived'[(way \o new)[k][1]]
      <4>1. CASE k \in 1..Len(way) /\ (way \o new)[k] = way[k]
        BY <1>7, <3>2, <4>1
      <4>2. CASE k - Len(way) \in 1..Len(new) /\ (way \o new)[k] = new[k - Len(way)]
        <5>1. k - Len(way) \in 1..n /\ (way \o new)[k] = <<i, arrived[i] + (k - Len(way))>>
          BY <3>1, <4>2
        <5>2. arrived[i] + (k - Len(way)) <= arrived[i] + n /\ i <= i
          BY <1>1, <1>3, <5>1
        <5> QED
          BY <1>1, <1>2, <5>1, <5>2
      <4> QED
        BY <3>1, <3>3, <4>1, <4>2, PiecesConcat
    <3> QED
      BY <3>1, <3>5, <3>6 DEF Ordered, Sorted, Received
  <2>2. CASE ~Accepted(i)
    BY <1>4, <1>6, <1>7, <2>2 DEF AudioInv, Ordered, Sorted, Received
  <2> QED
    BY <2>1, <2>2
<1>9. Begun(i)' /\ Begun(item)'
  BY <1>1, <1>2, <1>3 DEF Begun
<1>10. Tracked'
  <2>1. service' # "nova" => skip' \in Hushed' \cup {None}
    BY <1>2 DEF AudioInv, Tracked
  <2>2. service' \in {"xai", "qwen", "gemini"} => currentItem' = item' /\ Begun(currentItem)'
    BY <1>2, <1>9
  <2>3. ASSUME service' = "openai", Held' # <<>>
        PROVE  ItemOf(Last(Held')) = item'
    <3>1. CASE Accepted(i)
      <4> DEFINE held == Held
                 new == Pieces(i, n)
      <4>1. Held' = held \o new /\ held \in Seq(Piece) /\ new \in Seq(Piece) /\ Len(new) = n
            /\ \A k \in 1..n : new[k] = <<i, arrived[i] + k>>
        BY <1>3, <1>5, <3>1, PutOn, NewPieces DEF AudioInv, AudioTypes
      <4> HIDE DEF held, new
      <4>2. n \in 1..Len(new)
        BY <1>3, <4>1
      <4>3. Len(held \o new) = Len(held) + n /\ (held \o new)[Len(held) + n] = new[n]
        BY <4>1, <4>2, PiecesConcat
      <4>4. ItemOf(new[n]) = i
        BY <4>1, <4>2 DEF ItemOf
      <4> QED
        BY <1>2, <4>1, <4>3, <4>4 DEF Last
    <3>2. CASE ~Accepted(i)
      <4>1. i \in Hushed /\ Held' = Held
        BY <1>2, <1>4, <2>3, <3>2
      <4>2. i = item /\ Begun(item)
        BY <1>2, <4>1 DEF AudioInv, SentInTurn
      <4> QED
        BY <1>2, <2>3, <4>1, <4>2 DEF AudioInv, Tracked
    <3> QED
      BY <3>1, <3>2
  <2> QED
    BY <2>1, <2>2, <2>3 DEF Tracked
<1>11. Silent'
  <2>1. item' \in Hushed' => ~Accepted(item)'
    <3>1. i \in Hushed => ~Accepted(i)'
      BY <1>2
    <3> QED
      BY <1>2, <3>1 DEF Accepted
  <2>2. ASSUME ~truncated', NEW k \in 1..Len(Held') PROVE ItemOf(Held'[k]) \notin Hushed'
    <3>1. CASE Accepted(i)
      <4> DEFINE held == Held
                 new == Pieces(i, n)
      <4>1. Held' = held \o new /\ held \in Seq(Piece) /\ new \in Seq(Piece) /\ Len(new) = n
            /\ \A m \in 1..n : new[m] = <<i, arrived[i] + m>>
        BY <1>3, <1>5, <3>1, PutOn, NewPieces DEF AudioInv, AudioTypes
      <4>2. \A m \in 1..Len(held) : ItemOf(held[m]) \notin Hushed
        BY <1>2, <2>2 DEF AudioInv, Silent
      <4> HIDE DEF held, new
      <4>3. CASE k \in 1..Len(held) /\ (held \o new)[k] = held[k]
        BY <1>2, <4>1, <4>2, <4>3
      <4>4. CASE k - Len(held) \in 1..Len(new) /\ (held \o new)[k] = new[k - Len(held)]
        <5>1. (held \o new)[k] = <<i, arrived[i] + (k - Len(held))>>
          BY <4>1, <4>4
        <5> QED
          BY <1>2, <3>1, <4>1, <5>1 DEF ItemOf
      <4> QED
        BY <2>2, <4>1, <4>3, <4>4, PiecesConcat
    <3>2. CASE ~Accepted(i)
      BY <1>2, <1>4, <2>2, <3>2 DEF AudioInv, Silent
    <3> QED
      BY <3>1, <3>2
  <2> QED
    BY <2>1, <2>2 DEF Silent
<1>12. ASSUME NEW j \in Items, j # i PROVE CountOf(j, OnTheWay') = CountOf(j, OnTheWay)
  BY <1>4, <1>12, PutOn
<1>13. ASSUME i \notin Hushed \cup mixed
       PROVE  CountOf(i, OnTheWay') = IF Accepted(i) THEN arrived'[i] ELSE 0
  <2>1. CountOf(i, OnTheWay) = IF Accepted(i) THEN arrived[i] ELSE 0
    <3>1. CASE Begun(i)
      <4>1. i = item /\ Begun(item)
        BY <1>2, <3>1
      <4> QED
        BY <1>13, <4>1 DEF AudioInv, HeardWhole
    <3>2. CASE ~Begun(i)
      <4>1. arrived[i] = 0
        BY <1>3, <3>2 DEF Begun
      <4> QED
        BY <3>2, <4>1, AudioFacts
    <3> QED
      BY <3>1, <3>2
  <2>2. CASE Accepted(i)
    BY <1>1, <2>1, <2>2, PutOn
  <2>3. CASE ~Accepted(i)
    BY <1>4, <2>1, <2>3
  <2> QED
    BY <2>2, <2>3
<1>14. HeardWhole'
  <2>1. ASSUME NEW j \in Items, j \notin Hushed' \cup mixed' PROVE HeardOut(j)'
    <3>1. CASE j = i
      <4>1. ~Accepted(i) => service = "nova"
        BY <1>2, <2>1, <3>1
      <4>2. CountOf(i, OnTheWay') = IF Accepted(i) THEN arrived'[i] ELSE 0
        BY <1>2, <1>13, <2>1, <3>1
      <4> QED
        BY <1>2, <3>1, <4>1, <4>2 DEF HeardOut
    <3>2. CASE j # i
      <4>1. HeardOut(j)
        BY <1>2, <2>1 DEF AudioInv, HeardWhole
      <4> QED
        BY <1>1, <1>2, <1>12, <3>2, <4>1 DEF HeardOut
    <3> QED
      BY <3>1, <3>2
  <2>2. ASSUME item' \notin Hushed' \cup mixed'
        PROVE  CountOf(item', OnTheWay') = IF Accepted(item)' THEN arrived'[item'] ELSE 0
    <3>1. Accepted(item)' <=> Accepted(i)
      BY <1>2 DEF Accepted
    <3> QED
      BY <1>2, <1>13, <2>2, <3>1
  <2> QED
    BY <2>1, <2>2 DEF HeardWhole
<1> QED
  BY <1>1, <1>8, <1>10, <1>11, <1>14 DEF AudioInv

\* Text, and what announces it, leaves the audio alone; at most the next item
\* has its turn, of which there is no audio yet.
LEMMA TextComes ==
  ASSUME AudioInv,
         UNCHANGED <<service, phase, arrived, buffered, skip, tickVars, historyVars>>,
         AudioTypes', item' \in {item, item + 1},
         service' = "nova" /\ Begun(item)' => content' = "audio",
         service # "nova" => UNCHANGED currentItem,
         item' = item => ~Begun(item) \/ UNCHANGED <<finals, textOf>>
  PROVE  AudioInv'
<1>1. UNCHANGED <<service, phase, arrived, buffered, skip, chunks, truncated, playedAudio, mixed, Hushed,
                  ignored>>
  BY DEF tickVars, historyVars, Hushed
<1>2. Held' = Held /\ OnTheWay' = OnTheWay
  BY <1>1 DEF Held, OnTheWay
<1>3. item \in Nat /\ \A j \in Items : j \in Nat
  BY AudioFacts
<1>4. \A j : Begun(j)' <=> Begun(j)
  BY <1>1 DEF Begun
<1>5. ~Begun(item + 1)
  BY <1>3 DEF AudioInv, SentInTurn, Begun
<1>6. Begun(item)' <=> item' = item /\ Begun(item)
  BY <1>1, <1>3, <1>5 DEF Begun
<1>7. Begun(item)' => item' = item /\ (Accepted(item)' <=> Accepted(item))
  BY <1>1, <1>6 DEF Accepted
<1>8. OnePlace'
  BY <1>1 DEF AudioInv, OnePlace
<1>9. SentInTurn'
  <2>1. \A j \in Items : j > item' => j > item
    BY <1>3
  <2> QED
    BY <1>1, <1>4, <2>1 DEF AudioInv, SentInTurn
<1>10. Ordered'
  <2>1. ASSUME NEW k \in 1..Len(OnTheWay)
        PROVE  OnTheWay[k][1] <= item' /\ OnTheWay[k][2] <= arrived[OnTheWay[k][1]]
    <3>1. OnTheWay[k] \in Piece /\ Received(OnTheWay[k])
      BY AudioFacts, ElementOfSeq DEF AudioInv, Ordered
    <3>2. OnTheWay[k][1] \in Nat
      BY <1>3, <3>1 DEF Piece
    <3> QED
      BY <1>3, <3>1, <3>2 DEF Received
  <2> QED
    BY <1>1, <1>2, <2>1 DEF AudioInv, Ordered, Sorted, Received
<1>11. Tracked'
  BY <1>1, <1>2, <1>4, <1>6 DEF AudioInv, Tracked
<1>12. Silent'
  <2>1. item' \in Hushed' => Begun(item)'
    BY <1>1, <1>4 DEF AudioInv, SentInTurn, Begun
  <2> QED
    BY <1>1, <1>2, <1>7, <2>1 DEF AudioInv, Silent
<1>13. HeardWhole'
  BY <1>1, <1>2, <1>6, <1>7 DEF AudioInv, HeardWhole, HeardOut
<1> QED
  BY <1>8, <1>9, <1>10, <1>11, <1>12, <1>13 DEF AudioInv

LEMMA TranscriptComes ==
  ASSUME AudioInv, NEW i \in Items, TranscriptDelta(i)
  PROVE  AudioInv'
<1>1. /\ UNCHANGED <<service, phase, arrived, buffered, skip, tickVars, historyVars>>
      /\ UNCHANGED <<content, currentItem, finals, textOf>>
      /\ item' = i /\ lastText' \in {i, lastText}
  BY DEF TranscriptDelta
<1>2. item' \in {item, item + 1} /\ (service = "nova" => item' = item)
  BY DEF TranscriptDelta, SendingItem
<1>3. AudioTypes'
  <2>1. i \in 0..MaxItems
    BY AudioAssumption DEF Items
  <2> QED
    BY <1>1, <2>1 DEF AudioInv, AudioTypes, tickVars, historyVars, Hushed
<1>4. service' = "nova" /\ Begun(item)' => content' = "audio"
  <2>1. item' = item => (Begun(item)' <=> Begun(item))
    BY <1>1 DEF Begun
  <2> QED
    BY <1>1, <1>2, <2>1 DEF AudioInv, SentInTurn
<1> QED
  BY <1>1, <1>2, <1>3, <1>4, TextComes

LEMMA ContentStarts ==
  ASSUME AudioInv, NEW final \in BOOLEAN, NovaContentStart(final)
  PROVE  AudioInv'
<1>1. /\ UNCHANGED <<service, phase, arrived, buffered, skip, tickVars, historyVars>>
      /\ UNCHANGED lastText /\ service = "nova"
  BY DEF NovaContentStart
<1>2. item \in Nat /\ \A j \in Items : j \in Nat
  BY AudioFacts
<1>3. \A j : Begun(j)' <=> Begun(j)
  BY <1>1 DEF Begun
<1>4. CASE /\ item + 1 \in Items
           /\ item' = item + 1 /\ content' = "text"
           /\ currentItem' = None /\ UNCHANGED textOf
  <2>1. ~Begun(item)'
    BY <1>2, <1>3, <1>4 DEF AudioInv, SentInTurn, Begun
  <2>2. item + 1 \in 0..MaxItems /\ None \in 0..MaxItems
    BY <1>2, <1>4, AudioAssumption DEF Items, None
  <2>3. AudioTypes'
    BY <1>1, <1>4, <2>2 DEF AudioInv, AudioTypes, tickVars, historyVars, Hushed
  <2>4. item' # item
    BY <1>2, <1>4
  <2> QED
    BY <1>1, <1>4, <2>1, <2>3, <2>4, TextComes
<1>5. CASE /\ content = "text" /\ content' = "audio" /\ UNCHANGED item
           /\ textOf' = [textOf EXCEPT ![item] = IF lastText = None THEN @ ELSE lastText]
           /\ currentItem' = item
  <2>1. ~Begun(item)
    BY <1>1, <1>5 DEF AudioInv, SentInTurn
  <2>2. lastText # None => lastText \in Items
    BY AudioAssumption DEF AudioInv, AudioTypes, Items, None
  <2>3. textOf' \in [Items -> Items]
    BY <1>5, <2>2 DEF AudioInv, AudioTypes
  <2>4. AudioTypes'
    BY <1>1, <1>5, <2>3 DEF AudioInv, AudioTypes, tickVars, historyVars, Hushed
  <2> QED
    BY <1>1, <1>5, <2>1, <2>4, TextComes
<1>6. CASE currentItem' = None /\ UNCHANGED <<item, content, finals, textOf>>
  <2>1. None \in 0..MaxItems
    BY AudioAssumption DEF None
  <2>2. AudioTypes'
    BY <1>1, <1>6, <2>1 DEF AudioInv, AudioTypes, tickVars, historyVars, Hushed
  <2>3. Begun(item)' => content' = "audio"
    BY <1>1, <1>6 DEF AudioInv, SentInTurn, Begun
  <2> QED
    BY <1>1, <1>6, <2>2, <2>3, TextComes
<1> QED
  BY <1>4, <1>5, <1>6 DEF NovaContentStart

\* An interruption: what is being sent is the item to skip, or no content is
\* final any more.
LEMMA Interrupts ==
  ASSUME AudioInv, SpeechStarted
  PROVE  AudioInv'
<1>1. /\ phase = "tick" /\ phase' = "tick"
      /\ UNCHANGED <<service, item, content, arrived, buffered, currentItem, textOf, lastText,
                     chunks, playedAudio, mixed>>
  BY DEF SpeechStarted
<1>2. Held' = Held /\ OnTheWay' = OnTheWay /\ Held = chunks
  BY <1>1 DEF Held, OnTheWay
<1>3. \A j : Begun(j)' <=> Begun(j)
  BY <1>1 DEF Begun
<1>4. \A j : j \in Sent <=> Begun(j)
  BY DEF Begun, Sent
<1>5. CASE /\ service = "openai" /\ chunks = <<>> /\ UNCHANGED <<truncated, cut, skip, Hushed, finals>>
           /\ \A j \in ignored' : Begun(j)
  <2>1. \A j : Accepted(j)' <=> Accepted(j)
    BY <1>1, <1>5 DEF Accepted
  <2>2. AudioTypes' /\ OnePlace'
    BY <1>1, <1>5 DEF AudioInv, AudioTypes, OnePlace
  <2>3. SentInTurn' /\ Ordered' /\ Tracked'
    BY <1>1, <1>2, <1>3, <1>5 DEF AudioInv, SentInTurn, Ordered, Sorted, Received, Tracked
  <2>4. Silent' /\ HeardWhole'
    BY <1>1, <1>2, <1>3, <1>5, <2>1 DEF AudioInv, Silent, HeardWhole, HeardOut, Accepted
  <2> QED
    BY <2>2, <2>3, <2>4 DEF AudioInv
<1>6. ASSUME truncated' = TRUE, cut' \in {cut} \cup 0..TickLength, Hushed' = Hushed \cup Sent,
             skip' \in Sent \cup {None} \/ service = "nova", skip' \in 0..MaxItems,
             Begun(item) => skip' = item \/ (service = "nova" /\ finals' = {}), ignored' = {}
      PROVE  AudioInv'
  <2>1. Begun(item) => ~Accepted(item)'
    BY <1>1, <1>6 DEF Accepted
  <2>2. AudioTypes' /\ OnePlace'
    <3>1. cut' \in 0..(TickLength + 1)
      <4>1. TickLength \in Nat /\ cut \in 0..(TickLength + 1)
        BY AudioAssumption DEF AudioInv, AudioTypes
      <4> QED
        BY <1>6, <4>1
    <3> QED
      BY <1>1, <1>6, <3>1 DEF AudioInv, AudioTypes, OnePlace, Sent
  <2>3. \A j \in Hushed' : Begun(j)
    BY <1>4, <1>6 DEF AudioInv, SentInTurn
  <2>4. SentInTurn'
    BY <1>1, <1>3, <1>6, <2>3 DEF AudioInv, SentInTurn, Begun
  <2>5. Ordered'
    BY <1>1, <1>2 DEF AudioInv, Ordered, Sorted, Received
  <2>6. Tracked'
    BY <1>1, <1>2, <1>3, <1>6 DEF AudioInv, Tracked, Begun
  <2>7. Silent'
    BY <1>1, <1>6, <2>1, <2>3 DEF Silent
  <2>8. Begun(item) => item \in Hushed'
    BY <1>4, <1>6
  <2>9. HeardWhole'
    BY <1>1, <1>2, <1>3, <1>6, <2>8 DEF AudioInv, HeardWhole, HeardOut, Begun
  <2> QED
    BY <2>2, <2>4, <2>5, <2>6, <2>7, <2>9 DEF AudioInv
<1>6a. ignored' = {} => Hushed' = Hushed \cup Sent
  <2>1. bargedInto' = bargedInto \cup Sent
    BY DEF SpeechStarted
  <2>2. \A j \in ignored : j \in Sent
    BY <1>4 DEF AudioInv, SentInTurn
  <2> QED
    BY <2>1, <2>2 DEF Hushed
<1>7. CASE service = "openai" /\ ~(chunks = <<>>)
  <2>1. truncated' = TRUE /\ cut' \in 0..TickLength /\ skip' = ItemOf(Last(chunks))
        /\ ignored' = {} /\ Hushed' = Hushed \cup Sent
    BY <1>6a, <1>7 DEF SpeechStarted, OpenAISpeechStarted
  <2>2. Len(chunks) \in 1..Len(chunks)
    BY <1>2, <1>7, AudioFacts, EmptySeq
  <2>3. Begun(ItemOf(Last(chunks)))
    BY <1>2, <2>2, AudioFacts DEF Last
  <2>4. ItemOf(Last(chunks)) \in 0..MaxItems
    BY <2>3, AudioAssumption DEF Begun, Items
  <2>5. Begun(item) => skip' = item
    BY <1>2, <1>7, <2>1 DEF AudioInv, Tracked
  <2> QED
    BY <1>4, <1>6, <2>1, <2>3, <2>4, <2>5
<1>8. CASE service \in {"xai", "qwen", "gemini"}
  <2>1. Interrupted
    BY <1>8 DEF SpeechStarted, XAISpeechStarted, QwenSpeechStarted, GeminiInterruption
  <2>1a. ignored' = {} /\ Hushed' = Hushed \cup Sent
    BY <1>6a, <2>1 DEF Interrupted
  <2>2. currentItem \in Sent \cup {None} /\ (Begun(item) => currentItem = item)
    BY <1>4, <1>8 DEF AudioInv, Tracked
  <2> QED
    BY <1>6, <2>1, <2>1a, <2>2 DEF Interrupted, AudioInv, AudioTypes
<1>9. CASE service = "nova"
  <2>1. Interrupted /\ finals' = {}
    BY <1>9 DEF SpeechStarted, NovaBargeIn
  <2>2. ignored' = {} /\ Hushed' = Hushed \cup Sent
    BY <1>6a, <2>1 DEF Interrupted
  <2> QED
    BY <1>6, <1>9, <2>1, <2>2 DEF Interrupted, AudioInv, AudioTypes
<1>10. service \in {"openai", "xai", "qwen", "gemini", "nova"}
  BY DEF AudioInv, AudioTypes
<1>11. CASE service = "openai" /\ chunks = <<>>
  <2>1. /\ UNCHANGED <<truncated, cut, skip, finals>> /\ bargedInto' = bargedInto \cup Sent
        /\ ignored' = ignored \cup (Sent \ bargedInto)
    BY <1>11 DEF SpeechStarted, OpenAISpeechStarted
  <2>2. Hushed' = Hushed
    BY <2>1 DEF Hushed
  <2>3. \A j \in ignored' : Begun(j)
    BY <1>4, <2>1 DEF AudioInv, SentInTurn
  <2> QED
    BY <1>5, <1>11, <2>1, <2>2, <2>3
<1> QED
  BY <1>7, <1>8, <1>9, <1>10, <1>11

\* The end of a tick splits what it holds into what is played and the rest,
\* which is kept or, after an interruption, thrown away.
LEMMA SplitAtEnd ==
  ASSUME AudioInv
  PROVE  \E rest \in Seq(Piece) :
           /\ Played \in Seq(Piece) /\ Excess \in Seq(Piece)
           /\ Played \o rest = chunks
           /\ Excess = IF truncated THEN <<>> ELSE rest
<1>1. chunks \in Seq(Piece) /\ Len(chunks) \in Nat /\ TickLength \in Nat /\ cut \in Nat
  BY LenProperties, AudioAssumption DEF AudioInv, AudioTypes
<1> DEFINE m == IF Len(chunks) < TickLength THEN Len(chunks) ELSE TickLength
<1>2. m \in 0..Len(chunks) /\ m \in Nat
  BY <1>1
<1>3. Kept = FirstOf(m, chunks)
  BY DEF Kept
<1> HIDE DEF m
<1>4. /\ Kept \in Seq(Piece) /\ AfterFirst(m, chunks) \in Seq(Piece)
      /\ Kept \o AfterFirst(m, chunks) = chunks
  BY <1>1, <1>2, <1>3, CutInTwo
<1>5. Len(Kept) = m
  BY <1>1, <1>2, <1>3, SubSeqProperties DEF FirstOf
<1>6. Excess = IF truncated THEN <<>> ELSE AfterFirst(m, chunks)
  BY <1>5 DEF Excess
<1>7. Excess \in Seq(Piece)
  BY <1>4, <1>6, EmptySeq
<1>8. CASE truncated /\ cut < Len(Kept)
  <2>1. Played = FirstOf(cut, Kept) /\ cut \in 0..Len(Kept)
    BY <1>1, <1>2, <1>5, <1>8 DEF Played
  <2>2. Played \in Seq(Piece) /\ AfterFirst(cut, Kept) \in Seq(Piece)
        /\ Played \o AfterFirst(cut, Kept) = Kept
    BY <1>4, <2>1, CutInTwo
  <2> DEFINE played == Played
             later == AfterFirst(cut, Kept)
             last == AfterFirst(m, chunks)
  <2> HIDE DEF played, later, last
  <2>3. /\ played \in Seq(Piece) /\ later \in Seq(Piece) /\ last \in Seq(Piece)
        /\ (played \o later) \o last = chunks
    BY <1>4, <2>2 DEF played, later, last
  <2>4. (played \o later) \o last = played \o (later \o last)
    BY <2>3, PiecesAssociate
  <2>5. later \o last \in Seq(Piece)
    BY <2>3, PiecesConcat
  <2> QED
    BY <1>6, <1>7, <1>8, <2>2, <2>3, <2>4, <2>5 DEF played, last
<1>9. CASE ~(truncated /\ cut < Len(Kept))
  <2>1. Played = Kept
    BY <1>9 DEF Played
  <2> QED
    BY <1>4, <1>6, <1>7, <2>1
<1> QED
  BY <1>8, <1>9

LEMMA AudioTickEnds == AudioInv /\ EndAudioTick => AudioInv'
<1> SUFFICES ASSUME AudioInv, EndAudioTick PROVE AudioInv'
  OBVIOUS
<1>1. /\ phase = "tick" /\ phase' = "between" /\ buffered' = Excess
      /\ playedAudio' = playedAudio \o Played
      /\ mixed' = (IF truncated THEN mixed \cup ItemsIn(chunks) ELSE mixed)
      /\ chunks' = <<>> /\ truncated' = FALSE /\ cut' = Unknown
      /\ UNCHANGED <<skip, currentItem, finals, textOf, lastText, service, item, content, arrived,
                     Hushed, ignored>>
  BY DEF EndAudioTick, serviceVars, Hushed
<1>2. Held = chunks /\ Held' = Excess /\ OnTheWay = playedAudio \o chunks
      /\ OnTheWay' = playedAudio' \o Excess
  BY <1>1 DEF Held, OnTheWay
<1>3. PICK rest \in Seq(Piece) :
        /\ Played \in Seq(Piece) /\ Excess \in Seq(Piece) /\ Played \o rest = chunks
        /\ Excess = IF truncated THEN <<>> ELSE rest
  BY SplitAtEnd
<1>4. playedAudio \in Seq(Piece) /\ chunks \in Seq(Piece) /\ OnTheWay \in Seq(Piece)
  BY AudioFacts DEF AudioInv, AudioTypes
<1>5. /\ playedAudio' \in Seq(Piece) /\ OnTheWay = playedAudio' \o rest
      /\ OnTheWay' = (IF truncated THEN playedAudio' ELSE OnTheWay)
  <2> DEFINE before == playedAudio
             played == Played
  <2>1. before \in Seq(Piece) /\ played \in Seq(Piece) /\ played \o rest = chunks
        /\ playedAudio' = before \o played /\ OnTheWay = before \o chunks
    BY <1>1, <1>2, <1>3, <1>4
  <2> HIDE DEF before, played
  <2>2. before \o played \in Seq(Piece) /\ (before \o played) \o <<>> = before \o played
    BY <2>1, PiecesConcat
  <2>3. (before \o played) \o rest = before \o (played \o rest)
    BY <2>1, PiecesAssociate
  <2> QED
    BY <1>2, <1>3, <2>1, <2>2, <2>3
<1>6. (\A j : Begun(j)' <=> Begun(j)) /\ (\A j : Accepted(j)' <=> Accepted(j))
  BY <1>1 DEF Begun, Accepted
<1>7. AudioTypes'
  <2>1. ItemsIn(chunks) \subseteq Items
    <3>1. \A k \in 1..Len(chunks) : ItemOf(chunks[k]) \in Items
      BY <1>2, AudioFacts DEF Begun
    <3> QED
      BY <3>1 DEF ItemsIn
  <2>2. chunks' \in Seq(Piece) /\ Unknown \in 0..(TickLength + 1)
    BY <1>1, AudioAssumption, EmptySeq DEF Unknown
  <2> QED
    BY <1>1, <1>3, <1>5, <2>1, <2>2 DEF AudioInv, AudioTypes
<1>8. OnePlace'
  BY <1>1 DEF OnePlace
<1>9. SentInTurn'
  BY <1>1, <1>6 DEF AudioInv, SentInTurn
<1>10. CASE ~truncated
  <2>1. OnTheWay' = OnTheWay /\ mixed' = mixed /\ Excess = rest
    BY <1>1, <1>3, <1>5, <1>10
  <2>2. Ordered' /\ HeardWhole'
    BY <1>1, <1>6, <2>1 DEF AudioInv, Ordered, Sorted, Received, HeardWhole, HeardOut
  <2> DEFINE played == Played
  <2>3. played \o rest = chunks /\ played \in Seq(Piece)
    BY <1>3
  <2> HIDE DEF played
  <2>4. /\ Len(played) \in Nat /\ Len(rest) \in Nat /\ Len(chunks) = Len(played) + Len(rest)
        /\ \A k \in 1..Len(rest) : Len(played) + k \in 1..Len(chunks) /\ chunks[Len(played) + k] = rest[k]
    BY <2>3, PiecesConcat
  <2>5. ASSUME rest # <<>> PROVE chunks # <<>> /\ Last(rest) = Last(chunks)
    <3>1. Len(rest) \in 1..Len(rest)
      BY <2>4, <2>5, EmptySeq
    <3>2. chunks[Len(chunks)] = rest[Len(rest)] /\ Len(chunks) # 0
      BY <2>4, <3>1
    <3>3. chunks # <<>>
      BY <3>2, EmptySeq
    <3> QED
      BY <3>2, <3>3 DEF Last
  <2>6. Tracked'
    BY <1>1, <1>2, <1>6, <2>1, <2>5 DEF AudioInv, Tracked
  <2>7. \A k \in 1..Len(rest) : ItemOf(rest[k]) \notin Hushed
    BY <1>2, <1>10, <2>4 DEF AudioInv, Silent
  <2>8. Silent'
    BY <1>1, <1>2, <1>6, <2>1, <2>7 DEF AudioInv, Silent, Accepted
  <2> QED
    BY <1>7, <1>8, <1>9, <2>2, <2>6, <2>8 DEF AudioInv
<1>11. CASE truncated
  <2> DEFINE now == playedAudio'
  <2>1. now \in Seq(Piece) /\ OnTheWay = now \o rest /\ OnTheWay' = now
        /\ mixed' = mixed \cup ItemsIn(chunks) /\ Held' = <<>>
    BY <1>1, <1>2, <1>3, <1>5, <1>11
  <2> HIDE DEF now
  <2>2. Ordered'
    <3>1. Sorted(now)
      BY <2>1, SortedPart DEF AudioInv, Ordered
    <3>2. \A k \in 1..Len(now) : Received(now[k])
      BY <2>1, PiecesConcat DEF AudioInv, Ordered
    <3> QED
      BY <1>1, <2>1, <3>1, <3>2 DEF Ordered, Sorted, Received
  <2>3. ASSUME NEW i, i \notin ItemsIn(chunks) PROVE CountOf(i, OnTheWay) = CountOf(i, now)
    <3> DEFINE played == Played
    <3>1. played \o rest = chunks /\ played \in Seq(Piece)
      BY <1>3
    <3> HIDE DEF played
    <3>2. \A k \in 1..Len(rest) : ItemOf(rest[k]) # i
      BY <2>3, <3>1, PiecesConcat DEF ItemsIn
    <3>3. CountOf(i, rest) = 0
      BY <3>2, PositionsFinite
    <3> QED
      BY <2>1, <3>3, CountConcat, PositionsFinite
  <2>4. Tracked'
    BY <1>1, <1>6, <2>1 DEF AudioInv, Tracked
  <2>5. Silent'
    <3>1. Len(Held') = 0
      BY <2>1, EmptySeq
    <3>2. ~\E k : k \in 1..Len(Held')
      BY <3>1
    <3> QED
      BY <1>1, <1>6, <3>2 DEF AudioInv, Silent, Accepted
  <2>6. HeardWhole'
    BY <1>1, <1>6, <2>1, <2>3 DEF AudioInv, HeardWhole, HeardOut, Accepted, Begun
  <2> QED
    BY <1>7, <1>8, <1>9, <2>2, <2>4, <2>5, <2>6 DEF AudioInv
<1> QED
  BY <1>10, <1>11

LEMMA AudioUnchanged == AudioInv /\ UNCHANGED audioVars => AudioInv'
<1> SUFFICES ASSUME AudioInv, UNCHANGED audioVars PROVE AudioInv'
  OBVIOUS
<1>1. UNCHANGED <<service, phase, item, content, arrived, buffered, skip, currentItem, finals, textOf,
                  lastText, tickVars, historyVars>>
  BY DEF audioVars, adapterVars, serviceVars
<1>2. AudioTypes'
  BY <1>1 DEF AudioInv, AudioTypes, tickVars, historyVars, Hushed
<1>3. item' \in {item, item + 1}
  BY <1>1
<1>4. service' = "nova" /\ Begun(item)' => content' = "audio"
  BY <1>1 DEF AudioInv, SentInTurn, Begun
<1> QED
  BY <1>1, <1>2, <1>3, <1>4, TextComes

LEMMA AudioStep == AudioInv /\ [AudioNext]_audioVars => AudioInv'
  BY AudioTickStarts, AudioTickEnds, AudioComes, TranscriptComes, ContentStarts, Interrupts,
     AudioUnchanged DEF AudioNext

LEMMA AudioCorrect == Spec => []AudioInv
<1>1. Init => AudioInv
  BY AudioStart DEF Init
<1>2. [Next]_voiceVars => [AudioNext]_audioVars
  BY DEF Next, voiceVars, OrchestratorMoves, UserMoves, ContextMoves, AgentMoves, SessionMoves
<1> QED
  BY <1>1, <1>2, AudioStep, PTL DEF Spec

\* AnswersHeardWhole, of AudioTick: with every adapter, however its answers are
\* cut into chunks and ticks and whenever the user interrupts, the audio played
\* and on its way is in order, nothing twice, and of an answer nobody
\* interrupted nothing is missing.
THEOREM HeardWholly == Spec => []AnswersHeardWhole
<1>1. AudioInv => AnswersHeardWhole
  <2> SUFFICES ASSUME AudioInv PROVE AnswersHeardWhole
    OBVIOUS
  <2>1. ASSUME NEW k \in 1..(Len(OnTheWay) - 1) PROVE Before(OnTheWay[k], OnTheWay[k + 1])
    <3>1. k \in 1..Len(OnTheWay) /\ k + 1 \in 1..Len(OnTheWay) /\ k < k + 1
      BY AudioFacts
    <3> QED
      BY <3>1 DEF AudioInv, Ordered, Sorted
  <2>2. \A i \in Items \ (Hushed \cup mixed) : HeardOut(i)
    BY DEF AudioInv, HeardWhole
  <2> QED
    BY <2>1, <2>2 DEF AnswersHeardWhole, HeardOut
<1> QED
  BY <1>1, AudioCorrect, PTL

\* SilentAfterBargeIn, of AudioTick: after an interruption, but one that OpenAI's
\* adapter passes over, no step adds a piece of an interrupted answer to a tick,
\* and no later tick has any.
THEOREM Silenced == Spec => SilentAfterBargeIn
<1> DEFINE NoMore == \A i \in Hushed :
                       CountOf(i, chunks') <= IF phase = "tick" THEN CountOf(i, chunks) ELSE 0
<1>1. AudioInv /\ [AudioNext]_audioVars => [NoMore]_audioVars
  <2> SUFFICES ASSUME AudioInv, AudioNext, NEW i \in Hushed
               PROVE  CountOf(i, chunks') <= IF phase = "tick" THEN CountOf(i, chunks) ELSE 0
    OBVIOUS
  <2>1. chunks \in Seq(Piece) /\ CountOf(i, chunks) \in Nat
    BY PositionsFinite DEF AudioInv, AudioTypes
  <2>2. ASSUME chunks' = chunks, phase = "tick"
        PROVE  CountOf(i, chunks') <= IF phase = "tick" THEN CountOf(i, chunks) ELSE 0
    BY <2>1, <2>2
  <2>3. CASE StartAudioTick
    <3>1. Held = chunks' /\ ~truncated /\ phase # "tick"
      BY <2>3 DEF StartAudioTick, Held, AudioInv, OnePlace
    <3>2. CountOf(i, Held) = 0
      <4>1. Held \in Seq(Piece) /\ \A k \in 1..Len(Held) : ItemOf(Held[k]) # i
        BY <3>1, AudioFacts DEF AudioInv, Silent
      <4> QED
        BY <4>1, PositionsFinite
    <3> QED
      BY <3>1, <3>2
  <2>4. CASE EndAudioTick
    BY <2>1, <2>4, NothingCounted DEF EndAudioTick
  <2>5. ASSUME NEW j \in Items, NEW n \in 1..MaxAudio, AudioDelta(j, n)
        PROVE  CountOf(i, chunks') <= IF phase = "tick" THEN CountOf(i, chunks) ELSE 0
    <3>1. CASE Accepted(j)
      <4>1. chunks' = chunks \o Pieces(j, n) /\ i # j /\ phase = "tick"
        BY <2>5, <3>1, DeltaEffect
      <4>2. Pieces(j, n) \in Seq(Piece) /\ CountOf(i, Pieces(j, n)) = 0
        <5>1. n \in Nat /\ arrived \in [Items -> Nat]
          BY AudioAssumption DEF AudioInv, AudioTypes
        <5> QED
          BY <4>1, <5>1, NewPieces
      <4>3. CountOf(i, chunks \o Pieces(j, n)) = CountOf(i, chunks)
        BY <2>1, <4>2, CountConcat
      <4> QED
        BY <2>1, <4>1, <4>3
    <3>2. CASE ~Accepted(j)
      BY <2>2, <2>5, <3>2, DeltaEffect
    <3> QED
      BY <3>1, <3>2
  <2>6. CASE \E j \in Items : TranscriptDelta(j)
    BY <2>2, <2>6 DEF TranscriptDelta, tickVars
  <2>7. CASE \E final \in BOOLEAN : NovaContentStart(final)
    BY <2>2, <2>7 DEF NovaContentStart, tickVars
  <2>8. CASE SpeechStarted
    BY <2>2, <2>8 DEF SpeechStarted
  <2> QED
    BY <2>3, <2>4, <2>5, <2>6, <2>7, <2>8 DEF AudioNext
<1>2. [Next]_voiceVars => [AudioNext]_audioVars
  BY DEF Next, voiceVars, OrchestratorMoves, UserMoves, ContextMoves, AgentMoves, SessionMoves
<1> QED
  BY <1>1, <1>2, AudioCorrect, PTL DEF Spec, SilentAfterBargeIn
-----------------------------------------------------------------------------
(* The agent's text: the inductive invariant.                              *)

Counted == [audio : Nat, text : Nat, played : Nat, shown : Nat]

\* The audio that goes by a name: sent, and played.
SentUnder(name) == {p \in Piece : textOf[p[1]] = name /\ p[2] <= arrived[p[1]]}
PlayedUnder(name) == {k \in 1..Len(playedAudio) : textOf[ItemOf(playedAudio[k])] = name}

\* No more text is shown than there is, and no more audio is counted under a name
\* than was sent, nor less than was played.
TextCounted ==
  /\ utterances \in [Items -> Counted]
  /\ service # "nova" => \A i \in Items : textOf[i] = i
  /\ \A name \in Items :
       /\ utterances[name].shown <= utterances[name].text
       /\ IsFiniteSet(SentUnder(name)) /\ utterances[name].audio <= Cardinality(SentUnder(name))
       /\ Cardinality(PlayedUnder(name)) <= utterances[name].played
  /\ \A k \in 1..Len(Held) : utterances[textOf[ItemOf(Held[k])]].audio > 0

-----------------------------------------------------------------------------
(* The agent's text, action by action.                                     *)

\* The share, rounded up, of a text of which more audio is played than counted.
LEMMA ShareOfAll ==
  ASSUME NEW p \in Nat, NEW t \in Nat, NEW a \in Nat \ {0}
  PROVE  /\ (p * t + a - 1) \div a \in Int
         /\ p >= a => (p * t + a - 1) \div a >= t
<1> DEFINE x == p * t + a - 1
           q == x \div a
<1>1. p * t \in Nat
  OBVIOUS
<1>2. x \in Int /\ x = p * t + a - 1
  BY <1>1
<1> HIDE DEF x
<1>3. q \in Int /\ x < a * q + a
  BY <1>2
<1> HIDE DEF q
<1>4. ASSUME p >= a PROVE q >= t
  <2>1. SUFFICES ASSUME q + 1 <= t PROVE FALSE
    BY <1>3
  <2>2. PICK d \in Nat : p = a + d
    <3>1. p - a \in Nat
      BY <1>4
    <3> QED
      BY <3>1
  <2>3. PICK e \in Nat : t = q + 1 + e
    <3>1. t - (q + 1) \in Nat
      BY <1>3, <2>1
    <3> QED
      BY <1>3, <3>1
  <2>4. p * t = a * t + d * t /\ d * t \in Nat /\ a * t \in Nat
    BY <2>2
  <2>5. a * t = a * q + a + a * e /\ a * e \in Nat /\ a * q \in Int
    BY <1>3, <2>3
  <2> QED
    BY <1>2, <1>3, <2>4, <2>5
<1> QED
  BY <1>3, <1>4 DEF q, x

\* What is shown of a text, and that all of it is when all its audio is played.
LEMMA ShownIs ==
  ASSUME NEW u \in Counted, u.shown <= u.text
  PROVE  /\ Shown(u) \in Nat /\ Shown(u) <= u.text
         /\ u.audio > 0 /\ u.played >= u.audio => Shown(u) = u.text
<1> DEFINE share == (u.played * u.text + u.audio - 1) \div u.audio
<1>1. u.audio \in Nat /\ u.text \in Nat /\ u.played \in Nat /\ u.shown \in Nat
  BY DEF Counted
<1>2. u.audio # 0 => share \in Int /\ (u.played >= u.audio => share >= u.text)
  BY <1>1, ShareOfAll
<1>3. Shown(u) = LET end == IF share > u.text THEN u.text ELSE share
                 IN  IF u.audio = 0 \/ u.text = 0 \/ end < u.shown THEN u.shown ELSE end
  BY DEF Shown
<1> HIDE DEF share
<1> QED
  BY <1>1, <1>2, <1>3

LEMMA TextStarts == AudioInit => TextCounted
<1> SUFFICES ASSUME AudioInit PROVE TextCounted
  OBVIOUS
<1> DEFINE none == <<>>
<1>1. utterances \in [Items -> Counted]
  BY DEF AudioInit, Utterance, Counted
<1>2. \A i \in Items : textOf[i] = i /\ arrived[i] = 0
  BY DEF AudioInit
<1>3. none \in Seq(Piece) /\ Len(none) = 0
  BY EmptySeq
<1>4. playedAudio = none /\ Held = none
  BY DEF AudioInit, Held
<1> HIDE DEF none
<1>5. ASSUME NEW name \in Items
      PROVE  /\ utterances[name].shown <= utterances[name].text
             /\ IsFiniteSet(SentUnder(name)) /\ utterances[name].audio <= Cardinality(SentUnder(name))
             /\ Cardinality(PlayedUnder(name)) <= utterances[name].played
  <2>1. /\ utterances[name].shown = 0 /\ utterances[name].text = 0 /\ utterances[name].audio = 0
        /\ utterances[name].played = 0
    BY DEF AudioInit, Utterance
  <2>2. SentUnder(name) = {}
    <3>1. ASSUME NEW p \in Piece, p[2] <= arrived[p[1]] PROVE FALSE
      <4>1. p[1] \in Items /\ p[2] \in Nat \ {0}
        BY DEF Piece
      <4> QED
        BY <1>2, <3>1, <4>1
    <3> QED
      BY <3>1 DEF SentUnder
  <2>3. PlayedUnder(name) = {}
    BY <1>3, <1>4 DEF PlayedUnder
  <2>4. Cardinality({}) = 0 /\ IsFiniteSet({})
    BY FS_EmptySet
  <2> QED
    BY <2>1, <2>2, <2>3, <2>4
<1>6. \A k \in 1..Len(Held) : utterances[textOf[ItemOf(Held[k])]].audio > 0
  BY <1>3, <1>4
<1> QED
  BY <1>1, <1>2, <1>5, <1>6 DEF TextCounted

\* Steps that neither bring nor play audio; Nova names the audio of a new content.
LEMMA NamesKept ==
  ASSUME AudioInv, TextCounted, UNCHANGED <<service, arrived, playedAudio>>, Held' = Held,
         \A i \in Items : Begun(i) => textOf'[i] = textOf[i], service # "nova" => UNCHANGED textOf,
         utterances' \in [Items -> Counted],
         \A name \in Items : /\ utterances'[name].audio = utterances[name].audio
                             /\ utterances'[name].played = utterances[name].played
                             /\ utterances'[name].shown <= utterances'[name].text
  PROVE  TextCounted'
<1>1. ASSUME NEW p \in Piece, p[2] <= arrived[p[1]] PROVE Begun(p[1])
  <2>1. p[1] \in Items /\ p[2] \in Nat \ {0} /\ arrived[p[1]] \in Nat
    BY DEF Piece, AudioInv, AudioTypes
  <2> QED
    BY <1>1, <2>1 DEF Begun
<1>2. ASSUME NEW name \in Items PROVE SentUnder(name)' = SentUnder(name)
  BY <1>1 DEF SentUnder, Begun
<1>3. playedAudio \in Seq(Piece) /\ Len(playedAudio) \in Nat
  BY LenProperties DEF AudioInv, AudioTypes
<1>4. ASSUME NEW k \in 1..Len(playedAudio) PROVE Begun(ItemOf(playedAudio[k])) /\ ItemOf(playedAudio[k]) \in Items
  <2>1. OnTheWay = playedAudio \o Held /\ Held \in Seq(Piece)
    BY AudioFacts
  <2>2. k \in 1..Len(OnTheWay) /\ OnTheWay[k] = playedAudio[k] /\ playedAudio[k] \in Piece
    BY <1>3, <2>1, PiecesConcat
  <2>3. Received(playedAudio[k])
    BY <2>2 DEF AudioInv, Ordered
  <2> QED
    BY <1>1, <2>2, <2>3 DEF Received, ItemOf, Begun
<1>5. ASSUME NEW name \in Items PROVE PlayedUnder(name)' = PlayedUnder(name)
  BY <1>4 DEF PlayedUnder
<1>6. ASSUME NEW k \in 1..Len(Held) PROVE utterances'[textOf'[ItemOf(Held[k])]].audio > 0
  <2>1. Begun(ItemOf(Held[k])) /\ ItemOf(Held[k]) \in Items
    BY AudioFacts DEF Begun
  <2>2. textOf[ItemOf(Held[k])] \in Items /\ textOf'[ItemOf(Held[k])] = textOf[ItemOf(Held[k])]
    BY <2>1 DEF AudioInv, AudioTypes
  <2> QED
    BY <2>2 DEF TextCounted
<1>7. service' # "nova" => \A i \in Items : textOf'[i] = i
  BY DEF TextCounted
<1>8. ASSUME NEW name \in Items
      PROVE  /\ utterances'[name].shown <= utterances'[name].text
             /\ IsFiniteSet(SentUnder(name)') /\ utterances'[name].audio <= Cardinality(SentUnder(name)')
             /\ Cardinality(PlayedUnder(name)') <= utterances'[name].played
  BY <1>2, <1>5 DEF TextCounted
<1> QED
  BY <1>6, <1>7, <1>8 DEF TextCounted

LEMMA TextTickStarts == AudioInv /\ TextCounted /\ StartAudioTick => TextCounted'
<1> SUFFICES ASSUME AudioInv, TextCounted, StartAudioTick PROVE TextCounted'
  OBVIOUS
<1>1. UNCHANGED <<service, arrived, playedAudio, textOf, utterances>> /\ Held' = Held
  BY DEF StartAudioTick, serviceVars, historyVars, Held
<1> QED
  BY <1>1, NamesKept DEF TextCounted

LEMMA TextOfTranscript ==
  ASSUME AudioInv, TextCounted, NEW i \in Items, TranscriptDelta(i)
  PROVE  TextCounted'
<1> DEFINE m == IF service # "nova" \/ TextContent(i) \in finals THEN utterances[i].text + 1 ELSE utterances[i].text
<1>1. UNCHANGED <<service, arrived, playedAudio, textOf>> /\ Held' = Held
      /\ utterances' = [utterances EXCEPT ![i].text = m]
  BY DEF TranscriptDelta, tickVars, historyVars, Held
<1>2. utterances \in [Items -> Counted]
  BY DEF TextCounted
<1>3. utterances[i] \in Counted /\ m \in Nat /\ m >= utterances[i].text /\ utterances[i].shown \in Nat
      /\ utterances[i].text \in Nat
  BY <1>2 DEF Counted
<1> HIDE DEF m
<1>4. /\ utterances'[i] = [utterances[i] EXCEPT !.text = m]
      /\ \A name \in Items : name # i => utterances'[name] = utterances[name]
  BY <1>1, <1>2
<1>5. utterances' \in [Items -> Counted]
  BY <1>1, <1>2, <1>3 DEF Counted
<1>6. /\ utterances'[i].audio = utterances[i].audio /\ utterances'[i].played = utterances[i].played
      /\ utterances'[i].shown = utterances[i].shown /\ utterances'[i].text = m
  BY <1>3, <1>4 DEF Counted
<1>7. utterances[i].shown <= utterances[i].text
  BY DEF TextCounted
<1>8. utterances'[i].shown <= utterances'[i].text
  BY <1>3, <1>6, <1>7
<1>9. ASSUME NEW name \in Items
      PROVE  /\ utterances'[name].audio = utterances[name].audio
             /\ utterances'[name].played = utterances[name].played
             /\ utterances'[name].shown <= utterances'[name].text
  <2>1. CASE name = i
    BY <1>6, <1>8, <2>1
  <2>2. CASE name # i
    BY <1>4, <2>2 DEF TextCounted
  <2> QED
    BY <2>1, <2>2
<1> QED
  BY <1>1, <1>5, <1>9, NamesKept

LEMMA TextOfContent ==
  ASSUME AudioInv, TextCounted, NEW final \in BOOLEAN, NovaContentStart(final)
  PROVE  TextCounted'
<1>1. /\ UNCHANGED <<service, arrived, playedAudio, utterances>> /\ Held' = Held /\ service = "nova"
      /\ \/ UNCHANGED textOf
         \/ content = "text" /\ textOf' = [textOf EXCEPT ![item] = IF lastText = None THEN @ ELSE lastText]
  BY DEF NovaContentStart, tickVars, historyVars, Held
<1>2. content = "text" => ~Begun(item)
  BY <1>1 DEF AudioInv, SentInTurn
<1>3. \A i \in Items : Begun(i) => textOf'[i] = textOf[i]
  BY <1>1, <1>2 DEF AudioInv, AudioTypes
<1> QED
  BY <1>1, <1>3, NamesKept DEF TextCounted

LEMMA TextOfInterruption ==
  ASSUME AudioInv, TextCounted, SpeechStarted
  PROVE  TextCounted'
<1>1. UNCHANGED <<service, arrived, playedAudio, textOf, utterances>> /\ Held' = Held
  BY DEF SpeechStarted, Held
<1> QED
  BY <1>1, NamesKept DEF TextCounted

LEMMA TextUnchanged ==
  ASSUME AudioInv, TextCounted, UNCHANGED audioVars
  PROVE  TextCounted'
<1>1. UNCHANGED <<service, arrived, playedAudio, textOf, utterances>> /\ Held' = Held
  BY DEF audioVars, adapterVars, serviceVars, tickVars, historyVars, Held
<1> QED
  BY <1>1, NamesKept DEF TextCounted

\* A chunk that is kept is counted under the name of its item's text.
LEMMA DeltaCounts ==
  ASSUME AudioInv, TextCounted, NEW i \in Items, NEW n \in 1..MaxAudio, AudioDelta(i, n)
  PROVE  \/ chunks' = chunks /\ utterances' = utterances
         \/ chunks' = chunks \o Pieces(i, n) /\ utterances' = [utterances EXCEPT ![textOf[i]].audio = @ + n]
<1>1. service # "nova" => textOf[i] = i
  BY DEF TextCounted
<1>2. service \in {"openai", "xai", "qwen", "gemini", "nova"}
  BY DEF AudioInv, AudioTypes
<1>3. CASE service = "openai"
  <2>1. OpenAIAudioDelta(i, n)
    BY <1>3 DEF AudioDelta
  <2> QED
    BY <1>1, <1>3, <2>1 DEF OpenAIAudioDelta, Keep, Discard
<1>4. CASE service \in {"xai", "qwen", "gemini"}
  <2>1. XAIAudioDelta(i, n)
    BY <1>4 DEF AudioDelta, QwenAudioDelta, GeminiAudioDelta
  <2> QED
    BY <1>1, <1>4, <2>1 DEF XAIAudioDelta, Keep, Discard
<1>5. CASE service = "nova"
  <2>1. NovaAudioOutput(i, n)
    BY <1>5 DEF AudioDelta
  <2> QED
    BY <2>1 DEF NovaAudioOutput, Keep, Discard
<1> QED
  BY <1>2, <1>3, <1>4, <1>5

\* The audio that comes, kept or not, was sent under its name.
LEMMA SentMore ==
  ASSUME AudioInv, NEW i \in Items, NEW n \in 1..MaxAudio, AudioDelta(i, n), NEW name \in Items,
         IsFiniteSet(SentUnder(name))
  PROVE  /\ IsFiniteSet(SentUnder(name)') /\ Cardinality(SentUnder(name)) \in Nat
         /\ Cardinality(SentUnder(name)') = Cardinality(SentUnder(name)) + (IF name = textOf[i] THEN n ELSE 0)
<1> DEFINE a == arrived[i]
           new == {<<i, a + k>> : k \in 1..n}
           nth == [k \in 1..n |-> <<i, a + k>>]
           old == SentUnder(name)
<1>1. n \in Nat \ {0} /\ a \in Nat /\ textOf' = textOf /\ arrived'[i] = a + n
      /\ \A j \in Items : j # i => arrived'[j] = arrived[j]
  BY AudioKept, DeltaEffect, AudioAssumption
<1> HIDE DEF a
<1>2. IsFiniteSet(new) /\ Cardinality(new) = n
  <2>1. \A k \in 1..n : nth[k] = <<i, a + k>>
    OBVIOUS
  <2>2. nth \in [1..n -> new]
    OBVIOUS
  <2>3. \A j, k \in 1..n : nth[j] = nth[k] => j = k
    <3>1. \A j, k \in 1..n : a + j = a + k => j = k
      BY <1>1
    <3> HIDE DEF nth
    <3> QED
      BY <2>1, <3>1
  <2>4. \A p \in new : \E k \in 1..n : nth[k] = p
    OBVIOUS
  <2>5. nth \in Bijection(1..n, new)
    BY <2>2, <2>3, <2>4 DEF Bijection, Injection, IsInjective, Surjection
  <2>6. ExistsBijection(1..n, new)
    BY <2>5 DEF ExistsBijection
  <2>7. IsFiniteSet(1..n) /\ Cardinality(1..n) = n
    BY <1>1, FS_Interval
  <2> HIDE DEF new
  <2> QED
    BY <2>6, <2>7, FS_Bijection
<1>3. old \cap new = {}
  <2>1. ASSUME NEW k \in 1..n PROVE <<i, a + k>> \notin old
    <3>1. ~(a + k <= arrived[i])
      BY <1>1 DEF a
    <3> QED
      BY <3>1 DEF SentUnder
  <2> QED
    BY <2>1
<1>4. SentUnder(name)' = IF name = textOf[i] THEN old \cup new ELSE old
  <2>1. \A p \in Piece : p[1] \in Items /\ p[2] \in Nat \ {0} /\ p = <<p[1], p[2]>>
    BY DEF Piece
  <2>2. \A p \in Piece : p[1] # i => arrived'[p[1]] = arrived[p[1]]
    BY <1>1, <2>1
  <2>3. SentUnder(name)' = {p \in Piece : textOf[p[1]] = name /\ p[2] <= arrived'[p[1]]}
    BY <1>1 DEF SentUnder
  <2>4. ASSUME NEW p \in Piece, p[1] = i PROVE (p[2] <= a + n) <=> (p[2] <= a \/ p \in new)
    <3>1. ASSUME p[2] <= a + n, ~(p[2] <= a) PROVE p \in new
      <4>1. p[2] - a \in 1..n /\ p[2] = a + (p[2] - a)
        BY <1>1, <2>1, <3>1
      <4>2. p = <<i, a + (p[2] - a)>>
        BY <2>1, <2>4, <4>1
      <4> QED
        BY <4>1, <4>2
    <3>2. ASSUME p \in new PROVE p[2] <= a + n
      <4>1. PICK k \in 1..n : p = <<i, a + k>>
        BY <3>2
      <4> QED
        BY <1>1, <4>1
    <3>3. p[2] <= a => p[2] <= a + n
      BY <1>1, <2>1
    <3> QED
      BY <3>1, <3>2, <3>3
  <2>5. \A p \in new : p \in Piece /\ p[1] = i
    BY <1>1 DEF Piece
  <2> HIDE DEF new
  <2>6. \A p \in Piece : p[1] = i => arrived'[p[1]] = a + n /\ arrived[p[1]] = a
    BY <1>1 DEF a
  <2>7. CASE name = textOf[i]
    BY <2>2, <2>3, <2>4, <2>5, <2>6, <2>7 DEF SentUnder
  <2>8. CASE name # textOf[i]
    BY <2>2, <2>3, <2>8 DEF SentUnder
  <2> QED
    BY <2>7, <2>8
<1>5. IsFiniteSet(old) /\ Cardinality(old) \in Nat
  BY FS_CardinalityType
<1> HIDE DEF old, new
<1>6. IsFiniteSet(old \cup new) /\ Cardinality(old \cup new) = Cardinality(old) + n
  <2>1. IsFiniteSet(old \cup new) /\ Cardinality(old \cup new) = Cardinality(old) + Cardinality(new) - Cardinality(old \cap new)
    BY <1>2, <1>5, FS_Union
  <2>2. Cardinality(old \cap new) = 0
    BY <1>3, FS_EmptySet
  <2> QED
    BY <1>1, <1>2, <1>5, <2>1, <2>2
<1> QED
  BY <1>1, <1>4, <1>5, <1>6 DEF old

LEMMA TextOfAudio ==
  ASSUME AudioInv, TextCounted, NEW i \in Items, NEW n \in 1..MaxAudio, AudioDelta(i, n)
  PROVE  TextCounted'
<1> DEFINE own == textOf[i]
<1>1. /\ UNCHANGED <<service, textOf, playedAudio>> /\ phase = "tick" /\ phase' = "tick"
      /\ n \in Nat \ {0} /\ own \in Items
  <2>1. textOf \in [Items -> Items] /\ MaxAudio \in Nat
    BY AudioAssumption DEF AudioInv, AudioTypes
  <2>2. UNCHANGED <<service, phase, textOf, playedAudio>> /\ phase = "tick"
    BY DeltaEffect
  <2> QED
    BY <2>1, <2>2
<1>2. utterances \in [Items -> Counted]
  BY DEF TextCounted
<1>3. utterances[own] \in Counted
  BY <1>1, <1>2
<1> HIDE DEF own
<1>4. /\ utterances' \in [Items -> Counted]
      /\ \A name \in Items : /\ utterances'[name].played = utterances[name].played
                             /\ utterances'[name].shown = utterances[name].shown
                             /\ utterances'[name].text = utterances[name].text
                             /\ \/ utterances'[name].audio = utterances[name].audio
                                \/ name = own /\ utterances'[name].audio = utterances[name].audio + n
  <2>1. CASE utterances' = utterances
    BY <1>2, <2>1
  <2>2. CASE utterances' = [utterances EXCEPT ![own].audio = @ + n]
    <3>1. utterances[own].audio + n \in Nat
      BY <1>1, <1>3 DEF Counted
    <3> QED
      BY <1>1, <1>2, <2>2, <3>1 DEF Counted
  <2> QED
    BY <2>1, <2>2, DeltaCounts DEF own
<1>5. ASSUME NEW name \in Items
      PROVE  /\ utterances'[name].shown <= utterances'[name].text
             /\ IsFiniteSet(SentUnder(name)') /\ utterances'[name].audio <= Cardinality(SentUnder(name)')
             /\ Cardinality(PlayedUnder(name)') <= utterances'[name].played
  <2>1. /\ utterances[name].shown <= utterances[name].text
        /\ IsFiniteSet(SentUnder(name)) /\ utterances[name].audio <= Cardinality(SentUnder(name))
        /\ Cardinality(PlayedUnder(name)) <= utterances[name].played
    BY DEF TextCounted
  <2>2. /\ IsFiniteSet(SentUnder(name)') /\ Cardinality(SentUnder(name)) \in Nat
        /\ Cardinality(SentUnder(name)') = Cardinality(SentUnder(name)) + (IF name = own THEN n ELSE 0)
    BY <2>1, SentMore DEF own
  <2>3. PlayedUnder(name)' = PlayedUnder(name)
    BY <1>1 DEF PlayedUnder
  <2>4. utterances[name].audio \in Nat
    BY <1>2 DEF Counted
  <2>5. utterances'[name].audio <= Cardinality(SentUnder(name)')
    BY <1>1, <1>4, <2>1, <2>2, <2>4
  <2>6. utterances'[name].shown <= utterances'[name].text
    BY <1>4, <2>1
  <2> QED
    BY <1>4, <2>1, <2>2, <2>3, <2>5, <2>6
<1>6. ASSUME NEW k \in 1..Len(Held') PROVE utterances'[textOf[ItemOf(Held'[k])]].audio > 0
  <2>1. Held = chunks /\ Held' = chunks'
    BY <1>1 DEF Held
  <2>2. ASSUME NEW j \in 1..Len(chunks) PROVE utterances'[textOf[ItemOf(chunks[j])]].audio > 0
    <3> DEFINE name == textOf[ItemOf(chunks[j])]
    <3>1. ItemOf(chunks[j]) \in Items
      BY <2>1, AudioFacts DEF Begun
    <3>2. name \in Items
      BY <3>1 DEF AudioInv, AudioTypes
    <3>3. utterances[name].audio > 0
      BY <2>1 DEF TextCounted
    <3> HIDE DEF name
    <3>4. utterances[name].audio \in Nat
      BY <1>2, <3>2 DEF Counted
    <3>5. utterances'[name].audio = utterances[name].audio \/ utterances'[name].audio = utterances[name].audio + n
      BY <1>4, <3>2
    <3>6. utterances'[name].audio > 0
      BY <1>1, <3>3, <3>4, <3>5
    <3> QED
      BY <3>6 DEF name
  <2>3. CASE chunks' = chunks
    BY <2>1, <2>2, <2>3
  <2>4. CASE chunks' = chunks \o Pieces(i, n) /\ utterances' = [utterances EXCEPT ![own].audio = @ + n]
    <3> DEFINE new == Pieces(i, n)
    <3>1. new \in Seq(Piece) /\ Len(new) = n /\ \A j \in 1..n : ItemOf(new[j]) = i
      <4>1. arrived \in [Items -> Nat]
        BY DEF AudioInv, AudioTypes
      <4>2. new \in Seq(Piece) /\ Len(new) = n /\ \A j \in 1..n : new[j] = <<i, arrived[i] + j>>
        BY <1>1, <4>1, NewPieces
      <4> HIDE DEF new
      <4> QED
        BY <4>2 DEF ItemOf
    <3> HIDE DEF new
    <3>2. \/ k \in 1..Len(chunks) /\ Held'[k] = chunks[k]
          \/ k - Len(chunks) \in 1..Len(new) /\ Held'[k] = new[k - Len(chunks)]
      <4>1. chunks \in Seq(Piece)
        BY DEF AudioInv, AudioTypes
      <4>2. Held' = chunks \o new
        BY <2>1, <2>4 DEF new
      <4> QED
        BY <3>1, <4>1, <4>2, PiecesConcat
    <3>3. CASE k \in 1..Len(chunks) /\ Held'[k] = chunks[k]
      BY <2>2, <3>3
    <3>4. CASE k - Len(chunks) \in 1..Len(new) /\ Held'[k] = new[k - Len(chunks)]
      <4>1. ItemOf(Held'[k]) = i
        BY <3>1, <3>4
      <4>2. utterances'[own].audio = utterances[own].audio + n /\ utterances[own].audio \in Nat
        BY <1>1, <1>2, <1>3, <2>4 DEF Counted
      <4>3. utterances'[own].audio > 0
        BY <1>1, <4>2
      <4> QED
        BY <4>1, <4>3 DEF own
    <3> QED
      BY <3>2, <3>3, <3>4
  <2> QED
    BY <2>3, <2>4, DeltaCounts DEF own
<1>7. service' # "nova" => \A j \in Items : textOf'[j] = j
  BY <1>1 DEF TextCounted
<1> QED
  BY <1>1, <1>4, <1>5, <1>6, <1>7 DEF TextCounted

\* What the end of a tick keeps comes from the tick, and what is played of it
\* is no more than is counted as played.
LEMMA KeptAtEnd ==
  ASSUME AudioInv
  PROVE  /\ Kept \in Seq(Piece) /\ Excess \in Seq(Piece) /\ Played \in Seq(Piece)
         /\ \A k \in 1..Len(Kept) : \E j \in 1..Len(chunks) : Kept[k] = chunks[j]
         /\ \A k \in 1..Len(Excess) : \E j \in 1..Len(chunks) : Excess[k] = chunks[j]
         /\ \A S : Cardinality(Indices(S, Played)) <= Cardinality(Indices(S, Kept))
<1>1. chunks \in Seq(Piece) /\ Len(chunks) \in Nat /\ TickLength \in Nat /\ cut \in Nat
  BY LenProperties, AudioAssumption DEF AudioInv, AudioTypes
<1> DEFINE m == IF Len(chunks) < TickLength THEN Len(chunks) ELSE TickLength
<1>2. m \in 0..Len(chunks) /\ m \in Nat
  BY <1>1
<1>3. Kept = FirstOf(m, chunks)
  BY DEF Kept
<1> HIDE DEF m
<1> DEFINE kept == Kept
           rest == AfterFirst(m, chunks)
<1>4. kept \in Seq(Piece) /\ rest \in Seq(Piece) /\ kept \o rest = chunks
  BY <1>1, <1>2, <1>3, CutInTwo
<1>5. Len(Kept) = m
  BY <1>1, <1>2, <1>3, SubSeqProperties DEF FirstOf
<1>6. Excess = IF truncated THEN <<>> ELSE rest
  BY <1>5 DEF Excess
<1>7. Excess \in Seq(Piece)
  BY <1>4, <1>6, EmptySeq
<1> HIDE DEF rest
<1> HIDE DEF kept
<1>13. /\ \A k \in 1..Len(kept) : k \in 1..Len(kept \o rest) /\ (kept \o rest)[k] = kept[k]
       /\ \A k \in 1..Len(rest) :
            Len(kept) + k \in 1..Len(kept \o rest) /\ (kept \o rest)[Len(kept) + k] = rest[k]
  BY <1>4, PiecesConcat
<1>8. \A k \in 1..Len(kept) : \E j \in 1..Len(chunks) : kept[k] = chunks[j]
  BY <1>4, <1>13
<1>9. \A k \in 1..Len(rest) : \E j \in 1..Len(chunks) : rest[k] = chunks[j]
  BY <1>4, <1>13
<1> USE DEF kept
<1>10. \A k \in 1..Len(Excess) : \E j \in 1..Len(chunks) : Excess[k] = chunks[j]
  <2>1. CASE truncated
    <3>1. Len(Excess) = 0
      BY <1>6, <2>1, EmptySeq
    <3> QED
      BY <3>1
  <2>2. CASE ~truncated
    BY <1>6, <1>9, <2>2
  <2> QED
    BY <2>1, <2>2
<1>11. CASE truncated /\ cut < Len(Kept)
  <2> DEFINE played == Played
             later == AfterFirst(cut, Kept)
  <2>1. Played = FirstOf(cut, Kept) /\ cut \in 0..Len(Kept)
    BY <1>1, <1>2, <1>5, <1>11 DEF Played
  <2>2. played \in Seq(Piece) /\ later \in Seq(Piece) /\ played \o later = Kept
    BY <1>4, <2>1, CutInTwo
  <2> HIDE DEF played, later
  <2>3. ASSUME NEW S PROVE Cardinality(Indices(S, played)) <= Cardinality(Indices(S, Kept))
    <3>1. /\ Cardinality(Indices(S, Kept)) = Cardinality(Indices(S, played)) + Cardinality(Indices(S, later))
          /\ Cardinality(Indices(S, played)) \in Nat /\ Cardinality(Indices(S, later)) \in Nat
      BY <2>2, IndicesConcat, IndicesFinite
    <3> QED
      BY <3>1
  <2> QED
    BY <1>4, <1>7, <1>8, <1>10, <2>2, <2>3 DEF played
<1>12. CASE ~(truncated /\ cut < Len(Kept))
  <2>1. Played = Kept
    BY <1>12 DEF Played
  <2>2. ASSUME NEW S PROVE Cardinality(Indices(S, Played)) <= Cardinality(Indices(S, Kept))
    <3>1. Cardinality(Indices(S, Kept)) \in Nat
      BY <1>4, IndicesFinite
    <3> QED
      BY <2>1, <3>1
  <2> QED
    BY <1>4, <1>7, <1>8, <1>10, <2>1, <2>2
<1> QED
  BY <1>11, <1>12

\* The pieces that go by a name.
Named(name) == {p \in Piece : textOf[ItemOf(p)] = name}

LEMMA NamedIn ==
  ASSUME NEW s \in Seq(Piece), NEW name
  PROVE  Indices(Named(name), s) = {k \in 1..Len(s) : textOf[ItemOf(s[k])] = name}
<1>1. \A k \in 1..Len(s) : s[k] \in Piece
  BY ElementOfSeq
<1> QED
  BY <1>1 DEF Indices, Named

\* The transcript of a name at the end of a tick.
LEMMA TranscriptAtEnd ==
  ASSUME AudioInv, TextCounted, NEW name \in Items, EndAudioTick
  PROVE  /\ utterances'[name] \in Counted
         /\ utterances'[name].audio = utterances[name].audio
         /\ utterances'[name].text = utterances[name].text
         /\ utterances'[name].played = utterances[name].played + Cardinality(Indices(Named(name), Kept))
         /\ utterances'[name].shown <= utterances'[name].text
         /\ (/\ utterances[name].audio > 0 /\ Indices(Named(name), Kept) # {}
             /\ utterances'[name].played >= utterances[name].audio)
            => utterances'[name].shown = utterances[name].text
<1> DEFINE n == Cardinality(Indices(Named(name), Kept))
           old == utterances[name]
           u == [old EXCEPT !.played = @ + n]
<1>1. Kept \in Seq(Piece)
  BY KeptAtEnd
<1>2. n \in Nat /\ (n = 0 <=> Indices(Named(name), Kept) = {})
  BY <1>1, IndicesFinite, FS_EmptySet
<1>3. n = Cardinality({k \in 1..Len(Kept) : textOf[ItemOf(Kept[k])] = name})
  BY <1>1, NamedIn
<1>4. utterances'[name] = ProportionalTranscript(name)
  BY DEF EndAudioTick
<1>5. ProportionalTranscript(name) = IF n = 0 THEN old ELSE [u EXCEPT !.shown = Shown(u)]
  BY <1>3 DEF ProportionalTranscript
<1>6. old \in Counted /\ old.shown <= old.text
  BY DEF TextCounted
<1> HIDE DEF n, old
<1>7. /\ u \in Counted /\ u.audio = old.audio /\ u.text = old.text /\ u.played = old.played + n
      /\ u.shown = old.shown /\ old.played \in Nat
  BY <1>2, <1>6 DEF Counted
<1> HIDE DEF u
<1>8. Shown(u) \in Nat /\ Shown(u) <= u.text /\ (u.audio > 0 /\ u.played >= u.audio => Shown(u) = u.text)
  BY <1>6, <1>7, ShownIs
<1>9. CASE n = 0
  BY <1>2, <1>4, <1>5, <1>6, <1>7, <1>9 DEF n, old
<1>10. CASE n # 0
  <2> DEFINE v == [u EXCEPT !.shown = Shown(u)]
  <2>1. /\ v \in Counted /\ v.audio = u.audio /\ v.text = u.text /\ v.played = u.played
        /\ v.shown = Shown(u)
    BY <1>7, <1>8 DEF Counted
  <2>2. utterances'[name] = v
    BY <1>4, <1>5, <1>10
  <2> HIDE DEF v
  <2> QED
    BY <1>7, <1>8, <2>1, <2>2 DEF n, old
<1> QED
  BY <1>9, <1>10

LEMMA TextTickEnds == AudioInv /\ TextCounted /\ EndAudioTick => TextCounted'
<1> SUFFICES ASSUME AudioInv, TextCounted, EndAudioTick PROVE TextCounted'
  OBVIOUS
<1>1. /\ phase = "tick" /\ phase' = "between" /\ buffered' = Excess
      /\ playedAudio' = playedAudio \o Played
      /\ UNCHANGED <<textOf, service, arrived>> /\ DOMAIN utterances' = Items
      /\ utterances' = [i \in Items |-> utterances'[i]]
  BY DEF EndAudioTick, serviceVars
<1>2. Held = chunks /\ Held' = Excess
  BY <1>1 DEF Held
<1>3. utterances' \in [Items -> Counted]
  BY <1>1, TranscriptAtEnd
<1>4. ASSUME NEW name \in Items
      PROVE  /\ utterances'[name].shown <= utterances'[name].text
             /\ IsFiniteSet(SentUnder(name)') /\ utterances'[name].audio <= Cardinality(SentUnder(name)')
             /\ Cardinality(PlayedUnder(name)') <= utterances'[name].played
  <2> DEFINE before == playedAudio
             now == Played
             n == Cardinality(Indices(Named(name), Kept))
  <2>1. before \in Seq(Piece) /\ now \in Seq(Piece) /\ Kept \in Seq(Piece)
    BY KeptAtEnd DEF AudioInv, AudioTypes
  <2>2. before \o now \in Seq(Piece)
    BY <2>1, PiecesConcat
  <2>3. PlayedUnder(name) = Indices(Named(name), before)
    BY <2>1, NamedIn DEF PlayedUnder
  <2>4. PlayedUnder(name)' = {k \in 1..Len(before \o now) : textOf[ItemOf((before \o now)[k])] = name}
    BY <1>1 DEF PlayedUnder
  <2>5. Cardinality(Indices(Named(name), now)) <= n
    BY KeptAtEnd
  <2> HIDE DEF before, now
  <2>6. Cardinality(PlayedUnder(name)') = Cardinality(Indices(Named(name), before)) + Cardinality(Indices(Named(name), now))
    <3>1. PlayedUnder(name)' = Indices(Named(name), before \o now)
      BY <2>2, <2>4, NamedIn
    <3> QED
      BY <2>1, <3>1, IndicesConcat
  <2>7. /\ Cardinality(Indices(Named(name), before)) \in Nat /\ Cardinality(Indices(Named(name), now)) \in Nat
        /\ n \in Nat
    BY <2>1, IndicesFinite
  <2> HIDE DEF n
  <2>8. utterances'[name].played = utterances[name].played + n /\ utterances[name].played \in Nat
    BY TranscriptAtEnd DEF TextCounted, Counted, n
  <2>9. Cardinality(Indices(Named(name), before)) <= utterances[name].played
    BY <2>3 DEF TextCounted
  <2>10. Cardinality(PlayedUnder(name)') <= utterances'[name].played
    BY <2>5, <2>6, <2>7, <2>8, <2>9
  <2>11. SentUnder(name)' = SentUnder(name)
    BY <1>1 DEF SentUnder
  <2>12. utterances'[name].audio = utterances[name].audio /\ utterances'[name].shown <= utterances'[name].text
    BY TranscriptAtEnd
  <2> QED
    BY <2>10, <2>11, <2>12 DEF TextCounted
<1>5. ASSUME NEW k \in 1..Len(Held') PROVE utterances'[textOf'[ItemOf(Held'[k])]].audio > 0
  <2>1. PICK j \in 1..Len(chunks) : Held'[k] = chunks[j]
    BY <1>2, KeptAtEnd
  <2> DEFINE name == textOf[ItemOf(chunks[j])]
  <2>2. ItemOf(chunks[j]) \in Items
    BY <1>2, AudioFacts DEF Begun
  <2>3. name \in Items
    BY <2>2 DEF AudioInv, AudioTypes
  <2>4. utterances[name].audio > 0
    BY <1>2 DEF TextCounted
  <2> HIDE DEF name
  <2>5. utterances'[name].audio = utterances[name].audio
    BY <2>3, TranscriptAtEnd
  <2> QED
    BY <1>1, <2>1, <2>4, <2>5 DEF name
<1>6. service' # "nova" => \A j \in Items : textOf'[j] = j
  BY <1>1 DEF TextCounted
<1> QED
  BY <1>3, <1>4, <1>5, <1>6 DEF TextCounted

LEMMA TextStep == AudioInv /\ TextCounted /\ [AudioNext]_audioVars => TextCounted'
BY TextTickStarts, TextTickEnds, TextOfAudio, TextOfTranscript, TextOfContent, TextOfInterruption,
   TextUnchanged DEF AudioNext

LEMMA TextCorrect == Spec => []TextCounted
<1>1. Spec => []AudioInv
  BY AudioCorrect
<1>2. Init => TextCounted
  BY TextStarts DEF Init
<1>3. [Next]_voiceVars => [AudioNext]_audioVars
  BY DEF Next, voiceVars, OrchestratorMoves, UserMoves, ContextMoves, AgentMoves, SessionMoves
<1> QED
  BY <1>1, <1>2, <1>3, TextStep, PTL DEF Spec

\* The pieces of an item that is on its way as often as it has pieces: all of
\* them are there.
LEMMA AllHeard ==
  ASSUME NEW s \in Seq(Piece), Sorted(s), NEW i \in Items, NEW a \in Nat,
         \A k \in 1..Len(s) : ItemOf(s[k]) = i => s[k][2] <= a,
         CountOf(i, s) = a, NEW m \in 1..a
  PROVE  \E k \in 1..Len(s) : s[k] = <<i, m>>
<1> DEFINE where == Positions(i, s)
           f == [k \in where |-> s[k][2]]
<1>1. Len(s) \in Nat /\ \A k \in 1..Len(s) : s[k] \in Piece
  BY LenProperties, ElementOfSeq
<1>2. \A k \in where : /\ k \in 1..Len(s) /\ s[k] = <<i, s[k][2]>> /\ s[k][2] \in 1..a
  <2>1. ASSUME NEW k \in where PROVE k \in 1..Len(s) /\ s[k] = <<i, s[k][2]>> /\ s[k][2] \in 1..a
    <3>1. k \in 1..Len(s) /\ s[k][1] = i /\ s[k] \in Piece /\ s[k][2] <= a
      BY <1>1 DEF Positions, ItemOf
    <3>2. s[k][2] \in Nat \ {0} /\ s[k] = <<s[k][1], s[k][2]>>
      BY <3>1 DEF Piece
    <3> QED
      BY <3>1, <3>2
  <2> QED
    BY <2>1
<1>3. ASSUME NEW j \in where, NEW k \in where, s[j][2] = s[k][2] PROVE j = k
  <2>1. j \in 1..Len(s) /\ k \in 1..Len(s) /\ s[j] = s[k]
    BY <1>2, <1>3
  <2>2. s[j][1] = i /\ s[k][1] = i /\ i \in Int /\ s[j][2] \in Int
    <3>1. MaxItems \in Nat
      BY AudioAssumption
    <3>2. i \in Int
      BY <3>1 DEF Items
    <3> QED
      BY <1>2, <3>2
  <2>3. ~Before(s[j], s[k]) /\ ~Before(s[k], s[j])
    BY <2>1, <2>2 DEF Before
  <2>4. ~(j < k) /\ ~(k < j)
    BY <2>1, <2>3 DEF Sorted
  <2> QED
    BY <1>1, <2>1, <2>4
<1>4. Cardinality(where) = a /\ IsFiniteSet(where)
  BY PositionsFinite
<1>5. IsFiniteSet(1..a) /\ Cardinality(1..a) = a
  BY FS_Interval
<1> HIDE DEF where
<1>6. \A k \in where : f[k] = s[k][2]
  OBVIOUS
<1>7. f \in [where -> 1..a]
  BY <1>2
<1> HIDE DEF f
<1>8. f \in Injection(where, 1..a)
  BY <1>3, <1>6, <1>7 DEF Injection, IsInjective
<1>9. f \in Surjection(where, 1..a)
  BY <1>4, <1>5, <1>8, FS_Injection
<1>10. PICK k \in where : f[k] = m
  BY <1>9 DEF Surjection
<1> QED
  BY <1>2, <1>6, <1>10

\* What has been played is in order, and was sent.
LEMMA PlayedInOrder ==
  ASSUME AudioInv
  PROVE  /\ playedAudio \in Seq(Piece) /\ Sorted(playedAudio)
         /\ \A k \in 1..Len(playedAudio) : Received(playedAudio[k])
<1>1. playedAudio \in Seq(Piece) /\ Held \in Seq(Piece) /\ OnTheWay = playedAudio \o Held
  BY AudioFacts DEF AudioInv, AudioTypes
<1>2. Sorted(playedAudio)
  BY <1>1, SortedPart DEF AudioInv, Ordered
<1>3. \A k \in 1..Len(playedAudio) : Received(playedAudio[k])
  BY <1>1, PiecesConcat DEF AudioInv, Ordered
<1> QED
  BY <1>1, <1>2, <1>3

\* The audio of a name that is heard in full is counted as played.
LEMMA AllCounted ==
  ASSUME AudioInv, TextCounted, NEW name \in Items,
         \A j \in Items : textOf[j] = name /\ arrived[j] > 0 => arrived[j] = CountOf(j, playedAudio)
  PROVE  utterances[name].audio <= utterances[name].played
<1> DEFINE posted == SentUnder(name)
           where == PlayedUnder(name)
           f == [k \in where |-> playedAudio[k]]
           listened == {playedAudio[k] : k \in where}
<1>1. playedAudio \in Seq(Piece) /\ Sorted(playedAudio)
      /\ \A k \in 1..Len(playedAudio) : Received(playedAudio[k])
  BY PlayedInOrder
<1>2. ASSUME NEW p \in posted PROVE p \in listened
  <2>1. p \in Piece /\ textOf[p[1]] = name /\ p[2] <= arrived[p[1]]
    BY DEF SentUnder
  <2>2. PICK i \in Items, m \in Nat \ {0} : p = <<i, m>>
    BY <2>1 DEF Piece
  <2>3. textOf[i] = name /\ m <= arrived[i] /\ arrived[i] \in Nat
    BY <2>1, <2>2 DEF AudioInv, AudioTypes
  <2>4. m \in 1..arrived[i] /\ arrived[i] > 0
    BY <2>3
  <2>5. CountOf(i, playedAudio) = arrived[i]
    BY <2>3, <2>4
  <2>6. \A k \in 1..Len(playedAudio) : ItemOf(playedAudio[k]) = i => playedAudio[k][2] <= arrived[i]
    BY <1>1 DEF Received, ItemOf
  <2>7. PICK k \in 1..Len(playedAudio) : playedAudio[k] = <<i, m>>
    BY <1>1, <2>3, <2>4, <2>5, <2>6, AllHeard
  <2>8. k \in where
    BY <2>3, <2>7 DEF PlayedUnder, ItemOf
  <2> QED
    BY <2>2, <2>7, <2>8
<1>3. IsFiniteSet(where)
  BY <1>1, NamedIn, IndicesFinite DEF PlayedUnder
<1>4. /\ utterances \in [Items -> Counted] /\ IsFiniteSet(posted)
      /\ utterances[name].audio <= Cardinality(posted) /\ Cardinality(where) <= utterances[name].played
  BY DEF TextCounted
<1> HIDE DEF posted, where
<1>5. f \in Surjection(where, listened)
  <2>1. f \in [where -> listened] /\ \A p \in listened : \E k \in where : f[k] = p
    OBVIOUS
  <2> HIDE DEF f, listened
  <2> QED
    BY <2>1 DEF Surjection
<1>6. IsFiniteSet(listened) /\ Cardinality(listened) <= Cardinality(where)
  <2> HIDE DEF f, listened
  <2> QED
    BY <1>3, <1>5, FS_Surjection
<1>7. posted \in SUBSET listened
  BY <1>2
<1> HIDE DEF listened
<1>8. Cardinality(posted) <= Cardinality(listened)
  BY <1>6, <1>7, FS_Subset
<1>9. /\ Cardinality(posted) \in Nat /\ Cardinality(listened) \in Nat /\ Cardinality(where) \in Nat
      /\ utterances[name].audio \in Nat /\ utterances[name].played \in Nat
  BY <1>3, <1>4, <1>6, FS_CardinalityType DEF Counted
<1> QED
  BY <1>4, <1>6, <1>8, <1>9

\* ... and so in the state that a step leads to.
LEMMA AllCountedNext ==
  ASSUME NEW name \in Items
  PROVE  (/\ AudioInv /\ TextCounted
          /\ \A j \in Items : textOf[j] = name /\ arrived[j] > 0 => arrived[j] = CountOf(j, playedAudio))'
         => (utterances[name].audio <= utterances[name].played)'
<1>1. (/\ AudioInv /\ TextCounted
       /\ \A j \in Items : textOf[j] = name /\ arrived[j] > 0 => arrived[j] = CountOf(j, playedAudio))
      => utterances[name].audio <= utterances[name].played
  BY AllCounted
<1> QED
  BY <1>1, PTL

\* TextFollowsAudio, of AudioTick: when a tick ends in which an answer is played,
\* and all the audio that goes by the name of its text has been played now, then
\* all of the text received is shown, whatever else was shown or cut before.
THEOREM TextIsShown == Spec => TextFollowsAudio
<1> DEFINE Follows ==
      phase = "tick" /\ phase' = "between" =>
        \A i \in ItemsIn(Kept) :
          (\A j \in Items : textOf[j] = textOf[i] /\ arrived[j] > 0 => HeardInFull(j))
          => utterances'[textOf[i]].shown = utterances[textOf[i]].text
<1>1. AudioInv /\ TextCounted /\ AudioInv' /\ TextCounted' /\ [AudioNext]_audioVars => [Follows]_audioVars
  <2> SUFFICES ASSUME AudioInv, TextCounted, AudioInv', TextCounted', AudioNext,
                      phase = "tick", phase' = "between", NEW i \in ItemsIn(Kept),
                      \A j \in Items : textOf[j] = textOf[i] /\ arrived[j] > 0 => HeardInFull(j)
               PROVE  utterances'[textOf[i]].shown = utterances[textOf[i]].text
    OBVIOUS
  <2>1. EndAudioTick
    BY DEF AudioNext, StartAudioTick, AudioDelta, TranscriptDelta, NovaContentStart, SpeechStarted,
           OpenAISpeechStarted
  <2>2. PICK k \in 1..Len(Kept) : ItemOf(Kept[k]) = i
    BY DEF ItemsIn
  <2>3. PICK l \in 1..Len(chunks) : Kept[k] = chunks[l]
    BY KeptAtEnd
  <2>4. PICK name \in Items : i \in Items /\ name = textOf[i] /\ utterances[name].audio > 0
    <3>1. Held = chunks
      BY DEF Held
    <3>2. i \in Items
      BY <2>2, <2>3, <3>1, AudioFacts DEF Begun
    <3> QED
      BY <2>2, <2>3, <3>1, <3>2 DEF TextCounted, AudioInv, AudioTypes
  <2>5. Indices(Named(name), Kept) # {}
    <3>1. Kept \in Seq(Piece)
      BY KeptAtEnd
    <3> QED
      BY <2>2, <2>4, <3>1, NamedIn
  <2>6. textOf' = textOf /\ arrived' = arrived
    BY <2>1 DEF EndAudioTick, serviceVars
  <2>7. \A j \in Items : textOf'[j] = name /\ arrived'[j] > 0 => arrived'[j] = CountOf(j, playedAudio')
    BY <2>4, <2>6 DEF HeardInFull
  <2>8. utterances'[name].audio <= utterances'[name].played
    <3>1. (\A j \in Items : textOf[j] = name /\ arrived[j] > 0 => arrived[j] = CountOf(j, playedAudio))'
      BY <2>7
    <3> QED
      BY <2>4, <2>6, <3>1, AllCountedNext
  <2>9. utterances'[name].shown = utterances[name].text
    <3>1. /\ utterances[name].audio \in Nat /\ utterances'[name].audio = utterances[name].audio
          /\ utterances'[name] \in Counted
      BY <2>1, <2>4, TranscriptAtEnd DEF TextCounted, Counted
    <3>2. utterances'[name].played >= utterances[name].audio
      BY <2>8, <3>1 DEF Counted
    <3> QED
      BY <2>1, <2>4, <2>5, <3>2, TranscriptAtEnd
  <2> QED
    BY <2>4, <2>9
<1>2. [Next]_voiceVars => [AudioNext]_audioVars
  BY DEF Next, voiceVars, OrchestratorMoves, UserMoves, ContextMoves, AgentMoves, SessionMoves
<1> QED
  BY <1>1, <1>2, AudioCorrect, TextCorrect, PTL DEF Spec, TextFollowsAudio

-----------------------------------------------------------------------------
(* The context of the user's LLM: least and greatest numbers.              *)

LEMMA HasGreatest ==
  ASSUME NEW S \in SUBSET Nat, S # {}, NEW n \in Nat, \A i \in S : i <= n
  PROVE  \E m \in S : \A i \in S : i <= m
<1> DEFINE D == {d \in Nat : n - d \in S}
<1>1. D \in SUBSET Nat /\ \A i \in S : n - i \in D
  BY DEF D
<1>2. D # {}
  BY <1>1
<1>3. \A d \in D : n - d \in S /\ d \in Nat
  OBVIOUS
<1> HIDE DEF D
<1>4. PICK d \in D : \A c \in D : d <= c
  BY <1>1, <1>2, HasLeast
<1>5. n - d \in S /\ \A i \in S : d <= n - i /\ i \in Nat /\ n - i \in Nat /\ d \in Nat
  BY <1>1, <1>3, <1>4
<1>6. \A i \in S : i <= n - d
  BY <1>5
<1> QED
  BY <1>5, <1>6

LEMMA MaxIs ==
  ASSUME NEW S \in SUBSET Nat, NEW m \in S, \A i \in S : i <= m
  PROVE  Max(S) = m
<1>1. \E x \in S : \A y \in S : x >= y
  OBVIOUS
<1>2. Max(S) \in S /\ \A y \in S : Max(S) >= y
  BY <1>1 DEF Max
<1>3. Max(S) >= m /\ Max(S) <= m /\ Max(S) \in Nat /\ m \in Nat
  BY <1>2
<1> QED
  BY <1>3

LEMMA MinIs ==
  ASSUME NEW S \in SUBSET Nat, NEW m \in S, \A i \in S : m <= i
  PROVE  Min(S) = m
<1>1. \E x \in S : \A y \in S : x <= y
  OBVIOUS
<1>2. Min(S) \in S /\ \A y \in S : Min(S) <= y
  BY <1>1 DEF Min
<1>3. Min(S) <= m /\ Min(S) >= m /\ Min(S) \in Nat /\ m \in Nat
  BY <1>2
<1> QED
  BY <1>3

LEMMA MaxOf ==
  ASSUME NEW S \in SUBSET Nat, S # {}, NEW n \in Nat, \A i \in S : i <= n
  PROVE  Max(S) \in S /\ \A i \in S : i <= Max(S)
<1>1. PICK m \in S : \A i \in S : i <= m
  BY HasGreatest
<1> QED
  BY <1>1, MaxIs
-----------------------------------------------------------------------------
(* AllPlaces in order.                                                        *)

Sequenced(P) ==
  /\ \A p \in P : ~Sooner(p, p)
  /\ \A p, q, r \in P : Sooner(p, q) /\ Sooner(q, r) => Sooner(p, r)
  /\ \A p, q \in P : p = q \/ Sooner(p, q) \/ Sooner(q, p)
Earlier(P, q) == {p \in P : Sooner(p, q)}
Rank(P, q) == Cardinality(Earlier(P, q))

LEMMA RankGrows ==
  ASSUME NEW P, IsFiniteSet(P), Sequenced(P), NEW p \in P, NEW q \in P, Sooner(p, q)
  PROVE  Rank(P, p) < Rank(P, q)
<1>1. IsFiniteSet(Earlier(P, p)) /\ IsFiniteSet(Earlier(P, q))
  BY FS_Subset DEF Earlier
<1>2. Earlier(P, p) \in SUBSET Earlier(P, q) /\ p \in Earlier(P, q) /\ p \notin Earlier(P, p)
  BY DEF Earlier, Sequenced
<1>3. Cardinality(Earlier(P, p)) \in Nat /\ Cardinality(Earlier(P, q)) \in Nat
  BY <1>1, FS_CardinalityType
<1>4. /\ Cardinality(Earlier(P, p)) <= Cardinality(Earlier(P, q))
      /\ Cardinality(Earlier(P, q)) # Cardinality(Earlier(P, p))
  BY <1>1, <1>2, FS_Subset
<1> QED
  BY <1>3, <1>4 DEF Rank

LEMMA RankBelow ==
  ASSUME NEW P, IsFiniteSet(P), Sequenced(P), NEW q \in P
  PROVE  Rank(P, q) \in Nat /\ Rank(P, q) < Cardinality(P)
<1>1. Earlier(P, q) \in SUBSET P /\ q \notin Earlier(P, q)
  BY DEF Earlier, Sequenced
<1>2. /\ IsFiniteSet(Earlier(P, q)) /\ Cardinality(Earlier(P, q)) <= Cardinality(P)
      /\ Cardinality(P) # Cardinality(Earlier(P, q))
  BY <1>1, FS_Subset
<1>3. Cardinality(Earlier(P, q)) \in Nat /\ Cardinality(P) \in Nat
  BY <1>2, FS_CardinalityType
<1> QED
  BY <1>2, <1>3 DEF Rank

LEMMA RanksTaken ==
  ASSUME NEW P, IsFiniteSet(P), Sequenced(P)
  PROVE  \A n \in 1..Cardinality(P) : \E q \in P : Rank(P, q) = n - 1
<1> DEFINE N == Cardinality(P)
           f == [q \in P |-> Rank(P, q) + 1]
<1>1. N \in Nat
  BY FS_CardinalityType
<1>2. \A q \in P : Rank(P, q) \in Nat /\ Rank(P, q) < N
  BY RankBelow
<1>3. f \in [P -> 1..N] /\ \A q \in P : f[q] = Rank(P, q) + 1
  <2> HIDE DEF N
  <2> QED
    BY <1>1, <1>2
<1>4. \A p, q \in P : f[p] = f[q] => p = q
  <2>1. ASSUME NEW p \in P, NEW q \in P, f[p] = f[q] PROVE p = q
    <3>1. Rank(P, p) = Rank(P, q)
      BY <1>2, <1>3, <2>1
    <3>2. ~Sooner(p, q) /\ ~Sooner(q, p)
      BY <1>2, <3>1, RankGrows
    <3> QED
      BY <3>2 DEF Sequenced
  <2> QED
    BY <2>1
<1> HIDE DEF f
<1>5. f \in Injection(P, 1..N)
  <2> HIDE DEF N
  <2> QED
    BY <1>3, <1>4 DEF Injection, IsInjective
<1>6. IsFiniteSet(1..N) /\ Cardinality(1..N) = N
  <2>1. 1 \in Int /\ N \in Int
    BY <1>1
  <2>2. /\ IsFiniteSet(1..N)
        /\ Cardinality(1..N) = IF 1 > N THEN 0 ELSE N - 1 + 1
    BY <2>1, FS_Interval
  <2> HIDE DEF N
  <2> QED
    BY <1>1, <2>2
<1>7. f \in Surjection(P, 1..N)
  BY <1>5, <1>6, FS_Injection
<1>8. \A n \in 1..N : \E q \in P : f[q] = n
  BY <1>7 DEF Surjection
<1>9. ASSUME NEW n \in 1..N PROVE \E q \in P : Rank(P, q) = n - 1
  <2>1. PICK q \in P : f[q] = n
    BY <1>8
  <2>2. Rank(P, q) = n - 1
    <3> HIDE DEF N
    <3> QED
      BY <1>1, <1>2, <1>3, <2>1
  <2> QED
    BY <2>2
<1> QED
  BY <1>9

\* The sequence that lists P in order.
ListsInOrder(P, sites) ==
  /\ sites \in [1..Cardinality(P) -> P]
  /\ \A n \in 1..Cardinality(P) : Rank(P, sites[n]) = n - 1
  /\ \A i, j \in 1..Cardinality(P) : i < j <=> Sooner(sites[i], sites[j])
  /\ \A q \in P : \E n \in 1..Cardinality(P) : sites[n] = q

LEMMA ListedInOrder ==
  ASSUME NEW P, IsFiniteSet(P), Sequenced(P), NEW sites,
         sites = [n \in 1..Cardinality(P) |-> CHOOSE q \in P : Rank(P, q) = n - 1]
  PROVE  ListsInOrder(P, sites)
<1> DEFINE N == Cardinality(P)
<1>1. N \in Nat
  BY FS_CardinalityType
<1>2. sites \in [1..N -> P] /\ \A n \in 1..N : Rank(P, sites[n]) = n - 1
  <2>1. \A n \in 1..N : \E q \in P : Rank(P, q) = n - 1
    BY RanksTaken
  <2> QED
    BY <2>1
<1>3. \A p, q \in P : Rank(P, p) = Rank(P, q) => p = q
  <2>1. \A q \in P : Rank(P, q) \in Nat
    BY RankBelow
  <2>2. ASSUME NEW p \in P, NEW q \in P, Rank(P, p) = Rank(P, q) PROVE p = q
    <3>1. ~Sooner(p, q) /\ ~Sooner(q, p)
      BY <2>1, <2>2, RankGrows
    <3> QED
      BY <3>1 DEF Sequenced
  <2> QED
    BY <2>2
<1>4. \A q \in P : Rank(P, q) \in Nat /\ Rank(P, q) < N
  BY RankBelow
<1> HIDE DEF N
<1>5. ASSUME NEW i \in 1..N, NEW j \in 1..N PROVE i < j <=> Sooner(sites[i], sites[j])
  <2>1. sites[i] \in P /\ sites[j] \in P /\ Rank(P, sites[i]) = i - 1 /\ Rank(P, sites[j]) = j - 1
    BY <1>2
  <2>2. Sooner(sites[i], sites[j]) => i < j
    BY <1>1, <2>1, RankGrows
  <2>3. Sooner(sites[j], sites[i]) => j < i
    BY <1>1, <2>1, RankGrows
  <2>4. sites[i] = sites[j] => i = j
    BY <1>1, <2>1
  <2>5. sites[i] = sites[j] \/ Sooner(sites[i], sites[j]) \/ Sooner(sites[j], sites[i])
    BY <2>1 DEF Sequenced
  <2> QED
    BY <1>1, <2>2, <2>3, <2>4, <2>5
<1>6. ASSUME NEW q \in P PROVE \E n \in 1..N : sites[n] = q
  <2> DEFINE n == Rank(P, q) + 1
  <2>1. n \in 1..N /\ n - 1 = Rank(P, q)
    BY <1>1, <1>4
  <2> HIDE DEF n
  <2>2. sites[n] = q
    BY <1>2, <1>3, <2>1
  <2> QED
    BY <2>1, <2>2
<1> QED
  BY <1>2, <1>5, <1>6 DEF ListsInOrder, N
-----------------------------------------------------------------------------
(* Segments.                                                               *)

Starts(T, who) == {i \in Spoken(T, who) : \A j \in Spoken(T, who) : j >= i \/ i - j > integration}
From(T, who, i) == {j \in Spoken(T, who) : j >= i /\ \A k \in Starts(T, who) : k <= i \/ k > j}

IsSegment(T, who, s) ==
  /\ s.who = who /\ s.start \in Starts(T, who) /\ s.chunks = From(T, who, s.start)
  /\ s.start \in s.chunks /\ s.end \in s.chunks
  /\ \A i \in s.chunks : i \in Spoken(T, who) /\ s.start <= i /\ i <= s.end

LEMMA SpokenNumbers ==
  ASSUME NEW T, Len(T) \in Nat, NEW who
  PROVE  /\ Spoken(T, who) \subseteq Nat \ {0} /\ \A i \in Spoken(T, who) : i <= Len(T)
         /\ Starts(T, who) \subseteq Spoken(T, who)
BY DEF Spoken, Starts

LEMMA SegmentOfStart ==
  ASSUME NEW T, Len(T) \in Nat, integration \in Nat, NEW who, NEW i \in Starts(T, who)
  PROVE  /\ i \in From(T, who, i) /\ Max(From(T, who, i)) \in From(T, who, i)
         /\ \A j \in From(T, who, i) : j \in Spoken(T, who) /\ i <= j /\ j <= Max(From(T, who, i))
<1> DEFINE S == From(T, who, i)
<1>1. i \in S
  BY SpokenNumbers DEF From, Starts
<1>2. S \subseteq Spoken(T, who) /\ S \in SUBSET Nat /\ S # {} /\ \A j \in S : j <= Len(T)
  BY <1>1, SpokenNumbers DEF From
<1>3. \A j \in S : i <= j
  BY SpokenNumbers DEF From
<1> HIDE DEF S
<1>4. Max(S) \in S /\ \A j \in S : j <= Max(S)
  BY <1>2, MaxOf
<1> QED
  BY <1>1, <1>2, <1>3, <1>4 DEF S

SegmentFrom(T, who, i) ==
  [who |-> who, start |-> i, end |-> Max(From(T, who, i)), chunks |-> From(T, who, i)]

LEMMA SegmentsAre ==
  ASSUME NEW T, NEW who
  PROVE  Segments(T, who) = {SegmentFrom(T, who, i) : i \in Starts(T, who)}
BY DEF Segments, Starts, From, SegmentFrom

LEMMA SegmentFacts ==
  ASSUME NEW T, Len(T) \in Nat, integration \in Nat, NEW who, NEW s \in Segments(T, who)
  PROVE  IsSegment(T, who, s) /\ s = SegmentFrom(T, who, s.start)
<1>1. PICK i \in Starts(T, who) : s = SegmentFrom(T, who, i)
  BY SegmentsAre
<1>2. s.who = who /\ s.start = i /\ s.end = Max(From(T, who, i)) /\ s.chunks = From(T, who, i)
  BY <1>1 DEF SegmentFrom
<1> QED
  BY <1>1, <1>2, SegmentOfStart DEF IsSegment

\* The numbers of a segment.
LEMMA SegmentNumbers ==
  ASSUME NEW T, Len(T) \in Nat, integration \in Nat, NEW who, NEW s \in Segments(T, who)
  PROVE  /\ s.who = who /\ s.start \in Nat \ {0} /\ s.end \in Nat \ {0} /\ s.start <= s.end
         /\ s.end <= Len(T) /\ s.chunks \subseteq Nat \ {0}
         /\ s.start \in s.chunks /\ s.end \in s.chunks
         /\ \A i \in s.chunks : s.start <= i /\ i <= s.end /\ i \in Spoken(T, who)
<1>1. IsSegment(T, who, s)
  BY SegmentFacts
<1> QED
  BY <1>1, SpokenNumbers DEF IsSegment

\* Every chunk is in a segment.
LEMMA InSegment ==
  ASSUME NEW T, Len(T) \in Nat, integration \in Nat, NEW who, NEW i \in Spoken(T, who)
  PROVE  \E s \in Segments(T, who) : i \in s.chunks
<1>1. Spoken(T, who) \subseteq Nat /\ Starts(T, who) \subseteq Spoken(T, who) /\ i \in Nat
  BY SpokenNumbers
<1> DEFINE B == {k \in Starts(T, who) : k <= i}
<1>2. B # {}
  <2>1. PICK m \in Spoken(T, who) : \A j \in Spoken(T, who) : m <= j
    BY <1>1, HasLeast
  <2>2. m \in Starts(T, who)
    <3>1. m \in Nat /\ \A j \in Spoken(T, who) : j >= m
      BY <1>1, <2>1
    <3> QED
      BY <3>1 DEF Starts
  <2>3. m <= i
    BY <2>1
  <2> QED
    BY <2>2, <2>3
<1>3. B \in SUBSET Nat /\ \A k \in B : k <= i
  BY <1>1
<1>4. PICK b \in B : \A k \in B : k <= b
  <2> HIDE DEF B
  <2> QED
    BY <1>1, <1>2, <1>3, HasGreatest
<1>5. b \in Starts(T, who) /\ b <= i /\ \A k \in Starts(T, who) : k <= i => k <= b
  BY <1>4
<1>6. i \in From(T, who, b)
  <2>1. ASSUME NEW k \in Starts(T, who) PROVE k <= b \/ k > i
    BY <1>1, <1>5
  <2>2. i >= b
    BY <1>1, <1>5
  <2> QED
    BY <2>1, <2>2 DEF From
<1>7. SegmentFrom(T, who, b) \in Segments(T, who) /\ SegmentFrom(T, who, b).chunks = From(T, who, b)
  BY <1>5, SegmentsAre DEF SegmentFrom
<1> QED
  BY <1>6, <1>7

\* Segments of one speaker lie apart, by more than integration_ticks.
LEMMA Apart ==
  ASSUME NEW T, Len(T) \in Nat, integration \in Nat, NEW who,
         NEW s \in Segments(T, who), NEW t \in Segments(T, who), s.start < t.start
  PROVE  s.end + integration < t.start
<1>1. IsSegment(T, who, s) /\ IsSegment(T, who, t)
  BY SegmentFacts
<1>2. /\ s.start \in Nat /\ t.start \in Nat /\ s.end \in Nat /\ s.end \in Spoken(T, who)
      /\ t.start \in Starts(T, who) /\ s.end \in From(T, who, s.start)
  BY <1>1, SpokenNumbers DEF IsSegment
<1>3. t.start <= s.start \/ t.start > s.end
  BY <1>2 DEF From
<1>4. s.end >= t.start \/ t.start - s.end > integration
  BY <1>2 DEF Starts
<1> QED
  BY <1>2, <1>3, <1>4

\* ... so a tick belongs to one of them at most.
LEMMA OneSegment ==
  ASSUME NEW T, Len(T) \in Nat, integration \in Nat, NEW who,
         NEW s \in Segments(T, who), NEW t \in Segments(T, who),
         s.start <= t.end, t.start <= s.end
  PROVE  s = t
<1>1. s.start \in Nat /\ t.start \in Nat /\ s.end \in Nat /\ t.end \in Nat
  BY SegmentNumbers
<1>2. ~(s.start < t.start) /\ ~(t.start < s.start)
  BY <1>1, Apart
<1>3. s.start = t.start
  BY <1>1, <1>2
<1> QED
  BY <1>3, SegmentFacts

\* Within a segment there is always another chunk at most integration_ticks before.
LEMMA CloseBefore ==
  ASSUME NEW T, Len(T) \in Nat, integration \in Nat, NEW who, NEW s \in Segments(T, who),
         NEW i \in Spoken(T, who), s.start < i, i <= s.end
  PROVE  \E j \in Spoken(T, who) : j < i /\ i - j <= integration
<1>1. IsSegment(T, who, s) /\ s.start \in Nat /\ i \in Nat /\ s.end \in Nat
  BY SegmentFacts, SegmentNumbers, SpokenNumbers
<1>2. s.end \in From(T, who, s.start)
  BY <1>1 DEF IsSegment
<1>3. i \notin Starts(T, who)
  BY <1>1, <1>2 DEF From
<1>4. PICK j \in Spoken(T, who) : ~(j >= i \/ i - j > integration)
  BY <1>3 DEF Starts
<1>5. j \in Nat
  BY SpokenNumbers
<1>6. j < i /\ i - j <= integration
  BY <1>1, <1>4, <1>5
<1> QED
  BY <1>6

-----------------------------------------------------------------------------
(* Spans: what is said without a break is a segment.                       *)

Gap(T, who, i, j) ==
  \E k \in (i + 1)..(j - integration) : \A n \in k..(k + integration - 1) : T[n][who] # "speech"

\* Within a segment there is no break ...
LEMMA NoGap ==
  ASSUME NEW T, Len(T) \in Nat, integration \in Nat \ {0}, NEW who, NEW s \in Segments(T, who),
         NEW i \in s.chunks, NEW j \in s.chunks
  PROVE  ~Gap(T, who, i, j)
<1>1. /\ s.start \in Nat /\ s.end \in Nat /\ i \in Nat /\ j \in Nat /\ j <= Len(T) /\ j \in Spoken(T, who)
      /\ s.start <= i /\ j <= s.end /\ i >= 1
  BY SegmentNumbers, SpokenNumbers
<1>2. SUFFICES ASSUME NEW k \in (i + 1)..(j - integration),
                      \A n \in k..(k + integration - 1) : T[n][who] # "speech"
               PROVE  FALSE
  BY DEF Gap
<1>3. k \in Nat /\ i < k /\ k + integration <= j /\ integration \in Nat /\ integration >= 1
  BY <1>1
<1> DEFINE L == {m \in Spoken(T, who) : m >= k}
<1>4. j \in L
  BY <1>1, <1>3
<1>5. L \subseteq Nat /\ L # {}
  BY <1>4, SpokenNumbers
<1>6. PICK m \in L : \A n \in L : m <= n
  <2> HIDE DEF L
  <2> QED
    BY <1>5, HasLeast
<1>7. m \in Spoken(T, who) /\ m \in Nat /\ m >= k /\ m <= j
  BY <1>4, <1>5, <1>6
<1>8. m >= k + integration
  <2>1. ~(m \in k..(k + integration - 1))
    BY <1>2, <1>7 DEF Spoken
  <2> QED
    BY <1>3, <1>7, <2>1
<1>9. s.start < m /\ m <= s.end
  BY <1>1, <1>3, <1>7
<1>10. PICK n \in Spoken(T, who) : n < m /\ m - n <= integration
  BY <1>7, <1>9, CloseBefore
<1>11. n \in Nat
  BY SpokenNumbers
<1>12. n >= k
  BY <1>3, <1>7, <1>8, <1>10, <1>11
<1>13. n \in L
  BY <1>10, <1>12
<1>14. m <= n
  BY <1>6, <1>13
<1> QED
  BY <1>7, <1>10, <1>11, <1>14

\* ... and between two segments there is one.
LEMMA GapBetween ==
  ASSUME NEW T, Len(T) \in Nat, integration \in Nat \ {0}, NEW who,
         NEW s \in Segments(T, who), NEW t \in Segments(T, who), s.start < t.start,
         NEW i \in s.chunks, NEW j \in t.chunks
  PROVE  Gap(T, who, i, j)
<1> DEFINE k == t.start - integration
<1>1. /\ s.end \in Nat /\ t.start \in Nat /\ i \in Nat /\ j \in Nat /\ i <= s.end /\ t.start <= j
      /\ j <= Len(T) /\ i >= 1
  BY SegmentNumbers, SpokenNumbers
<1>2. integration \in Nat /\ integration >= 1
  OBVIOUS
<1>3. s.end + integration < t.start
  BY Apart
<1>4. k \in (i + 1)..(j - integration)
  BY <1>1, <1>2, <1>3
<1>5. t.start \in Starts(T, who)
  BY SegmentFacts DEF IsSegment
<1>6. ASSUME NEW n \in k..(k + integration - 1) PROVE T[n][who] # "speech"
  <2>1. n \in Int /\ n >= k /\ n < t.start
    BY <1>1, <1>2, <1>6
  <2>2. n \in 1..Len(T)
    BY <1>1, <1>2, <1>3, <2>1
  <2>3. ~(n >= t.start \/ t.start - n > integration)
    BY <1>1, <1>2, <2>1
  <2>4. n \notin Spoken(T, who)
    BY <1>5, <2>3 DEF Starts
  <2> QED
    BY <2>2, <2>4 DEF Spoken
<1> HIDE DEF k
<1> QED
  BY <1>4, <1>6 DEF Gap

LEMMA SpanIs ==
  ASSUME NEW T, Len(T) \in Nat, integration \in Nat \ {0}, NEW who \in {"self", "other"},
         NEW s \in Segments(T, who), NEW i \in s.chunks
  PROVE  Span(T, <<who, i>>) = <<s.start, s.end>>
<1> DEFINE whole == {j \in Spoken(T, who) : ~Gap(T, who, j, i) /\ ~Gap(T, who, i, j)}
<1>1. \A j \in s.chunks : j \in whole
  BY SegmentNumbers, NoGap
<1>2. ASSUME NEW j \in whole PROVE j \in s.chunks
  <2>1. PICK t \in Segments(T, who) : j \in t.chunks
    BY <1>2, InSegment
  <2>2. s.start \in Nat /\ t.start \in Nat
    BY SegmentNumbers
  <2>3. ~(s.start < t.start) /\ ~(t.start < s.start)
    BY <1>2, <2>1, GapBetween
  <2>4. s.start = t.start
    BY <2>2, <2>3
  <2> QED
    BY <2>1, <2>4, SegmentFacts
<1>3. Span(T, <<who, i>>) = <<Min(whole), Max(whole)>>
  BY DEF Span, Speech, Gap
<1> HIDE DEF whole
<1>4. whole = s.chunks
  BY <1>1, <1>2
<1>5. s.chunks \in SUBSET Nat /\ s.start \in s.chunks /\ s.end \in s.chunks
      /\ \A j \in s.chunks : s.start <= j /\ j <= s.end
  BY SegmentNumbers
<1>6. Min(s.chunks) = s.start /\ Max(s.chunks) = s.end
  BY <1>5, MinIs, MaxIs
<1> QED
  BY <1>3, <1>4, <1>6

-----------------------------------------------------------------------------
(* A segment cut where its guests end.                                     *)

\* The end at which chunk i is put: the next one.
CutAt(ends, i, e) == e \in ends /\ i <= e /\ \A d \in ends : d < e => d < i

IsSplice(host, guests, own, guest, tail, p) ==
  \/ \E i \in host.chunks : \E e \in {g.end : g \in guests} :
       CutAt({g.end : g \in guests}, i, e) /\ p = <<e, own, <<host.who, i>>>>
  \/ \E i \in host.chunks : \E last \in {g.end : g \in guests} :
       /\ \A d \in {g.end : g \in guests} : d <= last
       /\ last < i /\ p = <<last + 1, tail, <<host.who, i>>>>
  \/ \E g \in guests : \E i \in g.chunks : p = <<g.end, guest, <<g.who, i>>>>

LEMMA SpliceIs ==
  ASSUME NEW host, host.start \in Nat \ {0}, host.end \in Nat,
         host.chunks \subseteq Nat, \A i \in host.chunks : host.start <= i /\ i <= host.end,
         NEW guests, guests # {}, \A g \in guests : g.end \in Nat /\ g.end <= host.end,
         NEW own, NEW guest, NEW tail, NEW p
  PROVE  p \in Splice(host, guests, own, guest, tail) <=> IsSplice(host, guests, own, guest, tail, p)
<1> DEFINE ends == {g.end : g \in guests}
           last == Max(ends)
           Since(e) == Max({host.start - 1} \cup {d \in ends : d < e})
           KeptOf(from, to) == Chunks(host.who, {i \in host.chunks : from < i /\ i <= to})
           A == UNION {Placed(e, own, KeptOf(Since(e), e)) : e \in ends}
           B == UNION {Placed(g.end, guest, Chunks(g.who, g.chunks)) : g \in guests}
           C == Placed(last + 1, tail, KeptOf(last, host.end))
<1>1. ends \in SUBSET Nat /\ ends # {} /\ \A d \in ends : d <= host.end
  OBVIOUS
<1>2. Splice(host, guests, own, guest, tail) = (A \cup B) \cup C
  BY DEF Splice
<1>3. p \in B <=> \E g \in guests : \E i \in g.chunks : p = <<g.end, guest, <<g.who, i>>>>
  BY DEF Placed, Chunks
<1> HIDE DEF B, ends
<1>4. last \in ends /\ \A d \in ends : d <= last
  BY <1>1, MaxOf
<1>5. ASSUME NEW e \in ends, NEW i \in host.chunks
      PROVE  (Since(e) < i /\ i <= e) <=> CutAt(ends, i, e)
  <2> DEFINE S == {host.start - 1} \cup {d \in ends : d < e}
  <2>0. host.start - 1 \in Nat /\ host.start - 1 <= host.end /\ host.end \in Nat
    <3>1. host.start \in Nat /\ host.start >= 1 /\ i \in Nat /\ host.start <= i /\ i <= host.end
      OBVIOUS
    <3> QED
      BY <3>1
  <2>1. S \in SUBSET Nat /\ host.start - 1 \in S /\ S # {}
    BY <1>1, <2>0
  <2>2. \A d \in S : d <= host.end
    BY <1>1, <2>0
  <2>3. \A d \in S : d = host.start - 1 \/ (d \in ends /\ d < e)
    OBVIOUS
  <2>4. \A d \in ends : d < e => d \in S
    OBVIOUS
  <2> HIDE DEF S
  <2>5. Max(S) \in S /\ \A d \in S : d <= Max(S)
    BY <2>1, <2>2, MaxOf
  <2>6. Since(e) = Max(S)
    BY DEF S
  <2> HIDE DEF Since
  <2>7. i \in Nat /\ e \in Nat /\ host.start <= i /\ Since(e) \in Nat /\ ends \subseteq Nat
    BY <1>1, <2>1, <2>5, <2>6
  <2>8. Since(e) < i => \A d \in ends : d < e => d < i
    BY <2>1, <2>4, <2>5, <2>6, <2>7
  <2>9. (\A d \in ends : d < e => d < i) => Since(e) < i
    BY <2>3, <2>5, <2>6, <2>7
  <2> QED
    BY <2>8, <2>9 DEF CutAt
<1> HIDE DEF Since, last
<1>6. p \in A <=> \E i \in host.chunks : \E e \in ends : CutAt(ends, i, e) /\ p = <<e, own, <<host.who, i>>>>
  <2>1. p \in A <=> \E e \in ends : p \in Placed(e, own, KeptOf(Since(e), e))
    OBVIOUS
  <2>2. ASSUME NEW e \in ends
        PROVE  p \in Placed(e, own, KeptOf(Since(e), e))
                 <=> \E i \in host.chunks : (Since(e) < i /\ i <= e) /\ p = <<e, own, <<host.who, i>>>>
    BY DEF Placed, Chunks
  <2> HIDE DEF A, KeptOf
  <2>3. p \in A <=> \E e \in ends : \E i \in host.chunks : CutAt(ends, i, e) /\ p = <<e, own, <<host.who, i>>>>
    BY <1>5, <2>1, <2>2
  <2> QED
    BY <2>3
<1>7. p \in C <=> \E i \in host.chunks : last < i /\ p = <<last + 1, tail, <<host.who, i>>>>
  BY DEF Placed, Chunks
<1> HIDE DEF A, C
<1>8. \A x \in ends : (\A d \in ends : d <= x) => x = last
  BY <1>1, <1>4
<1>9. (\E i \in host.chunks : last < i /\ p = <<last + 1, tail, <<host.who, i>>>>)
        <=> \E i \in host.chunks : \E x \in ends :
              (\A d \in ends : d <= x) /\ x < i /\ p = <<x + 1, tail, <<host.who, i>>>>
  BY <1>4, <1>8
<1>10. IsSplice(host, guests, own, guest, tail, p) <=>
         \/ \E i \in host.chunks : \E e \in ends : CutAt(ends, i, e) /\ p = <<e, own, <<host.who, i>>>>
         \/ \E i \in host.chunks : \E x \in ends :
              (\A d \in ends : d <= x) /\ x < i /\ p = <<x + 1, tail, <<host.who, i>>>>
         \/ \E g \in guests : \E i \in g.chunks : p = <<g.end, guest, <<g.who, i>>>>
  BY DEF IsSplice, ends
<1> QED
  BY <1>2, <1>3, <1>6, <1>7, <1>9, <1>10

\* A chunk of the host before the last of these ends is put at just one.
LEMMA CutExists ==
  ASSUME NEW ends \in SUBSET Nat, NEW i \in Nat, NEW last \in ends, i <= last
  PROVE  \E e \in ends : CutAt(ends, i, e)
<1> DEFINE S == {e \in ends : i <= e}
<1>1. S \subseteq Nat /\ S # {}
  OBVIOUS
<1>2. PICK e \in S : \A d \in S : e <= d
  <2> HIDE DEF S
  <2> QED
    BY <1>1, HasLeast
<1>3. ASSUME NEW d \in ends, d < e PROVE d < i
  <2>1. d \in Nat /\ e \in Nat /\ i \in Nat
    BY <1>2
  <2>2. ~(i <= d)
    BY <1>2, <1>3, <2>1
  <2> QED
    BY <2>1, <2>2
<1> QED
  BY <1>2, <1>3 DEF CutAt

-----------------------------------------------------------------------------
(* The place of a chunk, by the part its segment plays.                    *)

Speakers == {"self", "other"}
Opposite(who) == IF who = "self" THEN "other" ELSE "self"

GuestsOf(T, u) ==
  {v \in Segments(T, Opposite(u.who)) : Inside(v, u) /\ (u.who = "other" \/ ~Inside(u, v))}
IsGuest(T, u) == \E v \in Segments(T, Opposite(u.who)) : u \in GuestsOf(T, v)
Ends(T, u) == {g.end : g \in GuestsOf(T, u)}

Early(who) == IF who = "self" THEN SelfSpeech ELSE OtherSpeech
Late(who) == IF who = "self" THEN SelfSpeech ELSE Continuation

PutCut(T, u, i, p) ==
  GuestsOf(T, u) # {} /\ \E e \in Ends(T, u) : CutAt(Ends(T, u), i, e) /\ p = <<e, Early(u.who), <<u.who, i>>>>
PutBehind(T, u, i, p) ==
  /\ GuestsOf(T, u) # {}
  /\ \E e \in Ends(T, u) : (\A d \in Ends(T, u) : d <= e) /\ e < i /\ p = <<e + 1, Late(u.who), <<u.who, i>>>>
PutAsGuest(T, u, i, p) == IsGuest(T, u) /\ p = <<u.end, Late(u.who), <<u.who, i>>>>
PutAlone(T, u, i, p) ==
  GuestsOf(T, u) = {} /\ ~IsGuest(T, u) /\ p = <<u.start, Early(u.who), <<u.who, i>>>>
PutAt(T, u, i, p) ==
  PutCut(T, u, i, p) \/ PutBehind(T, u, i, p) \/ PutAsGuest(T, u, i, p) \/ PutAlone(T, u, i, p)

LEMMA Opposed ==
  ASSUME NEW who \in Speakers
  PROVE  Opposite(who) \in Speakers /\ Opposite(Opposite(who)) = who /\ Opposite(who) # who
BY DEF Speakers, Opposite

LEMMA GuestFacts ==
  ASSUME NEW T, Len(T) \in Nat, integration \in Nat, NEW who \in Speakers, NEW u \in Segments(T, who),
         NEW v \in GuestsOf(T, u)
  PROVE  /\ v \in Segments(T, Opposite(who)) /\ v.who = Opposite(who) /\ u.who = who
         /\ u.start <= v.start /\ v.start <= v.end /\ v.end <= u.end
         /\ v.start \in Nat \ {0} /\ v.end \in Nat \ {0}
<1>1. u.who = who /\ u.start \in Nat /\ u.end \in Nat
  BY SegmentNumbers
<1>2. v \in Segments(T, Opposite(who)) /\ Inside(v, u)
  BY <1>1 DEF GuestsOf
<1>3. v.who = Opposite(who) /\ v.start \in Nat \ {0} /\ v.end \in Nat \ {0} /\ v.start <= v.end
  BY <1>2, SegmentNumbers
<1>4. u.start <= v.start /\ v.end <= u.end
  BY <1>1, <1>2, <1>3 DEF Inside
<1> QED
  BY <1>1, <1>2, <1>3, <1>4

\* A segment that takes others in is not taken in itself.
LEMMA NotBoth ==
  ASSUME NEW T, Len(T) \in Nat, integration \in Nat, NEW who \in Speakers, NEW u \in Segments(T, who),
         GuestsOf(T, u) # {}
  PROVE  ~IsGuest(T, u)
<1>1. PICK g \in GuestsOf(T, u) : TRUE
  OBVIOUS
<1>2. u.who = who /\ u.start \in Nat /\ u.end \in Nat /\ u.start <= u.end
  BY SegmentNumbers
<1>3. SUFFICES ASSUME NEW v \in Segments(T, Opposite(who)), u \in GuestsOf(T, v) PROVE FALSE
  BY <1>2 DEF IsGuest
<1>4. Opposite(who) \in Speakers
  BY Opposed
<1>5. v.who = Opposite(who) /\ v.start <= u.start /\ u.end <= v.end
  BY <1>3, <1>4, GuestFacts
<1>6. g \in Segments(T, Opposite(who)) /\ u.start <= g.start /\ g.start <= g.end /\ g.end <= u.end
      /\ g.start \in Nat /\ g.end \in Nat
  BY GuestFacts
<1>7. v.start \in Nat /\ v.end \in Nat
  BY SegmentNumbers
<1>8. g.start <= v.end /\ v.start <= g.end
  BY <1>2, <1>5, <1>6, <1>7
<1>9. g = v
  BY <1>6, <1>8, OneSegment
<1>10. u.who = "other" \/ ~Inside(u, g)
  BY DEF GuestsOf
<1>11. v.who = "other" \/ ~Inside(v, u)
  BY <1>3 DEF GuestsOf
<1>12. Inside(u, g) /\ Inside(v, u)
  BY <1>2, <1>5, <1>6, <1>7, <1>9 DEF Inside
<1> QED
  BY <1>2, <1>5, <1>9, <1>10, <1>11, <1>12, Opposed

LEMMA HostFacts ==
  ASSUME NEW T, Len(T) \in Nat, integration \in Nat, NEW who \in Speakers, NEW u \in Segments(T, who)
  PROVE  /\ u.start \in Nat \ {0} /\ u.end \in Nat /\ u.who = who
         /\ u.chunks \subseteq Nat /\ \A i \in u.chunks : u.start <= i /\ i <= u.end
         /\ \A g \in GuestsOf(T, u) : g.end \in Nat /\ g.end <= u.end
         /\ Ends(T, u) \in SUBSET Nat /\ \A e \in Ends(T, u) : u.start <= e /\ e <= u.end
<1>1. u.start \in Nat \ {0} /\ u.end \in Nat /\ u.who = who
      /\ u.chunks \subseteq Nat /\ \A i \in u.chunks : u.start <= i /\ i <= u.end
  BY SegmentNumbers
<1>2. \A g \in GuestsOf(T, u) : g.end \in Nat /\ g.end <= u.end /\ u.start <= g.end
  <2>1. ASSUME NEW g \in GuestsOf(T, u) PROVE g.end \in Nat /\ g.end <= u.end /\ u.start <= g.end
    <3>1. u.start <= g.start /\ g.start <= g.end /\ g.end <= u.end /\ g.start \in Nat /\ g.end \in Nat
      BY GuestFacts
    <3> QED
      BY <1>1, <3>1
  <2> QED
    BY <2>1
<1>3. Ends(T, u) \in SUBSET Nat /\ \A e \in Ends(T, u) : u.start <= e /\ e <= u.end
  BY <1>2 DEF Ends
<1> QED
  BY <1>1, <1>2, <1>3

LEMMA HostPlaces ==
  ASSUME NEW T, Len(T) \in Nat, integration \in Nat, NEW who \in Speakers, NEW u \in Segments(T, who),
         GuestsOf(T, u) # {}, NEW p
  PROVE  p \in Splice(u, GuestsOf(T, u), Early(who), Late(Opposite(who)), Late(who)) <=>
           \/ \E i \in u.chunks : PutCut(T, u, i, p) \/ PutBehind(T, u, i, p)
           \/ \E g \in GuestsOf(T, u) : \E i \in g.chunks : p = <<g.end, Late(g.who), <<g.who, i>>>>
<1> DEFINE G == GuestsOf(T, u)
           own == Early(who)
           guest == Late(Opposite(who))
           tail == Late(who)
<1>1. /\ u.start \in Nat \ {0} /\ u.end \in Nat /\ u.who = who
      /\ u.chunks \subseteq Nat /\ \A i \in u.chunks : u.start <= i /\ i <= u.end
      /\ \A g \in G : g.end \in Nat /\ g.end <= u.end
  BY HostFacts
<1>2. \A g \in G : g.who = Opposite(who)
  BY GuestFacts
<1>3. (\E g \in G : \E i \in g.chunks : p = <<g.end, guest, <<g.who, i>>>>)
        <=> \E g \in G : \E i \in g.chunks : p = <<g.end, Late(g.who), <<g.who, i>>>>
  BY <1>2
<1>4. Ends(T, u) = {g.end : g \in G} /\ G # {}
  BY DEF Ends
<1> HIDE DEF G, own, guest, tail
<1>5. p \in Splice(u, G, own, guest, tail) <=> IsSplice(u, G, own, guest, tail, p)
  BY <1>1, <1>4, SpliceIs
<1>6. IsSplice(u, G, own, guest, tail, p) <=>
         \/ \E i \in u.chunks : \E e \in Ends(T, u) : CutAt(Ends(T, u), i, e) /\ p = <<e, own, <<who, i>>>>
         \/ \E i \in u.chunks : \E e \in Ends(T, u) :
              (\A d \in Ends(T, u) : d <= e) /\ e < i /\ p = <<e + 1, tail, <<who, i>>>>
         \/ \E g \in G : \E i \in g.chunks : p = <<g.end, guest, <<g.who, i>>>>
  BY <1>1, <1>4, Zenon DEF IsSplice
<1>7. \A i \in u.chunks : PutCut(T, u, i, p)
        <=> \E e \in Ends(T, u) : CutAt(Ends(T, u), i, e) /\ p = <<e, own, <<who, i>>>>
  BY <1>1 DEF PutCut, own
<1>8. \A i \in u.chunks : PutBehind(T, u, i, p)
        <=> \E e \in Ends(T, u) :
              (\A d \in Ends(T, u) : d <= e) /\ e < i /\ p = <<e + 1, tail, <<who, i>>>>
  BY <1>1 DEF PutBehind, tail
<1>9. p \in Splice(u, G, own, guest, tail) <=>
           \/ \E i \in u.chunks : PutCut(T, u, i, p) \/ PutBehind(T, u, i, p)
           \/ \E g \in G : \E i \in g.chunks : p = <<g.end, Late(g.who), <<g.who, i>>>>
  BY <1>3, <1>5, <1>6, <1>7, <1>8
<1> QED
  BY <1>9 DEF G, own, guest, tail

LEMMA SpeechPlacesAre ==
  ASSUME NEW T, Len(T) \in Nat, integration \in Nat, NEW p
  PROVE  p \in SpeechPlaces(T) <=>
           \E who \in Speakers : \E u \in Segments(T, who) : \E i \in u.chunks : PutAt(T, u, i, p)
<1> DEFINE selfs == Segments(T, "self")
           others == Segments(T, "other")
           WithinOther(o) == {s \in selfs : Inside(s, o)}
           WithinSelf(s) == {o \in others : Inside(o, s) /\ ~Inside(s, o)}
           otherHosts == {o \in others : WithinOther(o) # {}}
           selfGuests == UNION {WithinOther(o) : o \in others}
           selfHosts == {s \in selfs \ selfGuests : WithinSelf(s) # {}}
           otherGuests == UNION {WithinSelf(s) : s \in selfHosts}
           A == UNION {Splice(o, WithinOther(o), OtherSpeech, SelfSpeech, Continuation) : o \in otherHosts}
           B == UNION {Splice(s, WithinSelf(s), SelfSpeech, Continuation, SelfSpeech) : s \in selfHosts}
           C == UNION {Placed(s.start, SelfSpeech, Chunks("self", s.chunks)) :
                         s \in selfs \ (selfGuests \cup selfHosts)}
           D == UNION {Placed(o.start, OtherSpeech, Chunks("other", o.chunks)) :
                         o \in others \ (otherGuests \cup otherHosts)}
<1>1. SpeechPlaces(T) = ((A \cup B) \cup C) \cup D
  BY DEF SpeechPlaces
<1>2. (\A u \in selfs : u.who = "self") /\ (\A u \in others : u.who = "other")
  BY SegmentNumbers
<1>3. (\A u \in others : WithinOther(u) = GuestsOf(T, u)) /\ (\A u \in selfs : WithinSelf(u) = GuestsOf(T, u))
  BY <1>2 DEF GuestsOf, Opposite
<1>4. otherHosts = {u \in others : GuestsOf(T, u) # {}}
  BY <1>3
<1>5. \A u \in selfs : u \in selfGuests <=> IsGuest(T, u)
  <2> HIDE DEF WithinOther
  <2>1. \A u : u \in selfGuests <=> \E v \in others : u \in GuestsOf(T, v)
    BY <1>3
  <2> HIDE DEF selfGuests
  <2> QED
    BY <1>2, <2>1 DEF IsGuest, Opposite
<1>6. selfHosts = {u \in selfs : GuestsOf(T, u) # {}}
  <2>1. \A u \in selfs : GuestsOf(T, u) # {} => ~IsGuest(T, u)
    BY NotBoth DEF Speakers
  <2> HIDE DEF selfGuests, selfs
  <2>2. selfHosts = {u \in selfs \ selfGuests : GuestsOf(T, u) # {}}
    BY <1>3
  <2> QED
    BY <1>5, <2>1, <2>2
<1>7. \A u \in others : u \in otherGuests <=> IsGuest(T, u)
  <2> HIDE DEF WithinSelf, selfHosts, selfs
  <2>1. \A u : u \in otherGuests <=> \E v \in selfHosts : u \in GuestsOf(T, v)
    BY <1>3, <1>6
  <2>2. \A u : u \in otherGuests <=> \E v \in selfs : u \in GuestsOf(T, v)
    BY <1>6, <2>1
  <2> HIDE DEF otherGuests
  <2> QED
    BY <1>2, <2>2 DEF IsGuest, Opposite, selfs
<1>8. /\ Early("self") = SelfSpeech /\ Late("self") = SelfSpeech
      /\ Early("other") = OtherSpeech /\ Late("other") = Continuation
      /\ Opposite("self") = "other" /\ Opposite("other") = "self"
      /\ "self" \in Speakers /\ "other" \in Speakers
  BY DEF Early, Late, Opposite, Speakers
<1> HIDE DEF WithinOther, WithinSelf, otherHosts, selfGuests, selfHosts, otherGuests
<1> DEFINE Parts1(u) == \E i \in u.chunks : PutCut(T, u, i, p) \/ PutBehind(T, u, i, p)
           Parts2(u) == \E g \in GuestsOf(T, u) : \E i \in g.chunks : p = <<g.end, Late(g.who), <<g.who, i>>>>
<1>9. p \in A <=> \E u \in others : GuestsOf(T, u) # {} /\ (Parts1(u) \/ Parts2(u))
  <2>1. p \in A <=> \E u \in otherHosts : p \in Splice(u, WithinOther(u), OtherSpeech, SelfSpeech, Continuation)
    OBVIOUS
  <2>2. ASSUME NEW u \in others, GuestsOf(T, u) # {}
        PROVE  p \in Splice(u, GuestsOf(T, u), OtherSpeech, SelfSpeech, Continuation) <=> Parts1(u) \/ Parts2(u)
    BY <1>8, <2>2, HostPlaces
  <2> HIDE DEF A, Parts1, Parts2
  <2> QED
    BY <1>3, <1>4, <2>1, <2>2
<1>10. p \in B <=> \E u \in selfs : GuestsOf(T, u) # {} /\ (Parts1(u) \/ Parts2(u))
  <2>1. p \in B <=> \E u \in selfHosts : p \in Splice(u, WithinSelf(u), SelfSpeech, Continuation, SelfSpeech)
    OBVIOUS
  <2>2. ASSUME NEW u \in selfs, GuestsOf(T, u) # {}
        PROVE  p \in Splice(u, GuestsOf(T, u), SelfSpeech, Continuation, SelfSpeech) <=> Parts1(u) \/ Parts2(u)
    BY <1>8, <2>2, HostPlaces
  <2> HIDE DEF B, Parts1, Parts2
  <2> QED
    BY <1>3, <1>6, <2>1, <2>2
<1>11. p \in C <=> \E u \in selfs : \E i \in u.chunks : PutAlone(T, u, i, p)
  <2>1. p \in C <=> \E u \in selfs \ (selfGuests \cup selfHosts) : \E i \in u.chunks :
                      p = <<u.start, SelfSpeech, <<"self", i>>>>
    BY DEF Placed, Chunks
  <2>2. \A u \in selfs : u \notin selfGuests \cup selfHosts <=> GuestsOf(T, u) = {} /\ ~IsGuest(T, u)
    BY <1>5, <1>6
  <2> HIDE DEF C
  <2>3. \A u \in selfs : \A i : PutAlone(T, u, i, p) <=>
          u \notin selfGuests \cup selfHosts /\ p = <<u.start, SelfSpeech, <<"self", i>>>>
    BY <1>2, <1>8, <2>2 DEF PutAlone
  <2> HIDE DEF selfs
  <2> QED
    BY <2>1, <2>3
<1>12. p \in D <=> \E u \in others : \E i \in u.chunks : PutAlone(T, u, i, p)
  <2>1. p \in D <=> \E u \in others \ (otherGuests \cup otherHosts) : \E i \in u.chunks :
                      p = <<u.start, OtherSpeech, <<"other", i>>>>
    BY DEF Placed, Chunks
  <2>2. \A u \in others : u \notin otherGuests \cup otherHosts <=> GuestsOf(T, u) = {} /\ ~IsGuest(T, u)
    BY <1>4, <1>7
  <2> HIDE DEF D
  <2>3. \A u \in others : \A i : PutAlone(T, u, i, p) <=>
          u \notin otherGuests \cup otherHosts /\ p = <<u.start, OtherSpeech, <<"other", i>>>>
    BY <1>2, <1>8, <2>2 DEF PutAlone
  <2> HIDE DEF others
  <2> QED
    BY <2>1, <2>3
<1> HIDE DEF A, B, C, D
<1>13. (\E u \in selfs : GuestsOf(T, u) # {} /\ Parts2(u)) <=> \E u \in others : \E i \in u.chunks : PutAsGuest(T, u, i, p)
  <2>1. \A u \in selfs : GuestsOf(T, u) \subseteq others
    BY <1>2, <1>8 DEF GuestsOf
  <2>2. \A g \in others : IsGuest(T, g) <=> \E u \in selfs : g \in GuestsOf(T, u)
    BY <1>2, <1>8 DEF IsGuest
  <2> HIDE DEF selfs, others
  <2> QED
    BY <2>1, <2>2 DEF PutAsGuest
<1>14. (\E u \in others : GuestsOf(T, u) # {} /\ Parts2(u)) <=> \E u \in selfs : \E i \in u.chunks : PutAsGuest(T, u, i, p)
  <2>1. \A u \in others : GuestsOf(T, u) \subseteq selfs
    BY <1>2, <1>8 DEF GuestsOf
  <2>2. \A g \in selfs : IsGuest(T, g) <=> \E u \in others : g \in GuestsOf(T, u)
    BY <1>2, <1>8 DEF IsGuest
  <2> HIDE DEF selfs, others
  <2> QED
    BY <2>1, <2>2 DEF PutAsGuest
<1>15. \A u : (GuestsOf(T, u) # {} /\ Parts1(u)) <=> Parts1(u)
  BY DEF PutCut, PutBehind
<1> HIDE DEF Parts2
<1>16. p \in SpeechPlaces(T) <=>
         \/ \E u \in selfs : \E i \in u.chunks : PutAt(T, u, i, p)
         \/ \E u \in others : \E i \in u.chunks : PutAt(T, u, i, p)
  <2>1. p \in SpeechPlaces(T) <=>
          \/ \E u \in others : Parts1(u)
          \/ \E u \in selfs : Parts1(u)
          \/ \E u \in selfs : \E i \in u.chunks : PutAsGuest(T, u, i, p)
          \/ \E u \in others : \E i \in u.chunks : PutAsGuest(T, u, i, p)
          \/ \E u \in selfs : \E i \in u.chunks : PutAlone(T, u, i, p)
          \/ \E u \in others : \E i \in u.chunks : PutAlone(T, u, i, p)
    <3> HIDE DEF Parts1, selfs, others
    <3> QED
      BY <1>1, <1>9, <1>10, <1>11, <1>12, <1>13, <1>14, <1>15
  <2> HIDE DEF selfs, others
  <2> QED
    BY <2>1 DEF PutAt
<1> QED
  BY <1>16 DEF Speakers

-----------------------------------------------------------------------------
(* The order of the places of two chunks.                                  *)

LEMMA PutWithin ==
  ASSUME NEW T, Len(T) \in Nat, integration \in Nat \ {0}, NEW who \in Speakers, NEW u \in Segments(T, who),
         NEW i \in u.chunks, NEW p, PutAt(T, u, i, p)
  PROVE  /\ p = <<p[1], p[2], <<who, i>>>> /\ p[3] = <<who, i>> /\ p[1] \in Nat \ {0}
         /\ p[3][1] = who /\ p[3][2] = i
         /\ u.start <= p[1] /\ p[1] <= u.end /\ p[2] \in {Early(who), Late(who)}
<1>1. /\ u.start \in Nat \ {0} /\ u.end \in Nat /\ u.who = who
      /\ Ends(T, u) \in SUBSET Nat /\ \A e \in Ends(T, u) : u.start <= e /\ e <= u.end
  BY HostFacts
<1>2. i \in Nat /\ u.start <= u.end /\ u.start <= i /\ i <= u.end
  BY SegmentNumbers
<1>3. CASE PutCut(T, u, i, p)
  <2>1. PICK e \in Ends(T, u) : p = <<e, Early(u.who), <<u.who, i>>>>
    BY <1>3 DEF PutCut
  <2> QED
    BY <1>1, <2>1
<1>4. CASE PutBehind(T, u, i, p)
  <2>1. PICK e \in Ends(T, u) : e < i /\ p = <<e + 1, Late(u.who), <<u.who, i>>>>
    BY <1>4 DEF PutBehind
  <2>2. e \in Nat /\ u.start <= e + 1 /\ e + 1 <= u.end /\ e + 1 \in Nat \ {0}
    BY <1>1, <1>2, <2>1
  <2> QED
    BY <1>1, <2>1, <2>2
<1>5. CASE PutAsGuest(T, u, i, p)
  <2>1. p = <<u.end, Late(u.who), <<u.who, i>>>>
    BY <1>5 DEF PutAsGuest
  <2>2. u.end \in Nat \ {0}
    BY <1>1, <1>2
  <2> QED
    BY <1>1, <1>2, <2>1, <2>2
<1>6. CASE PutAlone(T, u, i, p)
  <2>1. p = <<u.start, Early(u.who), <<u.who, i>>>>
    BY <1>6 DEF PutAlone
  <2> QED
    BY <1>1, <1>2, <2>1
<1> QED
  BY <1>3, <1>4, <1>5, <1>6 DEF PutAt

\* Chunks of one segment keep their order.
LEMMA SameSegment ==
  ASSUME NEW T, Len(T) \in Nat, integration \in Nat \ {0}, NEW who \in Speakers, NEW u \in Segments(T, who),
         NEW i \in u.chunks, NEW j \in u.chunks, i <= j,
         NEW p, PutAt(T, u, i, p), NEW q, PutAt(T, u, j, q)
  PROVE  (i < j => Sooner(p, q)) /\ (i = j => p = q)
<1>1. /\ u.start \in Nat \ {0} /\ u.end \in Nat /\ u.who = who /\ i \in Nat /\ j \in Nat
      /\ Ends(T, u) \in SUBSET Nat
  BY HostFacts
<1>2. p[3][2] = i /\ q[3][2] = j
  BY PutWithin
<1>3. CASE GuestsOf(T, u) = {}
  <2>1. (PutAsGuest(T, u, i, p) \/ PutAlone(T, u, i, p)) /\ (PutAsGuest(T, u, j, q) \/ PutAlone(T, u, j, q))
    BY <1>3 DEF PutAt, PutCut, PutBehind
  <2>2. \/ p = <<u.end, Late(u.who), <<u.who, i>>>> /\ q = <<u.end, Late(u.who), <<u.who, j>>>>
        \/ p = <<u.start, Early(u.who), <<u.who, i>>>> /\ q = <<u.start, Early(u.who), <<u.who, j>>>>
    BY <2>1 DEF PutAsGuest, PutAlone
  <2>3. p[1] = q[1] /\ p[2] = q[2] /\ (i = j => p = q)
    BY <2>2
  <2> QED
    BY <1>2, <2>3 DEF Sooner
<1>4. CASE GuestsOf(T, u) # {}
  <2>1. ~IsGuest(T, u)
    BY <1>4, NotBoth
  <2>2. (PutCut(T, u, i, p) \/ PutBehind(T, u, i, p)) /\ (PutCut(T, u, j, q) \/ PutBehind(T, u, j, q))
    BY <1>4, <2>1 DEF PutAt, PutAsGuest, PutAlone
  <2>3. CASE PutCut(T, u, i, p) /\ PutCut(T, u, j, q)
    <3>1. PICK d \in Ends(T, u) : CutAt(Ends(T, u), i, d) /\ p = <<d, Early(u.who), <<u.who, i>>>>
      BY <2>3 DEF PutCut
    <3>2. PICK e \in Ends(T, u) : CutAt(Ends(T, u), j, e) /\ q = <<e, Early(u.who), <<u.who, j>>>>
      BY <2>3 DEF PutCut
    <3>3. d \in Nat /\ e \in Nat
      BY <1>1
    <3>4. d <= e
      <4>1. j <= e /\ (e < d => e < i)
        BY <3>1, <3>2 DEF CutAt
      <4> QED
        BY <1>1, <3>3, <4>1
    <3>5. i = j => e <= d
      <4>1. i <= d /\ (d < e => d < j)
        BY <3>1, <3>2 DEF CutAt
      <4> QED
        BY <1>1, <3>3, <4>1
    <3>6. p[1] = d /\ q[1] = e /\ p[2] = q[2]
      BY <3>1, <3>2
    <3>7. i < j => Sooner(p, q)
      <4>1. d < e \/ d = e
        BY <3>3, <3>4
      <4> QED
        BY <1>2, <3>6, <4>1 DEF Sooner
    <3>8. i = j => d = e
      BY <3>3, <3>4, <3>5
    <3> QED
      BY <3>1, <3>2, <3>7, <3>8
  <2>4. CASE PutCut(T, u, i, p) /\ PutBehind(T, u, j, q)
    <3>1. PICK d \in Ends(T, u) : CutAt(Ends(T, u), i, d) /\ p = <<d, Early(u.who), <<u.who, i>>>>
      BY <2>4 DEF PutCut
    <3>2. PICK e \in Ends(T, u) : /\ \A c \in Ends(T, u) : c <= e
                                  /\ e < j /\ q = <<e + 1, Late(u.who), <<u.who, j>>>>
      BY <2>4 DEF PutBehind
    <3>3. d \in Nat /\ e \in Nat /\ d <= e /\ i <= d /\ e < j
      BY <1>1, <3>1, <3>2 DEF CutAt
    <3>4. p[1] < q[1] /\ i # j
      BY <1>1, <3>1, <3>2, <3>3
    <3> QED
      BY <3>4 DEF Sooner
  <2>5. CASE PutBehind(T, u, i, p) /\ PutCut(T, u, j, q)
    <3>1. PICK e \in Ends(T, u) : (\A c \in Ends(T, u) : c <= e) /\ e < i
      BY <2>5 DEF PutBehind
    <3>2. PICK d \in Ends(T, u) : j <= d
      BY <2>5 DEF PutCut, CutAt
    <3>3. d \in Nat /\ e \in Nat /\ d <= e
      BY <1>1, <3>1
    <3> QED
      BY <1>1, <3>1, <3>2, <3>3
  <2>6. CASE PutBehind(T, u, i, p) /\ PutBehind(T, u, j, q)
    <3>1. PICK d \in Ends(T, u) : /\ \A c \in Ends(T, u) : c <= d
                                  /\ p = <<d + 1, Late(u.who), <<u.who, i>>>>
      BY <2>6 DEF PutBehind
    <3>2. PICK e \in Ends(T, u) : /\ \A c \in Ends(T, u) : c <= e
                                  /\ q = <<e + 1, Late(u.who), <<u.who, j>>>>
      BY <2>6 DEF PutBehind
    <3>3. d = e
      <4>1. d \in Nat /\ e \in Nat /\ d <= e /\ e <= d
        BY <1>1, <3>1, <3>2
      <4> QED
        BY <4>1
    <3>4. p[1] = q[1] /\ p[2] = q[2] /\ (i = j => p = q)
      BY <3>1, <3>2, <3>3
    <3> QED
      BY <1>2, <3>4 DEF Sooner
  <2> QED
    BY <2>2, <2>3, <2>4, <2>5, <2>6
<1> QED
  BY <1>3, <1>4

LEMMA PutSomewhere ==
  ASSUME NEW T, Len(T) \in Nat, integration \in Nat \ {0}, NEW who \in Speakers, NEW u \in Segments(T, who),
         NEW i \in u.chunks
  PROVE  \E p : PutAt(T, u, i, p)
<1>1. /\ u.end \in Nat /\ i \in Nat /\ Ends(T, u) \in SUBSET Nat /\ \A e \in Ends(T, u) : e <= u.end
  BY HostFacts
<1>2. CASE IsGuest(T, u)
  BY <1>2 DEF PutAt, PutAsGuest
<1>3. CASE ~IsGuest(T, u) /\ GuestsOf(T, u) = {}
  BY <1>3 DEF PutAt, PutAlone
<1>4. CASE GuestsOf(T, u) # {}
  <2> DEFINE S == Ends(T, u)
  <2>1. S # {} /\ S \in SUBSET Nat /\ \A e \in S : e <= u.end
    BY <1>1, <1>4 DEF Ends
  <2>2. PICK last \in S : \A d \in S : d <= last
    <3> HIDE DEF S
    <3> QED
      BY <1>1, <2>1, HasGreatest
  <2>3. CASE i <= last
    <3>1. PICK e \in S : CutAt(S, i, e)
      BY <1>1, <2>2, <2>3, CutExists
    <3>2. PutCut(T, u, i, <<e, Early(u.who), <<u.who, i>>>>)
      BY <1>4, <3>1 DEF PutCut
    <3> QED
      BY <3>2 DEF PutAt
  <2>4. CASE ~(i <= last)
    <3>1. last < i
      BY <1>1, <2>4
    <3>2. PutBehind(T, u, i, <<last + 1, Late(u.who), <<u.who, i>>>>)
      BY <1>4, <2>2, <3>1 DEF PutBehind
    <3> QED
      BY <3>2 DEF PutAt
  <2> QED
    BY <2>3, <2>4
<1> QED
  BY <1>2, <1>3, <1>4

\* A guest lies before what the host says after it, and behind the rest.
LEMMA GuestAndHost ==
  ASSUME NEW T, Len(T) \in Nat, integration \in Nat \ {0}, NEW who \in Speakers,
         NEW u \in Segments(T, who), NEW v \in Segments(T, Opposite(who)), v \in GuestsOf(T, u),
         NEW i \in u.chunks, NEW j \in v.chunks, NEW p, PutAt(T, u, i, p), NEW q, PutAt(T, v, j, q)
  PROVE  (i <= v.end => Sooner(p, q)) /\ (i > v.end => Sooner(q, p))
<1>1. /\ u.who = who /\ i \in Nat /\ Ends(T, u) \in SUBSET Nat /\ Opposite(who) \in Speakers
  BY HostFacts, Opposed
<1>2. v.who = Opposite(who) /\ v.end \in Nat
  BY GuestFacts
<1>3. IsGuest(T, v)
  BY <1>2, Opposed DEF IsGuest
<1>4. GuestsOf(T, v) = {} /\ ~IsGuest(T, u)
  BY <1>1, <1>3, NotBoth
<1>5. q = <<v.end, Late(Opposite(who)), <<Opposite(who), j>>>>
  BY <1>2, <1>3, <1>4 DEF PutAt, PutCut, PutBehind, PutAsGuest, PutAlone
<1>6. Early(who) < Late(Opposite(who))
  BY DEF Speakers, Early, Late, Opposite, SelfSpeech, OtherSpeech, Continuation
<1>7. v.end \in Ends(T, u)
  BY DEF Ends
<1>8. CASE PutCut(T, u, i, p)
  <2>1. PICK e \in Ends(T, u) : CutAt(Ends(T, u), i, e) /\ p = <<e, Early(u.who), <<u.who, i>>>>
    BY <1>8 DEF PutCut
  <2>2. e \in Nat /\ i <= e /\ (v.end < e => v.end < i)
    BY <1>1, <1>7, <2>1 DEF CutAt
  <2>3. p[1] = e /\ p[2] = Early(who) /\ q[1] = v.end /\ q[2] = Late(Opposite(who))
    BY <1>1, <1>5, <2>1
  <2>4. i <= v.end => p[1] < q[1] \/ p[1] = q[1]
    BY <1>1, <1>2, <2>2, <2>3
  <2>5. i > v.end => q[1] < p[1]
    BY <1>1, <1>2, <2>2, <2>3
  <2> QED
    BY <1>6, <2>3, <2>4, <2>5 DEF Sooner
<1>9. CASE PutBehind(T, u, i, p)
  <2>1. PICK e \in Ends(T, u) : /\ \A c \in Ends(T, u) : c <= e
                                /\ e < i /\ p = <<e + 1, Late(u.who), <<u.who, i>>>>
    BY <1>9 DEF PutBehind
  <2>2. e \in Nat /\ v.end <= e
    BY <1>1, <1>7, <2>1
  <2>3. q[1] < p[1] /\ ~(i <= v.end)
    BY <1>1, <1>2, <1>5, <2>1, <2>2
  <2> QED
    BY <2>3 DEF Sooner
<1> QED
  BY <1>4, <1>8, <1>9, <1>7 DEF PutAt, PutAsGuest, PutAlone

\* Of two segments neither of which takes in the other, the first to start lies before.
LEMMA FirstToStart ==
  ASSUME NEW T, Len(T) \in Nat, integration \in Nat \ {0}, NEW who \in Speakers,
         NEW u \in Segments(T, who), NEW v \in Segments(T, Opposite(who)),
         v \notin GuestsOf(T, u), u \notin GuestsOf(T, v), u.start < v.start,
         NEW i \in u.chunks, NEW p, PutAt(T, u, i, p)
  PROVE  p[1] < v.start
<1>1. /\ u.who = who /\ i \in Nat /\ u.start \in Nat /\ u.end \in Nat /\ Ends(T, u) \in SUBSET Nat
      /\ Opposite(who) \in Speakers /\ Opposite(Opposite(who)) = who
  BY HostFacts, Opposed
<1>2. v.who = Opposite(who) /\ v.start \in Nat /\ v.end \in Nat /\ v.start <= v.end /\ integration >= 1
  BY SegmentNumbers
<1>3. u.end < v.end
  <2>1. ~Inside(u, v)
    BY <1>1, <1>2 DEF Inside
  <2>2. ~Inside(v, u)
    BY <1>1, <1>2, <2>1 DEF GuestsOf
  <2> QED
    BY <1>1, <1>2, <2>2 DEF Inside
<1>4. ASSUME NEW e \in Ends(T, u) PROVE e + 1 < v.start /\ e < v.start
  <2>1. PICK g \in GuestsOf(T, u) : e = g.end
    BY DEF Ends
  <2>2. /\ g \in Segments(T, Opposite(who)) /\ u.start <= g.start /\ g.start <= g.end /\ g.end <= u.end
        /\ g.start \in Nat /\ g.end \in Nat
    BY GuestFacts
  <2>3. g.start # v.start
    BY <2>2, SegmentFacts
  <2>4. ~(v.start < g.start)
    <3>1. v.start < g.start => v.end + integration < g.start
      BY <2>2, Apart
    <3> QED
      BY <1>1, <1>2, <1>3, <2>2, <3>1
  <2>5. g.start < v.start
    BY <1>2, <2>2, <2>3, <2>4
  <2>6. g.end + integration < v.start
    BY <2>2, <2>5, Apart
  <2> QED
    BY <1>2, <2>1, <2>2, <2>6
<1>5. CASE PutCut(T, u, i, p) \/ PutBehind(T, u, i, p)
  <2>1. PICK e \in Ends(T, u) : p[1] = e \/ p[1] = e + 1
    BY <1>5 DEF PutCut, PutBehind
  <2> QED
    BY <1>4, <2>1
<1>6. CASE PutAsGuest(T, u, i, p)
  <2>1. p[1] = u.end /\ IsGuest(T, u)
    BY <1>6 DEF PutAsGuest
  <2>2. PICK h \in Segments(T, Opposite(who)) : u \in GuestsOf(T, h)
    BY <1>1, <2>1 DEF IsGuest
  <2>3. h.start <= u.start /\ u.end <= h.end /\ h.start \in Nat /\ h.end \in Nat
    <3>1. h.start \in Nat /\ h.end \in Nat
      BY SegmentNumbers
    <3>2. h.start <= u.start /\ u.end <= h.end
      BY <1>1, <2>2, GuestFacts
    <3> QED
      BY <3>1, <3>2
  <2>4. h.start < v.start
    BY <1>1, <1>2, <2>3
  <2>5. h.end + integration < v.start
    BY <2>4, Apart
  <2> QED
    BY <1>1, <1>2, <2>1, <2>3, <2>5
<1>7. CASE PutAlone(T, u, i, p)
  BY <1>7 DEF PutAlone
<1> QED
  BY <1>5, <1>6, <1>7 DEF PutAt

-----------------------------------------------------------------------------
(* All places.                                                             *)

SpeechPlace(T, p) == \E who \in Speakers : \E u \in Segments(T, who) : \E i \in u.chunks : PutAt(T, u, i, p)
CallPlace(T, p) == \E c \in Calls(T) : p = <<c, Tool, <<"call", c>>>>
ResultPlace(T, p) == \E c \in Calls(T) : \E r \in ResultsOf(T, c) : p = <<c, Tool, <<"result", r>>>>
SilencePlace(T, p) == \E i \in Silences(T) : p = <<i, Silence, <<"silence", i>>>>

LEMMA PlacesAre ==
  ASSUME NEW T, Len(T) \in Nat, integration \in Nat \ {0}, NEW p
  PROVE  p \in AllPlaces(T) <=> SpeechPlace(T, p) \/ CallPlace(T, p) \/ ResultPlace(T, p) \/ SilencePlace(T, p)
<1>1. p \in SpeechPlaces(T) <=> SpeechPlace(T, p)
  BY SpeechPlacesAre DEF SpeechPlace
<1>2. p \in ToolPlaces(T) <=> CallPlace(T, p) \/ ResultPlace(T, p)
  BY DEF ToolPlaces, Placed, Chunks, CallPlace, ResultPlace
<1>3. p \in SilencePlaces(T) <=> SilencePlace(T, p)
  BY DEF SilencePlaces, Placed, SilencePlace
<1> QED
  BY <1>1, <1>2, <1>3 DEF AllPlaces

IsPlace(T, p) ==
  /\ p = <<p[1], p[2], <<p[3][1], p[3][2]>>>>
  /\ p[1] \in 1..Len(T) /\ p[2] \in (-1)..3 /\ p[3][2] \in 1..Len(T)
  /\ \/ p[2] = 1 /\ p[3][1] = "self"
     \/ p[2] \in {0, 3} /\ p[3][1] = "other"
     \/ p[2] = 2 /\ p[3][1] = "call" /\ p[1] = p[3][2]
     \/ p[2] = 2 /\ p[3][1] = "result" /\ p[1] < p[3][2]
     \/ p[2] = -1 /\ p[3][1] = "silence" /\ p[1] = p[3][2]

LEMMA PlaceFacts ==
  ASSUME NEW T, Len(T) \in Nat, integration \in Nat \ {0}, SilenceTicks \in Nat \ {0}, NEW p \in AllPlaces(T)
  PROVE  IsPlace(T, p)
<1>1. CASE SpeechPlace(T, p)
  <2>1. PICK who, u, i : /\ who \in Speakers /\ u \in Segments(T, who) /\ i \in u.chunks
                       /\ PutAt(T, u, i, p)
    BY <1>1 DEF SpeechPlace
  <2>2. /\ p = <<p[1], p[2], <<who, i>>>> /\ p[3] = <<who, i>> /\ p[1] \in Nat \ {0}
        /\ u.start <= p[1] /\ p[1] <= u.end /\ p[2] \in {Early(who), Late(who)}
    BY <2>1, PutWithin
  <2>3. i \in Nat \ {0} /\ i <= u.end /\ u.end <= Len(T) /\ u.end \in Nat
    BY <2>1, SegmentNumbers
  <2>4. p[1] \in 1..Len(T) /\ i \in 1..Len(T)
    BY <2>2, <2>3
  <2>5. \/ who = "self" /\ p[2] = 1
        \/ who = "other" /\ p[2] \in {0, 3}
    BY <2>1, <2>2 DEF Speakers, Early, Late, SelfSpeech, OtherSpeech, Continuation
  <2>6. p[3][1] = who /\ p[3][2] = i
    BY <2>2
  <2>7. p[2] \in (-1)..3
    BY <2>5
  <2> QED
    BY <2>2, <2>4, <2>5, <2>6, <2>7 DEF IsPlace
<1>2. CASE CallPlace(T, p)
  <2>1. PICK c \in Calls(T) : p = <<c, Tool, <<"call", c>>>>
    BY <1>2 DEF CallPlace
  <2>2. c \in 1..Len(T)
    BY DEF Calls
  <2> QED
    BY <2>1, <2>2 DEF IsPlace, Tool
<1>3. CASE ResultPlace(T, p)
  <2>1. PICK c, r : c \in Calls(T) /\ r \in ResultsOf(T, c) /\ p = <<c, Tool, <<"result", r>>>>
    BY <1>3 DEF ResultPlace
  <2>2. c \in 1..Len(T) /\ r \in 1..Len(T) /\ c < r
    <3>1. c \in 1..Len(T) /\ r \in 1..Len(T) /\ r > c
      BY <2>1 DEF Calls, Results, ResultsOf
    <3> QED
      BY <3>1
  <2> QED
    BY <2>1, <2>2 DEF IsPlace, Tool
<1>4. CASE SilencePlace(T, p)
  <2>1. PICK i \in Silences(T) : p = <<i, Silence, <<"silence", i>>>>
    BY <1>4 DEF SilencePlace
  <2>2. i \in 1..(Len(T) - SilenceTicks + 1)
    BY DEF Silences
  <2>3. i \in 1..Len(T)
    BY <2>2
  <2> QED
    BY <2>1, <2>3 DEF IsPlace, Silence
<1> QED
  BY <1>1, <1>2, <1>3, <1>4, PlacesAre

LEMMA PlacesOrdered ==
  ASSUME NEW T, Len(T) \in Nat, integration \in Nat \ {0}, SilenceTicks \in Nat \ {0}
  PROVE  Sequenced(AllPlaces(T))
<1> DEFINE P == AllPlaces(T)
<1>1. \A p \in P : IsPlace(T, p)
  BY PlaceFacts
<1>2. \A p \in P : p[1] \in Int /\ p[2] \in Int /\ p[3][2] \in Int
  BY <1>1 DEF IsPlace
<1> HIDE DEF P
<1>3. \A p \in P : ~Sooner(p, p)
  BY <1>2 DEF Sooner
<1>4. ASSUME NEW p \in P, NEW q \in P, NEW r \in P, Sooner(p, q), Sooner(q, r) PROVE Sooner(p, r)
  <2>1. /\ p[1] \in Int /\ p[2] \in Int /\ p[3][2] \in Int
        /\ q[1] \in Int /\ q[2] \in Int /\ q[3][2] \in Int
        /\ r[1] \in Int /\ r[2] \in Int /\ r[3][2] \in Int
    BY <1>2
  <2>2. \/ p[1] < q[1]
        \/ p[1] = q[1] /\ p[2] < q[2]
        \/ p[1] = q[1] /\ p[2] = q[2] /\ p[3][2] < q[3][2]
    BY <1>4 DEF Sooner
  <2>3. \/ q[1] < r[1]
        \/ q[1] = r[1] /\ q[2] < r[2]
        \/ q[1] = r[1] /\ q[2] = r[2] /\ q[3][2] < r[3][2]
    BY <1>4 DEF Sooner
  <2>4. CASE p[1] < q[1] \/ q[1] < r[1]
    <3>1. p[1] < r[1]
      BY ONLY <2>1, <2>2, <2>3, <2>4
    <3> QED
      BY <3>1 DEF Sooner
  <2>5. CASE p[1] = q[1] /\ q[1] = r[1]
    <3>1. \/ p[2] < r[2]
          \/ p[2] = r[2] /\ p[3][2] < r[3][2]
      BY ONLY <2>1, <2>2, <2>3, <2>5
    <3> QED
      BY <2>5, <3>1 DEF Sooner
  <2> QED
    BY ONLY <2>2, <2>3, <2>4, <2>5
<1>5. ASSUME NEW p \in P, NEW q \in P, ~Sooner(p, q), ~Sooner(q, p) PROVE p = q
  <2>1. p[1] = q[1] /\ p[2] = q[2] /\ p[3][2] = q[3][2]
    BY <1>2, <1>5 DEF Sooner
  <2>2. IsPlace(T, p) /\ IsPlace(T, q)
    BY <1>1
  <2>3. p[3][1] = q[3][1]
    BY <1>2, <2>1, <2>2 DEF IsPlace
  <2>4. p = <<p[1], p[2], <<p[3][1], p[3][2]>>>> /\ q = <<q[1], q[2], <<q[3][1], q[3][2]>>>>
    BY <2>2 DEF IsPlace
  <2> QED
    BY <2>1, <2>3, <2>4
<1> QED
  BY <1>3, <1>4, <1>5 DEF Sequenced, P

LEMMA PlacesFinite ==
  ASSUME NEW T, Len(T) \in Nat, integration \in Nat \ {0}, SilenceTicks \in Nat \ {0}
  PROVE  IsFiniteSet(AllPlaces(T))
<1> DEFINE SpeechKinds == {"self", "other", "call", "result", "silence"}
           A == 1..Len(T)
           B == (-1)..3
           S == (A \X B) \X (SpeechKinds \X A)
           f == [x \in S |-> <<x[1][1], x[1][2], x[2]>>]
           I == {f[x] : x \in S}
<1>1. IsFiniteSet(A) /\ IsFiniteSet(B) /\ IsFiniteSet(SpeechKinds)
  <2>1. IsFiniteSet(A) /\ IsFiniteSet(B)
    <3>1. 1 \in Int /\ Len(T) \in Int /\ -1 \in Int /\ 3 \in Int
      OBVIOUS
    <3> QED
      BY <3>1, FS_Interval
  <2>2. IsFiniteSet({"self"}) /\ IsFiniteSet({"other"}) /\ IsFiniteSet({"call"}) /\ IsFiniteSet({"result"})
        /\ IsFiniteSet({"silence"})
    BY FS_Singleton
  <2>3. SpeechKinds = ((({"self"} \cup {"other"}) \cup {"call"}) \cup {"result"}) \cup {"silence"}
    OBVIOUS
  <2>4. IsFiniteSet({"self"} \cup {"other"})
    BY <2>2, FS_Union
  <2>5. IsFiniteSet(({"self"} \cup {"other"}) \cup {"call"})
    BY <2>2, <2>4, FS_Union
  <2>6. IsFiniteSet((({"self"} \cup {"other"}) \cup {"call"}) \cup {"result"})
    BY <2>2, <2>5, FS_Union
  <2>7. IsFiniteSet(((({"self"} \cup {"other"}) \cup {"call"}) \cup {"result"}) \cup {"silence"})
    BY <2>2, <2>6, FS_Union
  <2> HIDE DEF A, B, SpeechKinds
  <2> QED
    BY <2>1, <2>3, <2>7
<1>2. IsFiniteSet(S)
  <2> HIDE DEF A, B, SpeechKinds
  <2>1. IsFiniteSet(A \X B) /\ IsFiniteSet(SpeechKinds \X A)
    BY <1>1, FS_Product
  <2> QED
    BY <2>1, FS_Product
<1>3. IsFiniteSet(I)
  <2>1. f \in Surjection(S, I)
    <3> HIDE DEF S
    <3> QED
      BY DEF Surjection
  <2> HIDE DEF f, S, I
  <2> QED
    BY <1>2, <2>1, FS_Surjection
<1>4. ASSUME NEW p \in AllPlaces(T) PROVE p \in I
  <2> DEFINE x == <<<<p[1], p[2]>>, <<p[3][1], p[3][2]>>>>
  <2>1. IsPlace(T, p)
    BY PlaceFacts
  <2>2. p[1] \in A /\ p[2] \in B /\ p[3][1] \in SpeechKinds /\ p[3][2] \in A
    BY <2>1 DEF IsPlace
  <2>3. x \in S /\ f[x] = <<p[1], p[2], <<p[3][1], p[3][2]>>>>
    <3> HIDE DEF A, B, SpeechKinds
    <3> QED
      BY <2>2
  <2>4. f[x] = p
    BY <2>1, <2>3 DEF IsPlace
  <2> HIDE DEF f, S, x
  <2> QED
    BY <2>3, <2>4
<1> HIDE DEF I
<1> QED
  BY <1>3, <1>4, FS_Subset

\* Nothing is shown twice.
LEMMA PlacedOnce ==
  ASSUME NEW T, Len(T) \in Nat, integration \in Nat \ {0}, SilenceTicks \in Nat \ {0},
         NEW p \in AllPlaces(T), NEW q \in AllPlaces(T), p[3] = q[3]
  PROVE  p = q
<1>1. IsPlace(T, p) /\ IsPlace(T, q)
  BY PlaceFacts
<1>2. SpeechPlace(T, p) => p[3][1] \in Speakers
  BY PutWithin DEF SpeechPlace
<1>3. SpeechPlace(T, q) => q[3][1] \in Speakers
  BY PutWithin DEF SpeechPlace
<1>4. CASE p[3][1] \in Speakers
  <2>1. SpeechPlace(T, p) /\ SpeechPlace(T, q)
    BY <1>4, PlacesAre DEF CallPlace, ResultPlace, SilencePlace, Speakers
  <2>2. PICK a, u, i : /\ a \in Speakers /\ u \in Segments(T, a) /\ i \in u.chunks
                       /\ PutAt(T, u, i, p)
    BY <2>1 DEF SpeechPlace
  <2>3. PICK b, v, j : /\ b \in Speakers /\ v \in Segments(T, b) /\ j \in v.chunks
                       /\ PutAt(T, v, j, q)
    BY <2>1 DEF SpeechPlace
  <2>4. p[3] = <<a, i>> /\ q[3] = <<b, j>>
    BY <2>2, <2>3, PutWithin
  <2>5. a = b /\ i = j
    <3>1. p[3][1] = a /\ p[3][2] = i
      BY <2>2, PutWithin
    <3>2. q[3][1] = b /\ q[3][2] = j
      BY <2>3, PutWithin
    <3> QED
      BY <3>1, <3>2
  <2>6. /\ u.start \in Nat /\ u.end \in Nat /\ v.start \in Nat /\ v.end \in Nat /\ i \in Nat
        /\ u.start <= i /\ i <= u.end /\ v.start <= i /\ i <= v.end
    <3>1. u.start \in Nat /\ u.end \in Nat /\ i \in Nat /\ u.start <= i /\ i <= u.end
      BY <2>2, SegmentNumbers
    <3>2. v.start \in Nat /\ v.end \in Nat /\ v.start <= i /\ i <= v.end
      BY <2>3, <2>5, SegmentNumbers
    <3> QED
      BY <3>1, <3>2
  <2>7. u.start <= v.end /\ v.start <= u.end
    BY <2>6
  <2>8. u = v
    BY <2>2, <2>3, <2>5, <2>7, OneSegment
  <2>9. i \in Nat /\ i <= j
    BY <2>5, <2>6
  <2> QED
    BY <2>2, <2>3, <2>5, <2>8, <2>9, SameSegment
<1>5. CASE p[3][1] \in {"call", "silence"}
  BY <1>1, <1>5 DEF IsPlace
<1>6. CASE p[3][1] = "result"
  <2>1. ResultPlace(T, p) /\ ResultPlace(T, q)
    BY <1>2, <1>3, <1>6, PlacesAre DEF CallPlace, SilencePlace, Speakers
  <2>2. PICK c, r : c \in Calls(T) /\ r \in ResultsOf(T, c) /\ p = <<c, Tool, <<"result", r>>>>
    BY <2>1 DEF ResultPlace
  <2>3. PICK d, s : d \in Calls(T) /\ s \in ResultsOf(T, d) /\ q = <<d, Tool, <<"result", s>>>>
    BY <2>1 DEF ResultPlace
  <2>4. r = s
    BY <2>2, <2>3
  <2>5. c \in Nat /\ d \in Nat /\ r \in Nat
    BY <2>2, <2>3 DEF Calls, ResultsOf, Results
  <2>6. r > c /\ r > d /\ (d <= c \/ d >= r) /\ (c <= d \/ c >= r)
    BY <2>2, <2>3, <2>4 DEF ResultsOf
  <2>7. c = d
    BY <2>5, <2>6
  <2> QED
    BY <2>2, <2>3, <2>4, <2>7
<1> QED
  BY <1>1, <1>4, <1>5, <1>6 DEF IsPlace, Speakers

-----------------------------------------------------------------------------
(* The order of what is shown.                                             *)

\* What is said or done lies between the first and the last tick of its span.
LEMMA PlaceInSpan ==
  ASSUME NEW T, Len(T) \in Nat, integration \in Nat \ {0}, SilenceTicks \in Nat \ {0},
         NEW p \in AllPlaces(T), p[3][1] # "result"
  PROVE  \E a, b \in Nat : Span(T, p[3]) = <<a, b>> /\ a <= p[1] /\ p[1] <= b
<1>1. IsPlace(T, p)
  BY PlaceFacts
<1>2. CASE SpeechPlace(T, p)
  <2>1. PICK who, u, i : /\ who \in Speakers /\ u \in Segments(T, who) /\ i \in u.chunks
                       /\ PutAt(T, u, i, p)
    BY <1>2 DEF SpeechPlace
  <2>2. p[3] = <<who, i>> /\ u.start <= p[1] /\ p[1] <= u.end
    BY <2>1, PutWithin
  <2>3. Span(T, <<who, i>>) = <<u.start, u.end>>
    BY <2>1, SpanIs DEF Speakers
  <2>4. u.start \in Nat /\ u.end \in Nat
    BY <2>1, SegmentNumbers
  <2> QED
    BY <2>2, <2>3, <2>4
<1>3. CASE ~SpeechPlace(T, p)
  <2>1. CallPlace(T, p) \/ SilencePlace(T, p)
    BY <1>3, PlacesAre DEF ResultPlace
  <2>2. p[3][1] \notin {"self", "other"}
    BY <2>1 DEF CallPlace, SilencePlace
  <2>3. Span(T, p[3]) = <<p[3][2], p[3][2]>>
    BY <2>2 DEF Span, Speech
  <2>4. p[1] = p[3][2] /\ p[1] \in Nat
    BY <1>1, <2>1 DEF CallPlace, SilencePlace, IsPlace
  <2> QED
    BY <2>3, <2>4
<1> QED
  BY <1>2, <1>3

LEMMA SameSpeaker ==
  ASSUME NEW T, Len(T) \in Nat, integration \in Nat \ {0}, NEW who \in Speakers,
         NEW u \in Segments(T, who), NEW v \in Segments(T, who),
         NEW i \in u.chunks, NEW j \in v.chunks, i < j,
         NEW p, PutAt(T, u, i, p), NEW q, PutAt(T, v, j, q)
  PROVE  Sooner(p, q)
<1>1. /\ u.start \in Nat /\ u.end \in Nat /\ v.start \in Nat /\ v.end \in Nat /\ i \in Nat /\ j \in Nat
      /\ u.start <= i /\ i <= u.end /\ v.start <= j /\ j <= v.end
  BY SegmentNumbers
<1>2. CASE u = v
  BY <1>1, <1>2, SameSegment
<1>3. CASE u # v
  <2>1. u.start # v.start
    BY <1>3, SegmentFacts
  <2>2. ~(v.start < u.start)
    <3>1. v.start < u.start => v.end + integration < u.start
      BY Apart
    <3> QED
      BY <1>1, <3>1
  <2>3. u.start < v.start
    BY <1>1, <2>1, <2>2
  <2>4. u.end + integration < v.start
    BY <2>3, Apart
  <2>5. p[1] <= u.end /\ v.start <= q[1] /\ p[1] \in Nat /\ q[1] \in Nat
    BY PutWithin
  <2>6. p[1] < q[1]
    BY <1>1, <2>4, <2>5
  <2> QED
    BY <2>6 DEF Sooner
<1> QED
  BY <1>2, <1>3

LEMMA BothSpeak ==
  ASSUME NEW T, Len(T) \in Nat, integration \in Nat \ {0}, NEW who \in Speakers,
         NEW u \in Segments(T, who), NEW v \in Segments(T, Opposite(who)),
         NEW i \in u.chunks, NEW j \in v.chunks, Precedes(T, <<who, i>>, <<Opposite(who), j>>),
         NEW p, PutAt(T, u, i, p), NEW q, PutAt(T, v, j, q)
  PROVE  Sooner(p, q)
<1> DEFINE x == <<who, i>>
           y == <<Opposite(who), j>>
           a == <<u.start, u.end>>
           b == <<v.start, v.end>>
<1>1. /\ u.start \in Nat /\ u.end \in Nat /\ v.start \in Nat /\ v.end \in Nat /\ i \in Nat /\ j \in Nat
      /\ u.start <= i /\ i <= u.end /\ v.start <= j /\ j <= v.end /\ u.who = who /\ v.who = Opposite(who)
  BY SegmentNumbers
<1>2. Opposite(who) \in Speakers /\ Opposite(Opposite(who)) = who /\ Opposite(who) # who
  BY Opposed
<1>3. Span(T, x) = a /\ Span(T, y) = b
  BY <1>2, SpanIs DEF Speakers
<1>4. /\ "result" \notin {x[1], y[1]} /\ x[1] # y[1] /\ Speech(x) /\ Speech(y)
      /\ x[1] = who /\ x[2] = i /\ y[2] = j
  BY <1>2 DEF Speakers, Speech
<1> DEFINE During(c, d) == d[1] <= c[1] /\ c[2] <= d[2]
<1>5. IF a = b THEN who = "other"
      ELSE IF During(a, b) THEN j > u.end
      ELSE IF During(b, a) THEN i <= v.end
      ELSE u.start < v.start
  <2> HIDE DEF x, y, a, b
  <2>1. IF a = b THEN x[1] = "other"
        ELSE IF During(a, b) THEN y[2] > a[2]
        ELSE IF During(b, a) THEN x[2] <= b[2]
        ELSE a[1] < b[1]
    BY <1>3, <1>4 DEF Precedes, x, y
  <2>2. a[1] = u.start /\ a[2] = u.end /\ b[1] = v.start /\ b[2] = v.end
    BY DEF a, b
  <2> HIDE DEF During
  <2> QED
    BY <1>4, <2>1, <2>2
<1>6. (a = b <=> u.start = v.start /\ u.end = v.end)
      /\ (During(a, b) <=> Inside(u, v)) /\ (During(b, a) <=> Inside(v, u))
  BY <1>1 DEF Inside
<1> HIDE DEF a, b, During
<1>7. CASE a = b
  <2>1. who = "other" /\ i <= v.end /\ Inside(v, u)
    BY <1>1, <1>5, <1>6, <1>7 DEF Inside
  <2>2. v \in GuestsOf(T, u)
    BY <1>1, <2>1 DEF GuestsOf
  <2> QED
    BY <2>1, <2>2, GuestAndHost
<1>8. CASE a # b /\ Inside(u, v)
  <2>1. j > u.end /\ ~Inside(v, u)
    BY <1>1, <1>5, <1>6, <1>8 DEF Inside
  <2>2. u \in GuestsOf(T, v)
    BY <1>1, <1>2, <1>8, <2>1 DEF GuestsOf
  <2>3. u \in Segments(T, Opposite(Opposite(who)))
    BY <1>2
  <2> QED
    BY <1>2, <2>1, <2>2, <2>3, GuestAndHost
<1>9. CASE a # b /\ ~Inside(u, v) /\ Inside(v, u)
  <2>1. i <= v.end
    BY <1>5, <1>6, <1>9
  <2>2. v \in GuestsOf(T, u)
    BY <1>1, <1>9 DEF GuestsOf
  <2> QED
    BY <2>1, <2>2, GuestAndHost
<1>10. CASE a # b /\ ~Inside(u, v) /\ ~Inside(v, u)
  <2>1. u.start < v.start
    BY <1>5, <1>6, <1>10
  <2>2. v \notin GuestsOf(T, u) /\ u \notin GuestsOf(T, v)
    BY <1>10 DEF GuestsOf
  <2>3. p[1] < v.start
    BY <2>1, <2>2, FirstToStart
  <2>4. v.start <= q[1] /\ q[1] \in Nat /\ p[1] \in Nat
    BY <1>2, PutWithin
  <2>5. p[1] < q[1]
    BY <1>1, <2>3, <2>4
  <2> QED
    BY <2>5 DEF Sooner
<1> QED
  BY <1>7, <1>8, <1>9, <1>10

LEMMA ShownInOrder ==
  ASSUME NEW T, Len(T) \in Nat, integration \in Nat \ {0}, SilenceTicks \in Nat \ {0},
         NEW p \in AllPlaces(T), NEW q \in AllPlaces(T), Precedes(T, p[3], q[3])
  PROVE  Sooner(p, q)
<1>1. IsPlace(T, p) /\ IsPlace(T, q)
  BY PlaceFacts
<1>2. p[3][1] # "result" /\ q[3][1] # "result"
  BY DEF Precedes
<1>3. CASE Speech(p[3]) /\ Speech(q[3])
  <2>1. SpeechPlace(T, p) /\ SpeechPlace(T, q)
    BY <1>3, PlacesAre DEF CallPlace, ResultPlace, SilencePlace, Speech
  <2>2. PICK a, u, i : /\ a \in Speakers /\ u \in Segments(T, a) /\ i \in u.chunks
                       /\ PutAt(T, u, i, p)
    BY <2>1 DEF SpeechPlace
  <2>3. PICK b, v, j : /\ b \in Speakers /\ v \in Segments(T, b) /\ j \in v.chunks
                       /\ PutAt(T, v, j, q)
    BY <2>1 DEF SpeechPlace
  <2>4. p[3] = <<a, i>> /\ q[3] = <<b, j>>
    BY <2>2, <2>3, PutWithin
  <2>5. CASE a = b
    <3>1. i < j
      BY <1>2, <2>4, <2>5 DEF Precedes
    <3> QED
      BY <2>2, <2>3, <2>5, <3>1, SameSpeaker
  <2>6. CASE a # b
    <3>1. b = Opposite(a)
      BY <2>2, <2>3, <2>6 DEF Speakers, Opposite
    <3> QED
      BY <2>2, <2>3, <2>4, <3>1, BothSpeak
  <2> QED
    BY <2>5, <2>6
<1>4. CASE ~(Speech(p[3]) /\ Speech(q[3])) /\ p[3][1] = q[3][1]
  <2>1. p[3][2] < q[3][2]
    BY <1>2, <1>4 DEF Precedes
  <2>2. p[3][1] \notin {"self", "other"}
    BY <1>4 DEF Speech
  <2>3. p[1] = p[3][2] /\ q[1] = q[3][2]
    BY <1>1, <1>2, <1>4, <2>2 DEF IsPlace
  <2> QED
    BY <2>1, <2>3 DEF Sooner
<1>5. CASE ~(Speech(p[3]) /\ Speech(q[3])) /\ p[3][1] # q[3][1]
  <2>1. Span(T, p[3])[2] < Span(T, q[3])[1]
    BY <1>2, <1>5 DEF Precedes
  <2>2. PICK a \in Nat, b \in Nat : Span(T, p[3]) = <<a, b>> /\ p[1] <= b
    BY <1>2, PlaceInSpan
  <2>3. PICK c \in Nat, d \in Nat : Span(T, q[3]) = <<c, d>> /\ c <= q[1]
    BY <1>2, PlaceInSpan
  <2>4. b < c
    BY <2>1, <2>2, <2>3
  <2>5. p[1] \in Nat /\ q[1] \in Nat
    BY <1>1 DEF IsPlace
  <2>6. p[1] < q[1]
    BY <2>2, <2>3, <2>4, <2>5
  <2> QED
    BY <2>6 DEF Sooner
<1> QED
  BY <1>3, <1>4, <1>5

-----------------------------------------------------------------------------
(* What is shown is whole, if calls and results alternate.                 *)

Alternate(T) ==
  \A r \in Results(T) : /\ \E c \in Calls(T) : c < r
                        /\ \A q \in Results(T) : q < r => \E d \in Calls(T) : q <= d /\ d < r

LEMMA ResultHasCall ==
  ASSUME NEW T, Len(T) \in Nat, Alternate(T), NEW r \in Results(T)
  PROVE  \E c \in Calls(T) : r \in ResultsOf(T, c)
<1>1. Calls(T) \subseteq Nat /\ r \in Nat
  BY DEF Calls, Results
<1> DEFINE S == {c \in Calls(T) : c < r}
<1>2. S # {} /\ S \in SUBSET Nat /\ \A c \in S : c <= r
  BY <1>1 DEF Alternate
<1>3. PICK c \in S : \A d \in S : d <= c
  <2> HIDE DEF S
  <2> QED
    BY <1>1, <1>2, HasGreatest
<1>4. c \in Calls(T) /\ r > c
  BY <1>1, <1>3
<1>5. ASSUME NEW d \in Calls(T) PROVE d <= c \/ d >= r
  BY <1>1, <1>3
<1> QED
  BY <1>4, <1>5 DEF ResultsOf

LEMMA OneResult ==
  ASSUME NEW T, Len(T) \in Nat, Alternate(T), NEW c \in Calls(T),
         NEW q \in ResultsOf(T, c), NEW r \in ResultsOf(T, c)
  PROVE  q = r
<1>1. \A x, y \in ResultsOf(T, c) : ~(x < y)
  <2>1. SUFFICES ASSUME NEW x \in ResultsOf(T, c), NEW y \in ResultsOf(T, c), x < y PROVE FALSE
    OBVIOUS
  <2>2. x \in Results(T) /\ y \in Results(T) /\ x > c /\ (\A d \in Calls(T) : d <= c \/ d >= y)
    BY DEF ResultsOf
  <2>3. PICK d \in Calls(T) : x <= d /\ d < y
    BY <2>1, <2>2 DEF Alternate
  <2>4. x \in Nat /\ y \in Nat /\ d \in Nat /\ c \in Nat
    BY <2>2 DEF Calls, Results
  <2>5. d <= c \/ d >= y
    BY <2>2
  <2> QED
    BY <2>2, <2>3, <2>4, <2>5
<1>2. q \in Nat /\ r \in Nat
  BY DEF ResultsOf, Results
<1> QED
  BY <1>1, <1>2

ShownThings(T) == Listed(T) \cup {<<"silence", i>> : i \in Silences(T)}

LEMMA AllPlaced ==
  ASSUME NEW T, Len(T) \in Nat, integration \in Nat \ {0}, Alternate(T)
  PROVE  \A x : x \in ShownThings(T) <=> \E p \in AllPlaces(T) : p[3] = x
<1>1. ASSUME NEW p \in AllPlaces(T) PROVE p[3] \in ShownThings(T)
  <2>1. CASE SpeechPlace(T, p)
    <3>1. PICK who, u, i : /\ who \in Speakers /\ u \in Segments(T, who) /\ i \in u.chunks
                       /\ PutAt(T, u, i, p)
      BY <2>1 DEF SpeechPlace
    <3>2. p[3] = <<who, i>> /\ i \in Spoken(T, who)
      BY <3>1, PutWithin, SegmentNumbers
    <3> QED
      BY <3>1, <3>2 DEF Speakers, ShownThings, Listed
  <2>2. CASE CallPlace(T, p)
    <3>1. PICK c \in Calls(T) : p[3] = <<"call", c>>
      BY <2>2 DEF CallPlace
    <3> QED
      BY <3>1 DEF ShownThings, Listed
  <2>3. CASE ResultPlace(T, p)
    <3>1. PICK c, r : c \in Calls(T) /\ r \in ResultsOf(T, c) /\ p[3] = <<"result", r>>
      BY <2>3 DEF ResultPlace
    <3>2. r \in Results(T)
      BY <3>1 DEF ResultsOf
    <3> QED
      BY <3>1, <3>2 DEF ShownThings, Listed
  <2>4. CASE SilencePlace(T, p)
    <3>1. PICK i \in Silences(T) : p[3] = <<"silence", i>>
      BY <2>4 DEF SilencePlace
    <3> QED
      BY <3>1 DEF ShownThings
  <2> QED
    BY <2>1, <2>2, <2>3, <2>4, PlacesAre
<1>2. ASSUME NEW who \in Speakers, NEW i \in Spoken(T, who) PROVE \E p \in AllPlaces(T) : p[3] = <<who, i>>
  <2>1. PICK u \in Segments(T, who) : i \in u.chunks
    BY InSegment
  <2>2. PICK p : PutAt(T, u, i, p)
    BY <2>1, PutSomewhere
  <2>3. p[3] = <<who, i>>
    BY <2>1, <2>2, PutWithin
  <2>4. SpeechPlace(T, p)
    BY <2>1, <2>2 DEF SpeechPlace
  <2> QED
    BY <2>3, <2>4, PlacesAre
<1>3. ASSUME NEW c \in Calls(T) PROVE \E p \in AllPlaces(T) : p[3] = <<"call", c>>
  <2>1. CallPlace(T, <<c, Tool, <<"call", c>>>>)
    BY DEF CallPlace
  <2> QED
    BY <2>1, PlacesAre
<1>4. ASSUME NEW r \in Results(T) PROVE \E p \in AllPlaces(T) : p[3] = <<"result", r>>
  <2>1. PICK c \in Calls(T) : r \in ResultsOf(T, c)
    BY ResultHasCall
  <2>2. ResultPlace(T, <<c, Tool, <<"result", r>>>>)
    BY <2>1 DEF ResultPlace
  <2> QED
    BY <2>2, PlacesAre
<1>5. ASSUME NEW i \in Silences(T) PROVE \E p \in AllPlaces(T) : p[3] = <<"silence", i>>
  <2>1. SilencePlace(T, <<i, Silence, <<"silence", i>>>>)
    BY DEF SilencePlace
  <2> QED
    BY <2>1, PlacesAre
<1>6. ASSUME NEW x \in ShownThings(T) PROVE \E p \in AllPlaces(T) : p[3] = x
  <2>1. \/ \E i \in Spoken(T, "self") : x = <<"self", i>>
        \/ \E i \in Spoken(T, "other") : x = <<"other", i>>
        \/ \E c \in Calls(T) : x = <<"call", c>>
        \/ \E r \in Results(T) : x = <<"result", r>>
        \/ \E i \in Silences(T) : x = <<"silence", i>>
    BY DEF ShownThings, Listed
  <2>2. "self" \in Speakers /\ "other" \in Speakers
    BY DEF Speakers
  <2> QED
    BY <1>2, <1>3, <1>4, <1>5, <2>1, <2>2
<1> QED
  BY <1>1, <1>6

\* Nothing comes between a call and its result.
LEMMA ResultBehind ==
  ASSUME NEW T, Len(T) \in Nat, integration \in Nat \ {0}, SilenceTicks \in Nat \ {0}, Alternate(T),
         NEW p \in AllPlaces(T), p[3][1] = "result"
  PROVE  \E q \in AllPlaces(T) : /\ q[3][1] = "call" /\ q[3][2] < p[3][2]
                              /\ Rank(AllPlaces(T), p) = Rank(AllPlaces(T), q) + 1
<1> DEFINE P == AllPlaces(T)
<1>1. ResultPlace(T, p)
  <2>1. SpeechPlace(T, p) => p[3][1] \in Speakers
    BY PutWithin DEF SpeechPlace
  <2> QED
    BY <2>1, PlacesAre DEF CallPlace, SilencePlace, Speakers
<1>2. PICK c, r : c \in Calls(T) /\ r \in ResultsOf(T, c) /\ p = <<c, Tool, <<"result", r>>>>
  BY <1>1 DEF ResultPlace
<1> DEFINE q == <<c, Tool, <<"call", c>>>>
<1>3. q \in P
  <2>1. CallPlace(T, q)
    BY <1>2 DEF CallPlace
  <2> QED
    BY <2>1, PlacesAre
<1>4. c \in Nat /\ r \in Nat /\ c < r
  <2>1. c \in Nat /\ r \in Nat /\ r > c
    BY <1>2 DEF Calls, ResultsOf, Results
  <2> QED
    BY <2>1
<1>5. ASSUME NEW s \in P, Sooner(s, p), ~Sooner(s, q) PROVE s = q
  <2>1. IsPlace(T, s)
    BY PlaceFacts
  <2>2. s[1] \in Int /\ s[2] \in Int /\ s[3][2] \in Int
    BY <2>1 DEF IsPlace
  <2>3. /\ p[1] = c /\ p[2] = 2 /\ p[3][2] = r
        /\ q[1] = c /\ q[2] = 2 /\ q[3][2] = c
    BY <1>2 DEF Tool
  <2> HIDE DEF q, P
  <2>4. s[1] = c /\ s[2] = 2 /\ s[3][2] < r /\ c <= s[3][2]
    BY <1>4, <1>5, <2>2, <2>3 DEF Sooner
  <2>5. CASE s[3][1] = "call"
    BY <2>1, <2>4, <2>5 DEF IsPlace, q, Tool
  <2>6. CASE s[3][1] # "call"
    <3>1. s[3][1] = "result"
      BY <2>1, <2>4, <2>6 DEF IsPlace
    <3>2. ~SpeechPlace(T, s)
      <4>1. SpeechPlace(T, s) => s[3][1] \in Speakers
        BY PutWithin DEF SpeechPlace
      <4> QED
        BY <3>1, <4>1 DEF Speakers
    <3>3. ResultPlace(T, s)
      BY <1>5, <3>1, <3>2, PlacesAre DEF CallPlace, SilencePlace, P
    <3>4. PICK d, t : d \in Calls(T) /\ t \in ResultsOf(T, d) /\ s = <<d, Tool, <<"result", t>>>>
      BY <3>3 DEF ResultPlace
    <3>5. d = c /\ s[3][2] = t
      BY <2>4, <3>4
    <3>6. t = r
      BY <1>2, <3>4, <3>5, OneResult
    <3> QED
      BY <1>4, <2>4, <3>5, <3>6
  <2> QED
    BY <2>5, <2>6
<1>6. Sooner(q, p)
  BY <1>2, <1>4 DEF Sooner
<1> HIDE DEF q
<1>7. Sequenced(P) /\ IsFiniteSet(P)
  BY PlacesOrdered, PlacesFinite
<1> HIDE DEF P
<1>8. Earlier(P, p) = Earlier(P, q) \cup {q}
  <2>1. \A s \in P : Sooner(s, q) => Sooner(s, p)
    BY <1>2, <1>3, <1>6, <1>7 DEF Sequenced, P
  <2> QED
    BY <1>3, <1>5, <1>6, <2>1 DEF Earlier
<1>9. q \notin Earlier(P, q) /\ IsFiniteSet(Earlier(P, q))
  <2>1. q \notin Earlier(P, q)
    BY <1>3, <1>7 DEF Sequenced, Earlier
  <2>2. Earlier(P, q) \in SUBSET P
    BY DEF Earlier
  <2> QED
    BY <1>7, <2>1, <2>2, FS_Subset
<1>10. Rank(P, p) = Rank(P, q) + 1
  BY <1>8, <1>9, FS_AddElement DEF Rank
<1>11. q[3][1] = "call" /\ q[3][2] < p[3][2]
  BY <1>2, <1>4 DEF q
<1> QED
  BY <1>3, <1>10, <1>11 DEF P

\* What is shown of a timeline, put as HistoryShownWhole puts it.
ShownWhole(T) ==
  LET shown == Linearized(T)
      sites == 1..Len(shown)
  IN  /\ IsInjective(shown)
      /\ Range(shown) = Listed(T) \cup {<<"silence", i>> : i \in Silences(T)}
      /\ \A i, j \in sites : i < j => ~Precedes(T, shown[j], shown[i])
      /\ \A i \in sites : shown[i][1] = "result" => i > 1 /\ shown[i - 1][1] = "call"
                                                 /\ shown[i - 1][2] < shown[i][2]

LEMMA AllShown ==
  ASSUME NEW T, Len(T) \in Nat, integration \in Nat \ {0}, SilenceTicks \in Nat \ {0}, Alternate(T)
  PROVE  ShownWhole(T)
<1> DEFINE P == AllPlaces(T)
           N == Cardinality(P)
           sites == [n \in 1..N |-> CHOOSE q \in P : Rank(P, q) = n - 1]
           shown == Linearized(T)
<1>1. IsFiniteSet(P) /\ Sequenced(P)
  BY PlacesFinite, PlacesOrdered
<1>2. N \in Nat
  BY <1>1, FS_CardinalityType
<1>3. ListsInOrder(P, sites)
  <2> HIDE DEF P
  <2> QED
    BY <1>1, ListedInOrder
<1>4. shown = [n \in 1..N |-> sites[n][3]]
  BY DEF Linearized, Rank, Earlier
<1>5. /\ \A n \in 1..N : sites[n] \in P /\ Rank(P, sites[n]) = n - 1
      /\ \A i, j \in 1..N : i < j <=> Sooner(sites[i], sites[j])
      /\ \A q \in P : \E n \in 1..N : sites[n] = q
  <2> HIDE DEF sites, P
  <2> QED
    BY <1>3 DEF ListsInOrder
<1> HIDE DEF sites, shown
<1>6. DOMAIN shown = 1..N /\ Len(shown) = N /\ \A n \in 1..N : shown[n] = sites[n][3]
  <2> HIDE DEF N
  <2>1. DOMAIN shown = 1..N /\ \A n \in 1..N : shown[n] = sites[n][3]
    BY <1>4
  <2>2. shown \in Seq({sites[n][3] : n \in 1..N})
    BY <1>2, <1>4
  <2>3. Len(shown) = N
    BY <1>2, <1>4
  <2> QED
    BY <2>1, <2>3
<1> HIDE DEF N, P
<1>7. IsInjective(shown)
  <2>1. ASSUME NEW i \in 1..N, NEW j \in 1..N, shown[i] = shown[j] PROVE i = j
    <3>1. sites[i] = sites[j]
      <4>1. sites[i] \in P /\ sites[j] \in P /\ sites[i][3] = sites[j][3]
        BY <1>5, <1>6, <2>1
      <4>2. sites[i] \in AllPlaces(T) /\ sites[j] \in AllPlaces(T)
        BY <4>1 DEF P
      <4> QED
        BY <4>1, <4>2, PlacedOnce
    <3>2. Rank(P, sites[i]) = i - 1 /\ Rank(P, sites[j]) = j - 1
      BY <1>5
    <3>3. i - 1 = j - 1 /\ i \in Int /\ j \in Int
      BY <1>2, <3>1, <3>2
    <3> QED
      BY <3>3
  <2> QED
    BY <1>6, <2>1 DEF IsInjective
<1>8. Range(shown) = Listed(T) \cup {<<"silence", i>> : i \in Silences(T)}
  <2>1. \A x : x \in Range(shown) <=> \E n \in 1..N : sites[n][3] = x
    BY <1>6 DEF Range
  <2>2. \A x : (\E n \in 1..N : sites[n][3] = x) <=> \E p \in P : p[3] = x
    BY <1>5
  <2>3. \A x : x \in ShownThings(T) <=> \E p \in P : p[3] = x
    BY AllPlaced DEF P
  <2>4. Range(shown) = ShownThings(T)
    BY <2>1, <2>2, <2>3
  <2> QED
    BY <2>4 DEF ShownThings
<1>9. ASSUME NEW i \in 1..N, NEW j \in 1..N, i < j PROVE ~Precedes(T, shown[j], shown[i])
  <2>1. SUFFICES ASSUME Precedes(T, shown[j], shown[i]) PROVE FALSE
    OBVIOUS
  <2>2. sites[i] \in AllPlaces(T) /\ sites[j] \in AllPlaces(T) /\ Precedes(T, sites[j][3], sites[i][3])
    BY <1>5, <1>6, <2>1 DEF P
  <2>3. Sooner(sites[j], sites[i])
    BY <2>2, ShownInOrder
  <2>4. j < i
    BY <1>5, <2>3
  <2> QED
    BY <1>2, <1>9, <2>4
<1>10. ASSUME NEW i \in 1..N, shown[i][1] = "result"
       PROVE  i > 1 /\ shown[i - 1][1] = "call" /\ shown[i - 1][2] < shown[i][2]
  <2>1. sites[i] \in AllPlaces(T) /\ sites[i][3][1] = "result"
    BY <1>5, <1>6, <1>10 DEF P
  <2>2. PICK q \in P : /\ q[3][1] = "call" /\ q[3][2] < sites[i][3][2]
                       /\ Rank(P, sites[i]) = Rank(P, q) + 1
    BY <2>1, ResultBehind DEF P
  <2>3. PICK n \in 1..N : sites[n] = q
    BY <1>5
  <2>4. i - 1 = (n - 1) + 1
    BY <1>5, <2>2, <2>3
  <2>5. n \in Nat /\ n >= 1 /\ i \in Nat
    BY <1>2
  <2>6. i - 1 = n /\ i > 1
    BY <2>4, <2>5
  <2>7. shown[i - 1] = q[3] /\ shown[i] = sites[i][3]
    BY <1>6, <2>3, <2>6
  <2> QED
    BY <2>2, <2>6, <2>7
<1> QED
  BY <1>6, <1>7, <1>8, <1>9, <1>10 DEF ShownWhole, shown

-----------------------------------------------------------------------------
(* The timeline.                                                           *)

TimelineTicks == [self : {"none", "speech", "call"}, other : {"none", "speech", "result"}]
Flat(h) == FlattenSeq([i \in 1..Len(h) |-> ExpandTick(h[i])])
\* A call has been made since the last results.
CallOpen(T) == \E c \in Calls(T) : \A r \in Results(T) : r <= c

\* Results come first in what is put on, and only if they are owed.
FollowsOn(T, e) ==
  /\ e \in Seq(TimelineTicks)
  /\ \A i \in 1..Len(e) : e[i].self = "call" \/ e[i].other = "result" => i = 1
  /\ \A i \in 1..Len(e) : e[i].other = "result" => CallOpen(T)

LEMMA PutOnTimeline ==
  ASSUME NEW T \in Seq(TimelineTicks), NEW e, FollowsOn(T, e)
  PROVE  /\ T \o e \in Seq(TimelineTicks) /\ Len(T \o e) = Len(T) + Len(e) /\ Len(T) \in Nat /\ Len(e) \in Nat
         /\ \A i : i \in Calls(T \o e) <=>
              i \in Calls(T) \/ (i = Len(T) + 1 /\ 1 \in 1..Len(e) /\ e[1].self = "call")
         /\ \A i : i \in Results(T \o e) <=>
              i \in Results(T) \/ (i = Len(T) + 1 /\ 1 \in 1..Len(e) /\ e[1].other = "result")
<1>1. e \in Seq(TimelineTicks) /\ Len(T) \in Nat /\ Len(e) \in Nat
  BY LenProperties DEF FollowsOn
<1> DEFINE u == T \o e
           m == Len(T)
           n == Len(e)
<1>2. /\ u \in Seq(TimelineTicks) /\ Len(u) = m + n
      /\ \A i \in 1..(m + n) : u[i] = IF i <= m THEN T[i] ELSE e[i - m]
  <2> HIDE DEF TimelineTicks
  <2> QED
    BY <1>1, ConcatProperties
<1> HIDE DEF u
<1>3. \A i \in 1..m : i \in 1..(m + n) /\ u[i] = T[i]
  BY <1>1, <1>2
<1>4. ASSUME NEW i, i \in 1..(m + n), i \notin 1..m PROVE i - m \in 1..n /\ u[i] = e[i - m] /\ i = m + (i - m)
  BY <1>1, <1>2, <1>4
<1>5. 1 \in 1..n => m + 1 \in 1..(m + n) /\ u[m + 1] = e[1]
  <2>1. SUFFICES ASSUME 1 \in 1..n PROVE m + 1 \in 1..(m + n) /\ u[m + 1] = e[1]
    OBVIOUS
  <2>2. m + 1 \in 1..(m + n) /\ ~(m + 1 <= m) /\ (m + 1) - m = 1
    BY <1>1, <2>1
  <2> QED
    BY <1>2, <2>2
<1> HIDE DEF m, n
<1>6. ASSUME NEW i PROVE i \in Calls(u) <=> i \in Calls(T) \/ (i = m + 1 /\ 1 \in 1..n /\ e[1].self = "call")
  <2>1. i \in Calls(u) <=> i \in 1..(m + n) /\ u[i].self = "call"
    BY <1>2 DEF Calls
  <2>2. i \in Calls(T) <=> i \in 1..m /\ T[i].self = "call"
    BY DEF Calls, m
  <2>3. CASE i \in 1..m
    <3>1. i # m + 1
      BY <1>1, <2>3 DEF m
    <3> QED
      BY <1>3, <2>1, <2>2, <2>3, <3>1
  <2>4. CASE i \notin 1..m /\ i \in 1..(m + n)
    <3>1. e[i - m].self = "call" => i - m = 1
      BY <1>4, <2>4 DEF FollowsOn, n
    <3> QED
      BY <1>4, <1>5, <2>1, <2>2, <2>4, <3>1
  <2>5. CASE i \notin 1..m /\ i \notin 1..(m + n)
    BY <1>5, <2>1, <2>2, <2>5
  <2> QED
    BY <2>3, <2>4, <2>5
<1>7. ASSUME NEW i PROVE i \in Results(u) <=> i \in Results(T) \/ (i = m + 1 /\ 1 \in 1..n /\ e[1].other = "result")
  <2>1. i \in Results(u) <=> i \in 1..(m + n) /\ u[i].other = "result"
    BY <1>2 DEF Results
  <2>2. i \in Results(T) <=> i \in 1..m /\ T[i].other = "result"
    BY DEF Results, m
  <2>3. CASE i \in 1..m
    <3>1. i # m + 1
      BY <1>1, <2>3 DEF m
    <3> QED
      BY <1>3, <2>1, <2>2, <2>3, <3>1
  <2>4. CASE i \notin 1..m /\ i \in 1..(m + n)
    <3>1. e[i - m].other = "result" => i - m = 1
      BY <1>4, <2>4 DEF FollowsOn, n
    <3> QED
      BY <1>4, <1>5, <2>1, <2>2, <2>4, <3>1
  <2>5. CASE i \notin 1..m /\ i \notin 1..(m + n)
    BY <1>5, <2>1, <2>2, <2>5
  <2> QED
    BY <2>3, <2>4, <2>5
<1> QED
  BY <1>1, <1>2, <1>6, <1>7 DEF u, m, n

LEMMA AlternateOn ==
  ASSUME NEW T \in Seq(TimelineTicks), Alternate(T), NEW e, FollowsOn(T, e)
  PROVE  /\ Alternate(T \o e)
         /\ 1 \in 1..Len(e) /\ e[1].self = "call" => CallOpen(T \o e)
<1> DEFINE u == T \o e
           m == Len(T)
<1>1. m \in Nat
  BY LenProperties
<1>2. /\ \A i : i \in Calls(u) <=> i \in Calls(T) \/ (i = m + 1 /\ 1 \in 1..Len(e) /\ e[1].self = "call")
      /\ \A i : i \in Results(u) <=> i \in Results(T) \/ (i = m + 1 /\ 1 \in 1..Len(e) /\ e[1].other = "result")
  BY PutOnTimeline
<1> HIDE DEF u
<1>3. (\A i \in Calls(T) : i \in Nat /\ i <= m) /\ (\A i \in Results(T) : i \in Nat /\ i <= m)
  BY <1>1 DEF Calls, Results
<1> HIDE DEF m
<1>4. ASSUME NEW r \in Results(u), r \in Results(T)
      PROVE  /\ \E c \in Calls(u) : c < r
             /\ \A q \in Results(u) : q < r => \E d \in Calls(u) : q <= d /\ d < r
  <2>1. PICK c \in Calls(T) : c < r
    BY <1>4 DEF Alternate
  <2>2. ASSUME NEW q \in Results(u), q < r PROVE \E d \in Calls(u) : q <= d /\ d < r
    <3>1. r \in Nat /\ r <= m
      BY <1>3, <1>4
    <3>2. q \in Results(T)
      BY <1>1, <1>2, <2>2, <3>1
    <3>3. PICK d \in Calls(T) : q <= d /\ d < r
      BY <1>4, <2>2, <3>2 DEF Alternate
    <3> QED
      BY <1>2, <3>3
  <2> QED
    BY <1>2, <2>1, <2>2
<1>5. ASSUME NEW r \in Results(u), r \notin Results(T)
      PROVE  /\ \E c \in Calls(u) : c < r
             /\ \A q \in Results(u) : q < r => \E d \in Calls(u) : q <= d /\ d < r
  <2>1. r = m + 1 /\ 1 \in 1..Len(e) /\ e[1].other = "result"
    BY <1>2, <1>5
  <2>2. CallOpen(T)
    BY <2>1 DEF FollowsOn
  <2>3. PICK c \in Calls(T) : \A q \in Results(T) : q <= c
    BY <2>2 DEF CallOpen
  <2>4. c \in Calls(u) /\ c < r
    BY <1>1, <1>2, <1>3, <2>1
  <2>5. ASSUME NEW q \in Results(u), q < r PROVE q <= c
    <3>1. q # m + 1
      BY <1>1, <2>1, <2>5
    <3> QED
      BY <1>2, <2>3, <3>1
  <2> QED
    BY <2>4, <2>5
<1>6. Alternate(u)
  BY <1>4, <1>5 DEF Alternate
<1>7. ASSUME 1 \in 1..Len(e), e[1].self = "call" PROVE CallOpen(u)
  <2>1. m + 1 \in Calls(u)
    BY <1>2, <1>7
  <2>2. \A r \in Results(u) : r <= m + 1
    BY <1>1, <1>2, <1>3
  <2> QED
    BY <2>1, <2>2 DEF CallOpen
<1> QED
  BY <1>6, <1>7 DEF u

LEMMA Expanded ==
  ASSUME NEW t \in RecordedTicks
  PROVE  /\ ExpandTick(t) \in Seq(TimelineTicks) /\ 1 \in 1..Len(ExpandTick(t))
         /\ ExpandTick(t)[1].self = t.self
         /\ \A i \in 1..Len(ExpandTick(t)) :
              ExpandTick(t)[i].self = "call" \/ ExpandTick(t)[i].other = "result" => i = 1
         /\ \A i \in 1..Len(ExpandTick(t)) : ExpandTick(t)[i].other = "result" => t.env
<1>1. t.self \in {"none", "speech", "call"} /\ t.other \in {"none", "speech"} /\ t.env \in BOOLEAN
  BY DEF RecordedTicks
<1>2. CASE ~t.env
  <2>1. ExpandTick(t) = <<[self |-> t.self, other |-> t.other]>>
    BY <1>2 DEF ExpandTick
  <2>2. [self |-> t.self, other |-> t.other] \in TimelineTicks
    BY <1>1 DEF TimelineTicks
  <2> QED
    BY <1>1, <2>1, <2>2
<1>3. CASE t.env /\ t.other = "none"
  <2> DEFINE a == [self |-> t.self, other |-> "result"]
  <2>1. a \in TimelineTicks
    BY <1>1 DEF TimelineTicks
  <2>2. ExpandTick(t) = <<a>> \o <<>>
    BY <1>3 DEF ExpandTick
  <2>3. a.self = t.self
    OBVIOUS
  <2> HIDE DEF a
  <2>4. ExpandTick(t) = <<a>>
    BY <2>1, <2>2
  <2> QED
    BY <1>3, <2>1, <2>3, <2>4
<1>4. CASE t.env /\ t.other # "none"
  <2> DEFINE a == [self |-> t.self, other |-> "result"]
             b == [self |-> "none", other |-> t.other]
  <2>1. a \in TimelineTicks /\ b \in TimelineTicks
    BY <1>1 DEF TimelineTicks
  <2>2. ExpandTick(t) = <<a>> \o <<b>>
    BY <1>4 DEF ExpandTick
  <2>3. a.self = t.self /\ b.self = "none" /\ b.other # "result"
    BY <1>1
  <2> HIDE DEF a, b
  <2> DEFINE v == <<a>>
             w == <<b>>
  <2>4. /\ v \in Seq(TimelineTicks) /\ Len(v) = 1 /\ v[1] = a
        /\ w \in Seq(TimelineTicks) /\ Len(w) = 1 /\ w[1] = b
    BY <2>1
  <2>5. ExpandTick(t) = v \o w
    BY <2>2
  <2> HIDE DEF v, w
  <2>6. /\ v \o w \in Seq(TimelineTicks) /\ Len(v \o w) = 1 + 1
        /\ \A i \in 1..(1 + 1) : (v \o w)[i] = IF i <= 1 THEN v[i] ELSE w[i - 1]
    BY <2>4, ConcatProperties
  <2> DEFINE u == v \o w
  <2>7. u \in Seq(TimelineTicks) /\ 1..Len(u) = {1, 2} /\ u[1] = a /\ u[2] = b
    <3> HIDE DEF u
    <3>1. Len(u) = 2 /\ \A i \in 1..2 : u[i] = IF i <= 1 THEN v[i] ELSE w[i - 1]
      BY <2>6 DEF u
    <3> QED
      BY <2>4, <2>6, <3>1 DEF u
  <2>8. ExpandTick(t) = u
    BY <2>5
  <2> HIDE DEF u
  <2> QED
    BY <1>4, <2>3, <2>7, <2>8
<1> QED
  BY <1>2, <1>3, <1>4

LEMMA FlatStarts == Flat(<<>>) = <<>>
<1> DEFINE s == [i \in 1..0 |-> ExpandTick(<<>>[i])]
<1>1. s \in [1..0 -> Seq(TimelineTicks)]
  OBVIOUS
<1>2. Flat(<<>>) = FlattenSeq(s)
  BY DEF Flat
<1> HIDE DEF s
<1>3. PICK g : Flattens(TimelineTicks, 0, s, g)
  BY <1>1, FlattenIs
<1> QED
  BY <1>2, <1>3 DEF Flattens

LEMMA FlatGrows ==
  ASSUME NEW h \in Seq(RecordedTicks), NEW t \in RecordedTicks
  PROVE  Flat(Append(h, t)) = Flat(h) \o ExpandTick(t) /\ Flat(h) \in Seq(TimelineTicks)
<1> DEFINE S == Seq(TimelineTicks)
           n == Len(h)
           l == Append(h, t)
           s == [i \in 1..n |-> ExpandTick(h[i])]
           u == [i \in 1..(n + 1) |-> ExpandTick(l[i])]
<1>1. n \in Nat /\ l \in Seq(RecordedTicks) /\ Len(l) = n + 1
      /\ (\A i \in 1..n : l[i] = h[i]) /\ l[n + 1] = t
  BY AppendProperties, LenProperties
<1>2. \A x \in RecordedTicks : ExpandTick(x) \in S
  BY Expanded
<1>3. \A i \in 1..n : h[i] \in RecordedTicks
  BY ElementOfSeq
<1>4. \A i \in 1..(n + 1) : l[i] \in RecordedTicks
  <2> HIDE DEF l
  <2> QED
    BY <1>1, ElementOfSeq
<1>5. s \in [1..n -> S] /\ u \in [1..(n + 1) -> S]
  <2> HIDE DEF S, l
  <2> QED
    BY <1>2, <1>3, <1>4
<1>6. (\A i \in 1..n : u[i] = s[i]) /\ u[n + 1] = ExpandTick(t)
  <2> HIDE DEF l
  <2> QED
    BY <1>1
<1>7. Flat(h) = FlattenSeq(s) /\ Flat(l) = FlattenSeq(u)
  BY <1>1 DEF Flat
<1> HIDE DEF s, u, l, S, n
<1>8. PICK f : Flattens(TimelineTicks, n, s, f)
  BY <1>1, <1>5, FlattenIs DEF S
<1>9. PICK g : Flattens(TimelineTicks, n + 1, u, g)
  <2>1. n + 1 \in Nat
    BY <1>1
  <2> QED
    BY <1>5, <2>1, FlattenIs DEF S
<1> DEFINE Q == {m \in Nat : m <= n => f[m] = g[m]}
<1>10. \A m \in Nat : m \in Q
  <2>1. 0 \in Q
    BY <1>8, <1>9 DEF Flattens
  <2>2. ASSUME NEW m \in Nat, m \in Q PROVE m + 1 \in Q
    <3>1. SUFFICES ASSUME m + 1 <= n PROVE f[m + 1] = g[m + 1]
      OBVIOUS
    <3>2. m + 1 \in 1..n /\ m + 1 \in 1..(n + 1) /\ (m + 1) - 1 = m /\ m <= n
      BY <1>1, <3>1
    <3>3. f[m + 1] = f[m] \o s[m + 1] /\ g[m + 1] = g[m] \o u[m + 1]
      BY <1>8, <1>9, <3>2 DEF Flattens
    <3> QED
      BY <1>6, <2>2, <3>2, <3>3
  <2> HIDE DEF Q
  <2> QED
    BY <2>1, <2>2, SetInduction
<1>11. f[n] = g[n]
  BY <1>1, <1>10
<1>12. g[n + 1] = g[n] \o u[n + 1]
  <2>1. n + 1 \in 1..(n + 1) /\ (n + 1) - 1 = n
    BY <1>1
  <2> QED
    BY <1>9, <2>1 DEF Flattens
<1>13. FlattenSeq(s) = f[n] /\ FlattenSeq(u) = g[n + 1] /\ f[n] \in Seq(TimelineTicks)
  <2>1. n \in 0..n
    BY <1>1
  <2> QED
    BY <1>8, <1>9, <2>1 DEF Flattens
<1> QED
  BY <1>6, <1>7, <1>11, <1>12, <1>13 DEF l

-----------------------------------------------------------------------------
(* The inductive invariant.                                                *)

HistoryInv ==
  /\ integration \in IntegrationTicks /\ history \in Seq(RecordedTicks)
  /\ offered \in {"unasked", "none", "speech", "result"}
  /\ offered = "result" => ResultsOwed
  /\ Flat(history) \in Seq(TimelineTicks) /\ Alternate(Flat(history))
  /\ ResultsOwed => CallOpen(Flat(history))

LEMMA HistoryStarts == HistoryInit => HistoryInv
<1>1. SUFFICES ASSUME HistoryInit PROVE HistoryInv
  OBVIOUS
<1>2. history = <<>> /\ offered = "unasked" /\ integration \in IntegrationTicks
  BY <1>1 DEF HistoryInit
<1>3. Flat(history) = <<>>
  BY <1>2, FlatStarts
<1>4. <<>> \in Seq(TimelineTicks) /\ <<>> \in Seq(RecordedTicks) /\ Results(<<>>) = {}
  BY EmptySeq DEF Results
<1>5. Alternate(<<>>)
  BY <1>4 DEF Alternate
<1>6. ~ResultsOwed
  BY <1>2 DEF ResultsOwed
<1> QED
  BY <1>2, <1>3, <1>4, <1>5, <1>6 DEF HistoryInv

LEMMA HistoryAsks == HistoryInv /\ AskLlm => HistoryInv'
<1>1. SUFFICES ASSUME HistoryInv, AskLlm PROVE HistoryInv'
  OBVIOUS
<1>2. history' = history /\ integration' = integration /\ (ResultsOwed' <=> ResultsOwed)
      /\ offered' \in IF ResultsOwed THEN {"result"} ELSE {"none", "speech"}
  BY <1>1 DEF AskLlm, ResultsOwed
<1>3. Flat(history)' = Flat(history)
  BY <1>2 DEF Flat
<1>4. Alternate(Flat(history))' = Alternate(Flat(history)) /\ CallOpen(Flat(history))' = CallOpen(Flat(history))
  BY <1>3 DEF Alternate, CallOpen, Calls, Results
<1>5. offered' \in {"unasked", "none", "speech", "result"} /\ (offered' = "result" => ResultsOwed)
  BY <1>2
<1> QED
  BY <1>1, <1>2, <1>3, <1>4, <1>5 DEF HistoryInv

LEMMA HistoryRecords == HistoryInv /\ RecordTick => HistoryInv'
<1>1. SUFFICES ASSUME HistoryInv, RecordTick PROVE HistoryInv'
  OBVIOUS
<1>2. PICK t \in RecordedTicks : t.env = ResultsOwed /\ history' = Append(history, t)
  BY <1>1 DEF RecordTick
<1>3. integration' = integration /\ offered' = "unasked"
  BY <1>1 DEF RecordTick
<1> DEFINE F == Flat(history)
           e == ExpandTick(t)
<1>4. history \in Seq(RecordedTicks) /\ Alternate(F) /\ (ResultsOwed => CallOpen(F))
      /\ integration \in IntegrationTicks
  BY <1>1 DEF HistoryInv
<1>5. Flat(Append(history, t)) = F \o e /\ F \in Seq(TimelineTicks)
  BY <1>4, FlatGrows
<1>6. FollowsOn(F, e)
  <2>1. /\ e \in Seq(TimelineTicks)
        /\ \A i \in 1..Len(e) : e[i].self = "call" \/ e[i].other = "result" => i = 1
        /\ \A i \in 1..Len(e) : e[i].other = "result" => t.env
    BY Expanded
  <2> HIDE DEF e, F
  <2> QED
    BY <1>2, <1>4, <2>1 DEF FollowsOn
<1>7. 1 \in 1..Len(e) /\ e[1].self = t.self
  BY Expanded
<1> HIDE DEF e, F
<1>8. F \o e \in Seq(TimelineTicks) /\ Alternate(F \o e) /\ (t.self = "call" => CallOpen(F \o e))
  <2>1. F \o e \in Seq(TimelineTicks)
    BY <1>5, <1>6, PutOnTimeline
  <2>2. Alternate(F \o e) /\ (1 \in 1..Len(e) /\ e[1].self = "call" => CallOpen(F \o e))
    BY <1>4, <1>5, <1>6, AlternateOn
  <2> QED
    BY <1>7, <2>1, <2>2
<1>9. history' \in Seq(RecordedTicks) /\ (ResultsOwed' => t.self = "call")
  <2>1. Append(history, t) \in Seq(RecordedTicks) /\ Last(Append(history, t)) = t
    BY <1>4, AppendProperties DEF Last
  <2> QED
    BY <1>2, <2>1 DEF ResultsOwed
<1> DEFINE G == F \o e
<1>10. Flat(history') = G
  BY <1>2, <1>5
<1> HIDE DEF G
<1>11. Alternate(Flat(history')) /\ Flat(history') \in Seq(TimelineTicks)
       /\ (ResultsOwed' => CallOpen(Flat(history')))
  BY <1>8, <1>9, <1>10 DEF G
<1>12. HistoryInv' <=>
         /\ integration' \in IntegrationTicks /\ history' \in Seq(RecordedTicks)
         /\ offered' \in {"unasked", "none", "speech", "result"}
         /\ offered' = "result" => ResultsOwed'
         /\ Flat(history') \in Seq(TimelineTicks) /\ Alternate(Flat(history'))
         /\ ResultsOwed' => CallOpen(Flat(history'))
  BY DEF HistoryInv
<1> QED
  BY <1>3, <1>4, <1>9, <1>11, <1>12

LEMMA HistoryStep == HistoryInv /\ [HistoryNext]_contextVars => HistoryInv'
<1>1. ASSUME HistoryInv, UNCHANGED contextVars PROVE HistoryInv'
  <2>1. history' = history /\ integration' = integration /\ offered' = offered
    BY <1>1 DEF contextVars
  <2> QED
    <3>1. Flat(history') = Flat(history) /\ (ResultsOwed' <=> ResultsOwed)
      BY <2>1 DEF Flat, ResultsOwed
    <3>2. /\ Alternate(Flat(history')) <=> Alternate(Flat(history))
          /\ CallOpen(Flat(history')) <=> CallOpen(Flat(history))
      BY <3>1
    <3>3. HistoryInv' <=>
            /\ integration' \in IntegrationTicks /\ history' \in Seq(RecordedTicks)
            /\ offered' \in {"unasked", "none", "speech", "result"}
            /\ offered' = "result" => ResultsOwed'
            /\ Flat(history') \in Seq(TimelineTicks) /\ Alternate(Flat(history'))
            /\ ResultsOwed' => CallOpen(Flat(history'))
      BY DEF HistoryInv
    <3> QED
      BY <1>1, <2>1, <3>1, <3>2, <3>3 DEF HistoryInv
<1> QED
  BY <1>1, HistoryAsks, HistoryRecords DEF HistoryNext

LEMMA TimelineAlternates ==
  ASSUME HistoryInv
  PROVE  Len(Timeline) \in Nat /\ Alternate(Timeline)
<1> DEFINE F == Flat(history)
<1>1. F \in Seq(TimelineTicks) /\ Alternate(F) /\ (offered = "result" => CallOpen(F))
      /\ offered \in {"unasked", "none", "speech", "result"}
  BY DEF HistoryInv
<1>2. Timeline = F \o Pending
  BY DEF Timeline, Flat
<1> HIDE DEF F
<1>3. FollowsOn(F, Pending)
  <2>1. CASE offered \in {"unasked", "none"}
    <3>1. Pending = <<>>
      BY <2>1 DEF Pending
    <3> QED
      BY <3>1, EmptySeq DEF FollowsOn
  <2>2. CASE offered \in {"speech", "result"}
    <3> DEFINE a == [self |-> "none", other |-> offered]
    <3>1. Pending = <<a>> /\ a \in TimelineTicks /\ a.other = offered
      BY <2>2 DEF Pending, TimelineTicks
    <3> HIDE DEF a
    <3>2. Pending \in Seq(TimelineTicks) /\ 1..Len(Pending) = {1} /\ Pending[1] = a
      BY <3>1
    <3> QED
      BY <1>1, <3>1, <3>2 DEF FollowsOn
  <2> QED
    BY <1>1, <2>1, <2>2
<1>4. F \o Pending \in Seq(TimelineTicks) /\ Alternate(F \o Pending)
  BY <1>1, <1>3, PutOnTimeline, AlternateOn
<1> QED
  BY <1>2, <1>4, LenProperties

LEMMA HistoryWhole == HistoryInv => HistoryShownWhole
<1>1. SUFFICES ASSUME HistoryInv PROVE HistoryShownWhole
  OBVIOUS
<1>2. Len(Timeline) \in Nat /\ Alternate(Timeline)
  BY <1>1, TimelineAlternates
<1>3. integration \in Nat \ {0} /\ SilenceTicks \in Nat \ {0}
  BY <1>1, HistoryAssumption DEF HistoryInv
<1>4. ShownWhole(Timeline)
  BY <1>2, <1>3, AllShown
<1> QED
  BY <1>4 DEF HistoryShownWhole, ShownWhole

LEMMA HistoryCorrect == Spec => []HistoryInv
<1>1. Init => HistoryInv
  BY HistoryStarts DEF Init
<1>2. [Next]_voiceVars => [HistoryNext]_contextVars
  BY DEF Next, voiceVars, OrchestratorMoves, UserMoves, ContextMoves, AgentMoves, SessionMoves
<1> QED
  BY <1>1, <1>2, HistoryStep, PTL DEF Spec

\* HistoryShownWhole, of Linearize: whatever the history, the LLM of the simulated
\* user is shown every chunk, call and result once, each where the rules of the
\* docstring put it and results right behind their calls, for every length of
\* history, every integration_ticks and every threshold of silence.
THEOREM ShownToLlm == Spec => []HistoryShownWhole
BY HistoryCorrect, HistoryWhole, PTL

-----------------------------------------------------------------------------
(* The cascaded provider: STT, LLM and TTS in turn.                        *)

SttKindNames == {"start", "partial", "final", "end"}
SttEvents == SttKindNames \X Nat
PassedOn == {"start", "partial", "final"} \X Nat
Messages == ({"user"} \X Seq(Nat)) \cup ({"result", "call", "assistant"} \X Nat)
PipelineEvents == ({"start", "partial", "final", "call"} \X Nat) \cup ({"audio"} \X (Nat \X Nat))
TaskRecords ==
  [pc : {"free", "wait", "llm", "tts"}, batch : Seq(SttEvents), more : BOOLEAN, answer : 0..MaxReplies]

CascadeTypes ==
  /\ tasks \in [Tasks -> TaskRecords]
  /\ sttEvents \in Seq(SttEvents) /\ accumulated \in Seq(Nat)
  /\ context \in Seq(Messages) /\ pipelineEvents \in Seq(PipelineEvents)
  /\ agentAudio \in Seq(Nat \X Nat) /\ playedPieces \in Seq(Nat \X Nat) /\ callsMade \in Seq(Nat)
  /\ recognised \in Nat /\ callCount \in Nat /\ replies \in 0..MaxReplies
  /\ sent \in [1..MaxReplies -> Nat]

\* Only a task that goes on after its answer keeps a batch, and one that speaks
\* speaks an answer.
TasksSound ==
  \A t \in Tasks : /\ tasks[t].pc \in {"free", "wait"} \/ ~tasks[t].more => tasks[t].batch = <<>>
                   /\ tasks[t].pc = "tts" => tasks[t].answer # 0

\* At place p of the user's words is word w: queue q, batches b, the transcript
\* accumulated and the context's messages hold them.
InQueue(p, w, q) == \E i \in Finals(q) : p = <<"queue", 0, i>> /\ w = q[i][2]
InBatch(p, w, b) == \E t \in Tasks : \E i \in Finals(b[t]) : p = <<"task", t, i>> /\ w = b[t][i][2]
InTranscript(p, w, acc) == \E i \in 1..Len(acc) : p = <<"accumulated", 0, i>> /\ w = acc[i]
AskedIn(ctx) == {k \in 1..Len(ctx) : ctx[k][1] = "user"}
InContext(p, w, ctx) ==
  \E k \in AskedIn(ctx) : \E i \in 1..Len(ctx[k][2]) : p = <<"context", k, i>> /\ w = ctx[k][2][i]
Spot(p, w, q, b, acc, ctx) ==
  InQueue(p, w, q) \/ InBatch(p, w, b) \/ InTranscript(p, w, acc) \/ InContext(p, w, ctx)

Once(q, b, acc, ctx, n) ==
  /\ \A p, w : Spot(p, w, q, b, acc, ctx) => w \in 1..n
  /\ \A w \in 1..n : \E p : Spot(p, w, q, b, acc, ctx)
  /\ \A p, r, w : Spot(p, w, q, b, acc, ctx) /\ Spot(r, w, q, b, acc, ctx) => p = r

Batches == [t \in Tasks |-> tasks[t].batch]

LEMMA PlacesAreSpots ==
  WordsSentOnce <=> Once(sttEvents, Batches, accumulated, context, recognised)
<1> DEFINE At(p, w) == Spot(p, w, sttEvents, Batches, accumulated, context)
<1>1. \A p : p \in Places =>  At(p, WordAt(p))
  BY DEF Places, WordAt, Spot, InQueue, InBatch, InTranscript, InContext, AskedIn, Batches, Asked
<1>2. \A p, w : At(p, w) => p \in Places /\ w = WordAt(p)
  BY DEF Places, WordAt, Spot, InQueue, InBatch, InTranscript, InContext, AskedIn, Batches, Asked
<1> HIDE DEF At
<1> QED
  BY <1>1, <1>2 DEF WordsSentOnce, Once, At

LEMMA PlacesAreSpotsNext ==
  Once(sttEvents', Batches', accumulated', context', recognised') => WordsSentOnce'
<1>1. WordsSentOnce <=> Once(sttEvents, Batches, accumulated, context, recognised)
  BY PlacesAreSpots
<1>2. WordsSentOnce' <=> Once(sttEvents, Batches, accumulated, context, recognised)'
  BY <1>1, PTL
<1> QED
  BY <1>2

\* What is put into the context besides the user's words moves none of them.
LEMMA OnceAnswered ==
  ASSUME NEW q, NEW b, NEW acc, NEW ctx \in Seq(Messages), NEW n, Once(q, b, acc, ctx, n),
         NEW added \in Seq(Messages), \A k \in 1..Len(added) : added[k][1] # "user"
  PROVE  Once(q, b, acc, ctx \o added, n)
<1> DEFINE all == ctx \o added
<1>1. /\ Len(ctx) \in Nat /\ Len(added) \in Nat /\ Len(all) = Len(ctx) + Len(added)
      /\ \A k \in 1..Len(all) : all[k] = IF k <= Len(ctx) THEN ctx[k] ELSE added[k - Len(ctx)]
  BY ConcatProperties, LenProperties
<1> HIDE DEF all
<1>2. AskedIn(all) = AskedIn(ctx)
  <2>1. ASSUME NEW j \in 1..Len(all), all[j][1] = "user" PROVE j \in 1..Len(ctx)
    <3>1. CASE j > Len(ctx)
      <4>1. j - Len(ctx) \in 1..Len(added)
        BY <1>1, <3>1
      <4> QED
        BY <1>1, <2>1, <3>1, <4>1
    <3> QED
      BY <1>1, <3>1
  <2> QED
    BY <1>1, <2>1 DEF AskedIn
<1>3. \A k \in AskedIn(ctx) : all[k] = ctx[k]
  BY <1>1 DEF AskedIn
<1>4. \A p, w : Spot(p, w, q, b, acc, all) <=> Spot(p, w, q, b, acc, ctx)
  BY <1>2, <1>3 DEF Spot, InContext
<1>5. Once(q, b, acc, all, n)
  BY <1>4 DEF Once
<1> QED
  BY <1>5 DEF all

\* A task takes the queue.
LEMMA OnceTaken ==
  ASSUME NEW q, NEW b, DOMAIN b = Tasks, NEW acc, NEW ctx, NEW n, Once(q, b, acc, ctx, n),
         NEW t \in Tasks, b[t] = <<>>
  PROVE  Once(<<>>, [b EXCEPT ![t] = q], acc, ctx, n)
<1> DEFINE b2 == [b EXCEPT ![t] = q]
           Prior(p, w) == Spot(p, w, q, b, acc, ctx)
           After(p, w) == Spot(p, w, <<>>, b2, acc, ctx)
           H(p) == IF p[1] = "queue" THEN <<"task", t, p[3]>> ELSE p
<1>1. b2[t] = q /\ \A u \in Tasks : u # t => b2[u] = b[u]
  OBVIOUS
<1>2. Finals(<<>>) = {}
  BY DEF Finals
<1> HIDE DEF b2
<1>3. ASSUME NEW p, NEW w, Prior(p, w) PROVE After(H(p), w)
  <2>1. CASE InQueue(p, w, q)
    <3>1. InBatch(H(p), w, b2)
      BY <1>1, <2>1 DEF InQueue, InBatch
    <3> QED
      BY <3>1 DEF Spot
  <2>2. CASE InBatch(p, w, b)
    <3>1. InBatch(p, w, b2) /\ H(p) = p
      <4>1. PICK u \in Tasks : \E i \in Finals(b[u]) : p = <<"task", u, i>> /\ w = b[u][i][2]
        BY <2>2 DEF InBatch
      <4>2. u # t
        BY <1>2, <4>1
      <4> QED
        BY <1>1, <4>1, <4>2 DEF InBatch
    <3> QED
      BY <3>1 DEF Spot
  <2>3. CASE InTranscript(p, w, acc) \/ InContext(p, w, ctx)
    <3>1. H(p) = p
      BY <2>3 DEF InTranscript, InContext
    <3> QED
      BY <2>3, <3>1 DEF Spot
  <2> QED
    BY <1>3, <2>1, <2>2, <2>3 DEF Spot
<1>4. ASSUME NEW r, NEW w, After(r, w) PROVE \E p : Prior(p, w) /\ H(p) = r
  <2>1. CASE InBatch(r, w, b2)
    <3>0. PICK u \in Tasks : \E i \in Finals(b2[u]) : r = <<"task", u, i>> /\ w = b2[u][i][2]
      BY <2>1 DEF InBatch
    <3>1. PICK i \in Finals(b2[u]) : r = <<"task", u, i>> /\ w = b2[u][i][2]
      BY <3>0
    <3>2. CASE u = t
      <4>1. InQueue(<<"queue", 0, i>>, w, q) /\ H(<<"queue", 0, i>>) = r
        BY <1>1, <3>1, <3>2 DEF InQueue
      <4> HIDE DEF H
      <4> QED
        BY <4>1 DEF Spot
    <3>3. CASE u # t
      <4>1. InBatch(r, w, b) /\ H(r) = r
        BY <1>1, <3>1, <3>3 DEF InBatch
      <4> QED
        BY <4>1 DEF Spot
    <3> QED
      BY <3>2, <3>3
  <2>2. CASE InTranscript(r, w, acc) \/ InContext(r, w, ctx)
    <3>1. H(r) = r
      BY <2>2 DEF InTranscript, InContext
    <3> QED
      BY <2>2, <3>1 DEF Spot
  <2>3. ~InQueue(r, w, <<>>)
    BY <1>2 DEF InQueue
  <2> QED
    BY <1>4, <2>1, <2>2, <2>3 DEF Spot
<1> HIDE DEF Prior, After, H
<1>5. /\ \A p, w : After(p, w) => w \in 1..n
      /\ \A w \in 1..n : \E p : After(p, w)
      /\ \A p, r, w : After(p, w) /\ After(r, w) => p = r
  <2>1. /\ \A p, w : Prior(p, w) => w \in 1..n
        /\ \A w \in 1..n : \E p : Prior(p, w)
        /\ \A p, r, w : Prior(p, w) /\ Prior(r, w) => p = r
    BY DEF Once, Prior
  <2> QED
    BY <1>3, <1>4, <2>1
<1> QED
  BY <1>5 DEF Once, After, b2

\* What was accumulated is put to the model.
LEMMA OnceAsked ==
  ASSUME NEW q, NEW b, NEW acc, NEW ctx \in Seq(Messages), NEW n, Once(q, b, acc, ctx, n)
  PROVE  Once(q, b, <<>>, Append(ctx, <<"user", acc>>), n)
<1> DEFINE all == Append(ctx, <<"user", acc>>)
           last == Len(ctx) + 1
           Prior(p, w) == Spot(p, w, q, b, acc, ctx)
           After(p, w) == Spot(p, w, q, b, <<>>, all)
           H(p) == IF p[1] = "accumulated" THEN <<"context", last, p[3]>> ELSE p
<1>1. /\ Len(ctx) \in Nat /\ Len(all) = last /\ all[last] = <<"user", acc>>
      /\ \A k \in 1..Len(ctx) : all[k] = ctx[k]
  BY AppendProperties, LenProperties
<1>2. all[last][1] = "user" /\ all[last][2] = acc /\ 1..Len(<<>>) = {}
  BY <1>1
<1> HIDE DEF all
<1>3. /\ \A k \in AskedIn(all) :
           k = last \/ (k \in AskedIn(ctx) /\ all[k] = ctx[k])
      /\ last \in AskedIn(all)
      /\ \A k \in AskedIn(ctx) :
           k # last /\ all[k] = ctx[k] /\ k \in AskedIn(all)
  BY <1>1, <1>2 DEF AskedIn
<1> HIDE DEF last
<1>4. ASSUME NEW p, NEW w, Prior(p, w) PROVE After(H(p), w)
  <2>1. CASE InTranscript(p, w, acc)
    <3>1. InContext(H(p), w, all)
      BY <1>2, <1>3, <2>1 DEF InTranscript, InContext
    <3> QED
      BY <3>1 DEF Spot
  <2>2. CASE InContext(p, w, ctx)
    <3>1. InContext(p, w, all) /\ H(p) = p
      BY <1>3, <2>2 DEF InContext
    <3> QED
      BY <3>1 DEF Spot
  <2>3. CASE InQueue(p, w, q) \/ InBatch(p, w, b)
    <3>1. H(p) = p
      BY <2>3 DEF InQueue, InBatch
    <3> QED
      BY <2>3, <3>1 DEF Spot
  <2> QED
    BY <1>4, <2>1, <2>2, <2>3 DEF Spot
<1>5. ASSUME NEW r, NEW w, After(r, w) PROVE \E p : Prior(p, w) /\ H(p) = r
  <2>1. CASE InContext(r, w, all)
    <3>1. PICK k \in AskedIn(all) : \E i \in 1..Len(all[k][2]) : r = <<"context", k, i>> /\ w = all[k][2][i]
      BY <2>1 DEF InContext
    <3>2. CASE k = last
      <4>1. PICK i \in 1..Len(acc) : r = <<"context", last, i>> /\ w = acc[i]
        BY <1>2, <3>1, <3>2
      <4>2. InTranscript(<<"accumulated", 0, i>>, w, acc) /\ H(<<"accumulated", 0, i>>) = r
        BY <4>1 DEF InTranscript
      <4> HIDE DEF H
      <4> QED
        BY <4>2 DEF Spot
    <3>3. CASE k # last
      <4>1. InContext(r, w, ctx) /\ H(r) = r
        BY <1>3, <3>1, <3>3 DEF InContext
      <4> QED
        BY <4>1 DEF Spot
    <3> QED
      BY <3>2, <3>3
  <2>2. CASE InQueue(r, w, q) \/ InBatch(r, w, b)
    <3>1. H(r) = r
      BY <2>2 DEF InQueue, InBatch
    <3> QED
      BY <2>2, <3>1 DEF Spot
  <2>3. ~InTranscript(r, w, <<>>)
    BY <1>2 DEF InTranscript
  <2> QED
    BY <1>5, <2>1, <2>2, <2>3 DEF Spot
<1> HIDE DEF Prior, After, H
<1>6. /\ \A p, w : After(p, w) => w \in 1..n
      /\ \A w \in 1..n : \E p : After(p, w)
      /\ \A p, r, w : After(p, w) /\ After(r, w) => p = r
  <2>1. /\ \A p, w : Prior(p, w) => w \in 1..n
        /\ \A w \in 1..n : \E p : Prior(p, w)
        /\ \A p, r, w : Prior(p, w) /\ Prior(r, w) => p = r
    BY DEF Once, Prior
  <2> QED
    BY <1>4, <1>5, <2>1
<1> QED
  BY <1>6 DEF Once, After, all

\* The words of the final transcripts among events, one after the other.
Found(e, w, r) ==
  /\ r \in [Finals(e) -> 1..Len(w)]
  /\ \A i \in Finals(e) : w[r[i]] = e[i][2]
  /\ \A j \in 1..Len(w) : \E i \in Finals(e) : r[i] = j

LEMMA FinalsFound ==
  ASSUME NEW e \in Seq(SttEvents)
  PROVE  FinalsAmong(e) \in Seq(Nat) /\ \E r : Found(e, FinalsAmong(e), r)
<1> DEFINE n == Len(e)
           s == [k \in 1..n |-> IF e[k][1] = "final" THEN <<e[k][2]>> ELSE <<>>]
           w == FinalsAmong(e)
<1>1. n \in Nat /\ \A k \in 1..n : e[k] \in SttEvents
  BY LenProperties, ElementOfSeq
<1>2. w = FlattenSeq(s)
  BY DEF FinalsAmong
<1>3. ASSUME NEW k \in 1..n
      PROVE  /\ s[k] \in Seq(Nat) /\ Len(s[k]) <= 1
             /\ s[k] # <<>> <=> e[k][1] = "final"
             /\ e[k][1] = "final" => s[k][1] = e[k][2]
  <2>1. e[k][2] \in Nat
    BY <1>1 DEF SttEvents
  <2> QED
    BY <2>1
<1>4. s \in [1..n -> Seq(Nat)]
  <2>1. s = [k \in 1..n |-> s[k]]
    OBVIOUS
  <2> HIDE DEF s
  <2> QED
    BY <1>3, <2>1
<1> HIDE DEF s, w
<1>5. w \in Seq(Nat) /\ \E f : ComesFrom(s, n, w, f)
  <2> DEFINE T == Nat
  <2>1. s \in [1..n -> Seq(T)]
    BY <1>4
  <2> HIDE DEF T, n
  <2>2. w \in Seq(T) /\ \E f : ComesFrom(s, n, w, f)
    BY <1>1, <1>2, <1>3, <2>1, FlattenChoice
  <2> QED
    BY <2>2 DEF T
<1>6. PICK f : ComesFrom(s, n, w, f)
  BY <1>5
<1>7. Chosen(s, n) = Finals(e)
  BY <1>3 DEF Chosen, Finals
<1>8. /\ f \in [1..Len(w) -> Finals(e)]
      /\ \A j \in 1..Len(w) : w[j] = e[f[j]][2]
      /\ \A i, j \in 1..Len(w) : f[i] = f[j] => i = j
      /\ \A k \in Finals(e) : \E j \in 1..Len(w) : f[j] = k
  <2>1. /\ f \in [1..Len(w) -> Finals(e)]
        /\ \A j \in 1..Len(w) : w[j] = s[f[j]][1]
        /\ \A i, j \in 1..Len(w) : f[i] = f[j] => i = j
        /\ \A k \in Finals(e) : \E j \in 1..Len(w) : f[j] = k
    BY <1>6, <1>7 DEF ComesFrom
  <2>2. \A k \in Finals(e) : s[k][1] = e[k][2]
    BY <1>3 DEF Finals
  <2> QED
    BY <2>1, <2>2
<1> DEFINE r == [i \in Finals(e) |-> CHOOSE j \in 1..Len(w) : f[j] = i]
<1>9. /\ \A i \in Finals(e) : r[i] \in 1..Len(w) /\ f[r[i]] = i
      /\ r = [i \in Finals(e) |-> r[i]]
  BY <1>8
<1> HIDE DEF r
<1>10. Found(e, w, r)
  <2>1. r \in [Finals(e) -> 1..Len(w)]
    BY <1>9
  <2>2. \A i \in Finals(e) : w[r[i]] = e[i][2]
    BY <1>8, <1>9
  <2>3. \A j \in 1..Len(w) : f[j] \in Finals(e) /\ r[f[j]] = j
    BY <1>8, <1>9
  <2> QED
    BY <2>1, <2>2, <2>3 DEF Found
<1> QED
  BY <1>5, <1>10 DEF w

\* The first transcripts of a batch are accumulated.
LEMMA OnceAccumulated ==
  ASSUME NEW q, NEW b, DOMAIN b = Tasks, NEW acc \in Seq(Nat), NEW ctx, NEW n, Once(q, b, acc, ctx, n),
         NEW t \in Tasks, b[t] \in Seq(SttEvents), NEW last \in 0..Len(b[t])
  PROVE  Once(q, [b EXCEPT ![t] = SubSeq(b[t], last + 1, Len(b[t]))],
              acc \o FinalsAmong(SubSeq(b[t], 1, last)), ctx, n)
<1> DEFINE batch == b[t]
           taken == SubSeq(batch, 1, last)
           rest == SubSeq(batch, last + 1, Len(batch))
           uttered == FinalsAmong(taken)
           b2 == [b EXCEPT ![t] = rest]
           acc2 == acc \o uttered
           A == Len(acc)
           Prior(p, w) == Spot(p, w, q, b, acc, ctx)
           After(p, w) == Spot(p, w, q, b2, acc2, ctx)
<1>1. Len(batch) \in Nat /\ last \in Nat /\ last <= Len(batch)
  BY LenProperties
<1>2. /\ taken \in Seq(SttEvents) /\ Len(taken) = last
      /\ \A i \in 1..last : taken[i] = batch[i]
  BY <1>1, SubSeqProperties
<1>3. /\ Len(rest) = Len(batch) - last
      /\ \A i \in 1..(Len(batch) - last) : rest[i] = batch[last + i]
  BY <1>1, SubSeqProperties
<1>4. b2[t] = rest /\ \A u \in Tasks : u # t => b2[u] = b[u]
  OBVIOUS
<1> HIDE DEF taken, rest, b2
<1>5. uttered \in Seq(Nat) /\ \E r : Found(taken, uttered, r)
  BY <1>2, FinalsFound
<1>6. PICK r : Found(taken, uttered, r)
  BY <1>5
<1> HIDE DEF uttered
<1>7. /\ A \in Nat /\ Len(uttered) \in Nat /\ Len(acc2) = A + Len(uttered)
      /\ \A i \in 1..A : acc2[i] = acc[i] /\ i \in 1..Len(acc2)
      /\ \A i \in 1..Len(uttered) : acc2[A + i] = uttered[i] /\ A + i \in 1..Len(acc2)
      /\ \A i \in 1..Len(acc2) : i \in 1..A \/ i - A \in 1..Len(uttered)
  <2>1. /\ A \in Nat /\ Len(uttered) \in Nat /\ Len(acc2) = A + Len(uttered)
        /\ \A i \in 1..(A + Len(uttered)) : acc2[i] = IF i <= A THEN acc[i] ELSE uttered[i - A]
    BY <1>5, ConcatProperties, LenProperties
  <2> HIDE DEF A, acc2
  <2> QED
    BY <2>1
<1> HIDE DEF A, acc2, batch
<1>8. /\ \A i \in Finals(batch) : i <= last => i \in Finals(taken) /\ taken[i] = batch[i]
      /\ \A i \in Finals(taken) : i \in Finals(batch) /\ i <= last /\ taken[i] = batch[i]
      /\ \A i \in Finals(batch) : ~(i <= last) => i - last \in Finals(rest) /\ rest[i - last] = batch[i]
      /\ \A i \in Finals(rest) : last + i \in Finals(batch) /\ ~(last + i <= last) /\ (last + i) - last = i
                                 /\ rest[i] = batch[last + i]
  BY <1>1, <1>2, <1>3 DEF Finals
<1> DEFINE H(p) == IF p[1] = "task" /\ p[2] = t
                   THEN IF p[3] <= last THEN <<"accumulated", 0, A + r[p[3]]>> ELSE <<"task", t, p[3] - last>>
                   ELSE p
<1>9. ASSUME NEW p, NEW w, Prior(p, w) PROVE After(H(p), w)
  <2>1. CASE InBatch(p, w, b)
    <3>1. PICK u \in Tasks : \E i \in Finals(b[u]) : p = <<"task", u, i>> /\ w = b[u][i][2]
      BY <2>1 DEF InBatch
    <3>2. PICK i \in Finals(b[u]) : p = <<"task", u, i>> /\ w = b[u][i][2]
      BY <3>1
    <3>3. CASE u # t
      <4>1. InBatch(p, w, b2) /\ H(p) = p
        BY <1>4, <3>2, <3>3 DEF InBatch
      <4> QED
        BY <4>1 DEF Spot
    <3>4. CASE u = t /\ i <= last
      <4>1. i \in Finals(taken) /\ taken[i][2] = w
        BY <1>8, <3>2, <3>4 DEF batch
      <4>2. r[i] \in 1..Len(uttered) /\ uttered[r[i]] = w
        BY <1>6, <4>1 DEF Found
      <4>3. acc2[A + r[i]] = w /\ A + r[i] \in 1..Len(acc2)
        BY <1>7, <4>2
      <4>4. H(p) = <<"accumulated", 0, A + r[i]>>
        BY <3>2, <3>4
      <4>5. InTranscript(H(p), w, acc2)
        BY <4>3, <4>4 DEF InTranscript
      <4> QED
        BY <4>5 DEF Spot
    <3>5. CASE u = t /\ ~(i <= last)
      <4>1. i - last \in Finals(rest) /\ rest[i - last][2] = w
        BY <1>8, <3>2, <3>5 DEF batch
      <4>2. H(p) = <<"task", t, i - last>>
        BY <3>2, <3>5
      <4>3. InBatch(H(p), w, b2)
        BY <1>4, <4>1, <4>2 DEF InBatch
      <4> QED
        BY <4>3 DEF Spot
    <3> QED
      BY <3>3, <3>4, <3>5
  <2>2. CASE InTranscript(p, w, acc)
    <3>1. InTranscript(p, w, acc2) /\ H(p) = p
      BY <1>7, <2>2 DEF InTranscript, A
    <3> QED
      BY <3>1 DEF Spot
  <2>3. CASE InQueue(p, w, q) \/ InContext(p, w, ctx)
    <3>1. H(p) = p
      BY <2>3 DEF InQueue, InContext
    <3> QED
      BY <2>3, <3>1 DEF Spot
  <2> QED
    BY <1>9, <2>1, <2>2, <2>3 DEF Spot
<1>10. ASSUME NEW p, NEW w, After(p, w) PROVE \E o : Prior(o, w) /\ H(o) = p
  <2>1. CASE InBatch(p, w, b2)
    <3>1. PICK u \in Tasks : \E i \in Finals(b2[u]) : p = <<"task", u, i>> /\ w = b2[u][i][2]
      BY <2>1 DEF InBatch
    <3>2. PICK i \in Finals(b2[u]) : p = <<"task", u, i>> /\ w = b2[u][i][2]
      BY <3>1
    <3>3. CASE u # t
      <4>1. InBatch(p, w, b) /\ H(p) = p
        BY <1>4, <3>2, <3>3 DEF InBatch
      <4> QED
        BY <4>1 DEF Spot
    <3>4. CASE u = t
      <4> DEFINE o == <<"task", t, last + i>>
      <4>1. last + i \in Finals(batch) /\ batch[last + i][2] = w /\ ~(last + i <= last) /\ (last + i) - last = i
        BY <1>4, <1>8, <3>2, <3>4
      <4>2. InBatch(o, w, b)
        BY <4>1 DEF InBatch, batch
      <4>3. H(o) = p
        BY <3>2, <3>4, <4>1
      <4> HIDE DEF H, o
      <4> QED
        BY <4>2, <4>3 DEF Spot
    <3> QED
      BY <3>3, <3>4
  <2>2. CASE InTranscript(p, w, acc2)
    <3>1. PICK i \in 1..Len(acc2) : p = <<"accumulated", 0, i>> /\ w = acc2[i]
      BY <2>2 DEF InTranscript
    <3>2. CASE i \in 1..A
      <4>1. InTranscript(p, w, acc) /\ H(p) = p
        BY <1>7, <3>1, <3>2 DEF InTranscript, A
      <4> QED
        BY <4>1 DEF Spot
    <3>3. CASE i - A \in 1..Len(uttered)
      <4>1. PICK j \in Finals(taken) : r[j] = i - A
        BY <1>6, <3>3 DEF Found
      <4>2. uttered[i - A] = taken[j][2]
        BY <1>6, <4>1 DEF Found
      <4>3. A + (i - A) = i /\ acc2[i] = uttered[i - A]
        BY <1>7, <3>3
      <4> DEFINE o == <<"task", t, j>>
      <4>4. j \in Finals(batch) /\ j <= last /\ batch[j][2] = w
        BY <1>8, <3>1, <4>1, <4>2, <4>3
      <4>5. InBatch(o, w, b)
        BY <4>4 DEF InBatch, batch
      <4>6. H(o) = p
        BY <3>1, <4>1, <4>3, <4>4
      <4> HIDE DEF H, o
      <4> QED
        BY <4>5, <4>6 DEF Spot
    <3> QED
      BY <1>7, <3>1, <3>2, <3>3
  <2>3. CASE InQueue(p, w, q) \/ InContext(p, w, ctx)
    <3>1. H(p) = p
      BY <2>3 DEF InQueue, InContext
    <3> QED
      BY <2>3, <3>1 DEF Spot
  <2> QED
    BY <1>10, <2>1, <2>2, <2>3 DEF Spot
<1> HIDE DEF Prior, After, H
<1>11. /\ \A p, w : After(p, w) => w \in 1..n
       /\ \A w \in 1..n : \E p : After(p, w)
       /\ \A p, o, w : After(p, w) /\ After(o, w) => p = o
  <2>1. /\ \A p, w : Prior(p, w) => w \in 1..n
        /\ \A w \in 1..n : \E p : Prior(p, w)
        /\ \A p, o, w : Prior(p, w) /\ Prior(o, w) => p = o
    BY DEF Once, Prior
  <2> QED
    BY <1>9, <1>10, <2>1
<1> QED
  BY <1>11 DEF Once, After, b2, acc2, rest, uttered, taken, batch

\* The receiver queues what it hears.
LEMMA OnceHeard ==
  ASSUME NEW q \in Seq(SttEvents), NEW b, NEW acc, NEW ctx, NEW n \in Nat, Once(q, b, acc, ctx, n), NEW kind
  PROVE  LET m == IF kind = "final" THEN n + 1 ELSE n IN Once(Append(q, <<kind, m>>), b, acc, ctx, m)
<1> DEFINE m == IF kind = "final" THEN n + 1 ELSE n
           q2 == Append(q, <<kind, m>>)
           last == Len(q) + 1
           new == <<"queue", 0, last>>
<1>1. /\ Len(q) \in Nat /\ Len(q2) = last /\ q2[last] = <<kind, m>> /\ \A i \in 1..Len(q) : q2[i] = q[i]
  BY AppendProperties, LenProperties
<1> HIDE DEF m, q2
<1>2. /\ Finals(q2) = Finals(q) \cup (IF kind = "final" THEN {last} ELSE {})
      /\ \A i \in Finals(q) : q2[i] = q[i] /\ i # last
      /\ q2[last][2] = m
  BY <1>1 DEF Finals
<1> HIDE DEF last
<1>3. \A p, w : InQueue(p, w, q2) <=> InQueue(p, w, q) \/ (kind = "final" /\ p = new /\ w = m)
  BY <1>2 DEF InQueue
<1>4. \A w : ~Spot(new, w, q, b, acc, ctx)
  BY <1>2 DEF Spot, InQueue, InBatch, InTranscript, InContext
<1>5. \A p, w : Spot(p, w, q2, b, acc, ctx) <=> Spot(p, w, q, b, acc, ctx) \/ (kind = "final" /\ p = new /\ w = m)
  BY <1>3 DEF Spot
<1>6. kind = "final" => m = n + 1 /\ 1..m = 1..n \cup {m} /\ m \notin 1..n
  BY DEF m
<1>7. kind # "final" => m = n
  BY DEF m
<1> HIDE DEF new
<1>8. Once(q2, b, acc, ctx, m)
  <2> DEFINE Prior(p, w) == Spot(p, w, q, b, acc, ctx)
             After(p, w) == Spot(p, w, q2, b, acc, ctx)
  <2>1. CASE kind = "final"
    <3>1. \A p, w : After(p, w) <=> Prior(p, w) \/ (p = new /\ w = m)
      BY <1>5, <2>1
    <3>2. /\ \A p, w : Prior(p, w) => w \in 1..n
          /\ \A w \in 1..n : \E p : Prior(p, w)
          /\ \A p, o, w : Prior(p, w) /\ Prior(o, w) => p = o
      BY DEF Once
    <3>3. 1..m = 1..n \cup {m} /\ m \notin 1..n
      BY <1>6, <2>1
    <3> HIDE DEF Prior, After
    <3>4. \A p, w : After(p, w) => w \in 1..m
      BY <3>1, <3>2, <3>3
    <3>5. \A w \in 1..m : \E p : After(p, w)
      BY <3>1, <3>2, <3>3
    <3>6. \A p, o, w : After(p, w) /\ After(o, w) => p = o
      BY <3>1, <3>2, <3>3
    <3> QED
      BY <3>4, <3>5, <3>6 DEF Once, After
  <2>2. CASE kind # "final"
    BY <1>5, <1>7, <2>2 DEF Once
  <2> QED
    BY <2>1, <2>2
<1> QED
  BY <1>8 DEF m, q2

-----------------------------------------------------------------------------
(* What the actions do.                                                    *)

LEMMA LeastOf ==
  ASSUME NEW S, S \subseteq Nat, S # {}
  PROVE  Min(S) \in S /\ \A i \in S : Min(S) <= i
<1>1. PICK m \in S : \A i \in S : ~(<<i, m>> \in OpToRel(<, Nat))
  BY NatLessThanWellFounded, WFMin
<1>2. \A i \in S : m <= i
  <2>1. \A i \in S : i \in Nat /\ m \in Nat /\ ~(i < m)
    BY <1>1 DEF OpToRel
  <2> QED
    BY <2>1
<1> QED
  BY <1>2 DEF Min

LEMMA EndsDropped ==
  ASSUME NEW e \in Seq(SttEvents)
  PROVE  WithoutEnds(e) \in Seq(PassedOn)
<1> DEFINE n == Len(e)
           s == [k \in 1..n |-> IF e[k][1] = "end" THEN <<>> ELSE <<e[k]>>]
           T == PassedOn
<1>1. n \in Nat /\ \A k \in 1..n : e[k] \in SttEvents
  BY LenProperties, ElementOfSeq
<1>2. ASSUME NEW k \in 1..n
      PROVE  s[k] \in Seq(T) /\ Len(s[k]) <= 1
  <2>1. e[k][1] # "end" => e[k] \in T
    <3>1. PICK x \in SttKindNames, y \in Nat : e[k] = <<x, y>>
      BY <1>1 DEF SttEvents
    <3> QED
      BY <3>1 DEF SttKindNames, PassedOn
  <2> HIDE DEF T
  <2> QED
    BY <2>1
<1>3. s \in [1..n -> Seq(T)]
  <2>1. s = [k \in 1..n |-> s[k]]
    OBVIOUS
  <2> HIDE DEF s, T
  <2> QED
    BY <1>2, <2>1
<1>4. WithoutEnds(e) = FlattenSeq(s)
  BY DEF WithoutEnds
<1> HIDE DEF s, T, n
<1>5. FlattenSeq(s) \in Seq(T)
  BY <1>1, <1>2, <1>3, FlattenChoice
<1> QED
  BY <1>4, <1>5 DEF T

\* What process_audio makes of a batch: its first events are handled, and the
\* model is asked, with the rest for later, or there is no rest.
WordsOf(batch, last) == accumulated \o FinalsAmong(SubSeq(batch, 1, last))
AsksModel(t, batch, last, messages) ==
  /\ accumulated' = <<>> /\ context' = Append(messages, <<"user", WordsOf(batch, last)>>)
  /\ \E more \in BOOLEAN :
       /\ ~more => SubSeq(batch, last + 1, Len(batch)) = <<>>
       /\ tasks' = [tasks EXCEPT ![t] = [pc |-> "llm", batch |-> SubSeq(batch, last + 1, Len(batch)),
                                         more |-> more, answer |-> 0]]
ListensOn(t, batch, last, messages) ==
  /\ accumulated' = WordsOf(batch, last) /\ context' = messages
  /\ SubSeq(batch, last + 1, Len(batch)) = <<>> /\ tasks' = [tasks EXCEPT ![t] = FreeTask]
BatchHandled(t, batch, evs, messages) ==
  /\ \E last \in 0..Len(batch) : AsksModel(t, batch, last, messages) \/ ListensOn(t, batch, last, messages)
  /\ \E seen \in Seq(PassedOn) : pipelineEvents' = evs \o seen

LEMMA BatchIsHandled ==
  ASSUME NEW t, NEW batch \in Seq(SttEvents), NEW state, NEW evs, NEW messages,
         ProcessBatch(t, batch, state, evs, messages)
  PROVE  BatchHandled(t, batch, evs, messages)
<1> DEFINE N == Len(batch)
           Said(k) == accumulated \o FinalsAmong(SubSeq(batch, 1, k))
           ends == {k \in 1..N : batch[k][1] = "end" /\ Said(k) # <<>>}
           last == IF ends = {} THEN N ELSE Min(ends)
           seen == WithoutEnds(SubSeq(batch, 1, last))
<1>1. N \in Nat
  BY LenProperties
<1>2. last \in 0..N
  <2>1. ends \subseteq Nat /\ ends \subseteq 0..N
    BY <1>1
  <2> HIDE DEF ends
  <2>2. ends # {} => Min(ends) \in ends
    BY <2>1, LeastOf
  <2>3. ends = {} => last \in 0..N
    BY <1>1
  <2>4. ends # {} => last \in 0..N
    <3>1. ends # {} => last = Min(ends)
      OBVIOUS
    <3> HIDE DEF last
    <3> QED
      BY <2>1, <2>2, <3>1
  <2> QED
    BY <2>3, <2>4
<1>3. seen \in Seq(PassedOn)
  <2>1. \A i \in 1..last : batch[i] \in SttEvents
    BY <1>1, <1>2, ElementOfSeq
  <2>2. SubSeq(batch, 1, last) \in Seq(SttEvents)
    <3> HIDE DEF last
    <3> QED
      BY <1>2, <2>1, SubSeqProperties
  <2> QED
    BY <2>2, EndsDropped
<1>4. SubSeq(batch, N + 1, N) = <<>>
  BY <1>1, SubSeqEmpty
<1>5. /\ pipelineEvents' = evs \o seen
      /\ \/ /\ ends # {}
            /\ TriggerLlm(t, messages, Said(last), SubSeq(batch, last + 1, N), TRUE)
         \/ /\ ends = {}
            /\ TriggerLlm(t, messages, Said(last), <<>>, FALSE)
         \/ /\ ends = {}
            /\ accumulated' = Said(last)
            /\ context' = messages
            /\ tasks' = [tasks EXCEPT ![t] = FreeTask]
  BY DEF ProcessBatch
<1>6. ends = {} => last = N
  OBVIOUS
<1> HIDE DEF last, ends, seen, N
<1>7. AsksModel(t, batch, last, messages) \/ ListensOn(t, batch, last, messages)
  BY <1>4, <1>5, <1>6 DEF AsksModel, ListensOn, WordsOf, TriggerLlm, TakeTranscript, ClientMessage, N
<1> QED
  BY <1>2, <1>3, <1>5, <1>7 DEF BatchHandled, N

-----------------------------------------------------------------------------
(* The user's words.                                                       *)

LEMMA MessagesAdded ==
  ASSUME NEW ctx \in Seq(Messages), NEW words \in Seq(Nat)
  PROVE  Append(ctx, <<"user", words>>) \in Seq(Messages)
<1>1. <<"user", words>> \in Messages
  BY DEF Messages
<1> QED
  BY <1>1, AppendProperties

\* A task's batch, or the queue it takes, is handled: the words are kept.
LEMMA BatchKeepsWords ==
  ASSUME CascadeTypes, TasksSound, WordsSentOnce, NEW t \in Tasks, NEW batch, NEW evs,
         NEW added \in Seq(Messages), \A k \in 1..Len(added) : added[k][1] # "user",
         BatchHandled(t, batch, evs, context \o added), recognised' = recognised,
         \/ batch = sttEvents /\ tasks[t].batch = <<>> /\ sttEvents' = <<>>
         \/ batch = tasks[t].batch /\ sttEvents' = sttEvents
  PROVE  /\ WordsSentOnce' /\ TasksSound' /\ tasks' \in [Tasks -> TaskRecords]
         /\ sttEvents' \in Seq(SttEvents) /\ accumulated' \in Seq(Nat) /\ context' \in Seq(Messages)
<1> DEFINE messages == context \o added
           taken == [Batches EXCEPT ![t] = batch]
<1>1. /\ Batches \in [Tasks -> Seq(SttEvents)] /\ sttEvents \in Seq(SttEvents) /\ accumulated \in Seq(Nat)
      /\ context \in Seq(Messages) /\ Batches[t] = tasks[t].batch
  BY DEF CascadeTypes, TaskRecords, Batches
<1>2. messages \in Seq(Messages)
  BY <1>1, ConcatProperties
<1>3. Once(sttEvents, Batches, accumulated, messages, recognised)
  BY <1>1, PlacesAreSpots, OnceAnswered
<1> HIDE DEF messages
<1>4. batch \in Seq(SttEvents) /\ taken \in [Tasks -> Seq(SttEvents)] /\ taken[t] = batch
      /\ sttEvents' \in Seq(SttEvents)
  BY <1>1
<1>5. Once(sttEvents', taken, accumulated, messages, recognised)
  <2>1. CASE batch = sttEvents /\ tasks[t].batch = <<>> /\ sttEvents' = <<>>
    BY <1>1, <1>3, <2>1, OnceTaken
  <2>2. CASE batch = tasks[t].batch /\ sttEvents' = sttEvents
    <3>1. taken = Batches
      BY <1>1, <2>2
    <3> QED
      BY <1>3, <2>2, <3>1
  <2> QED
    BY <2>1, <2>2
<1>6. PICK last \in 0..Len(batch) : AsksModel(t, batch, last, messages) \/ ListensOn(t, batch, last, messages)
  BY DEF BatchHandled, messages
<1> DEFINE rest == SubSeq(batch, last + 1, Len(batch))
           words == WordsOf(batch, last)
           left == [taken EXCEPT ![t] = rest]
<1>7. rest \in Seq(SttEvents) /\ words \in Seq(Nat)
  <2>1. Len(batch) \in Nat /\ \A i \in 1..Len(batch) : batch[i] \in SttEvents
    BY <1>4, LenProperties, ElementOfSeq
  <2>2. rest \in Seq(SttEvents)
    BY <2>1, SubSeqProperties
  <2>3. SubSeq(batch, 1, last) \in Seq(SttEvents)
    BY <2>1, SubSeqProperties
  <2>4. FinalsAmong(SubSeq(batch, 1, last)) \in Seq(Nat)
    BY <2>3, FinalsFound
  <2> QED
    BY <1>1, <2>2, <2>4, ConcatProperties DEF WordsOf
<1>8. Once(sttEvents', left, words, messages, recognised)
  <2>1. DOMAIN taken = Tasks
    BY <1>4
  <2> HIDE DEF taken
  <2>2. Once(sttEvents', [taken EXCEPT ![t] = SubSeq(taken[t], last + 1, Len(taken[t]))],
             accumulated \o FinalsAmong(SubSeq(taken[t], 1, last)), messages, recognised)
    BY <1>1, <1>4, <1>5, <2>1, OnceAccumulated
  <2> QED
    BY <1>4, <2>2 DEF WordsOf
<1>9. left = [Batches EXCEPT ![t] = rest]
  BY <1>1
<1> HIDE DEF rest, words, left, taken
<1>10. CASE AsksModel(t, batch, last, messages)
  <2>1. /\ accumulated' = <<>> /\ context' = Append(messages, <<"user", words>>)
        /\ \E more \in BOOLEAN :
             /\ ~more => rest = <<>>
             /\ tasks' = [tasks EXCEPT ![t] = [pc |-> "llm", batch |-> rest, more |-> more, answer |-> 0]]
    BY <1>10 DEF AsksModel, rest, words
  <2>2. PICK more \in BOOLEAN :
           /\ ~more => rest = <<>>
           /\ tasks' = [tasks EXCEPT ![t] = [pc |-> "llm", batch |-> rest, more |-> more, answer |-> 0]]
    BY <2>1
  <2> DEFINE asking == [pc |-> "llm", batch |-> rest, more |-> more, answer |-> 0]
  <2>3. asking \in TaskRecords /\ asking.pc = "llm" /\ asking.batch = rest /\ asking.more = more
    BY <1>7, CascadeAssumption DEF TaskRecords, CascadeTypes
  <2>4. tasks' = [tasks EXCEPT ![t] = asking]
    BY <2>2
  <2> HIDE DEF asking
  <2>5. tasks' \in [Tasks -> TaskRecords] /\ TasksSound' /\ Batches' = left
    <3>1. /\ tasks' \in [Tasks -> TaskRecords] /\ tasks'[t] = asking
          /\ \A u \in Tasks : u # t => tasks'[u] = tasks[u]
      BY <2>3, <2>4 DEF CascadeTypes
    <3>2. TasksSound'
      BY <2>2, <2>3, <3>1 DEF TasksSound
    <3>3. Batches' = left
      BY <1>1, <1>9, <2>3, <3>1 DEF Batches
    <3> QED
      BY <3>1, <3>2, <3>3
  <2>6. Once(sttEvents', Batches', accumulated', context', recognised')
    BY <1>2, <1>8, <2>1, <2>5, OnceAsked
  <2>7. WordsSentOnce'
    BY <2>6, PlacesAreSpotsNext
  <2>8. accumulated' \in Seq(Nat) /\ context' \in Seq(Messages)
    BY <1>2, <1>7, <2>1, MessagesAdded
  <2> QED
    BY <1>4, <2>5, <2>7, <2>8
<1>11. CASE ListensOn(t, batch, last, messages)
  <2>1. /\ accumulated' = words /\ context' = messages /\ rest = <<>> /\ tasks' = [tasks EXCEPT ![t] = FreeTask]
    BY <1>11 DEF ListensOn, rest, words
  <2>2. FreeTask \in TaskRecords /\ FreeTask.pc = "free" /\ FreeTask.batch = <<>>
    BY CascadeAssumption DEF FreeTask, TaskRecords, CascadeTypes
  <2>3. /\ tasks' \in [Tasks -> TaskRecords] /\ tasks'[t] = FreeTask
        /\ \A u \in Tasks : u # t => tasks'[u] = tasks[u]
    BY <2>1, <2>2 DEF CascadeTypes
  <2>4. TasksSound'
    BY <2>2, <2>3 DEF TasksSound
  <2>5. Batches' = left
    BY <1>1, <1>9, <2>1, <2>2, <2>3 DEF Batches
  <2>6. Once(sttEvents', Batches', accumulated', context', recognised')
    BY <1>8, <2>1, <2>5
  <2>7. WordsSentOnce'
    BY <2>6, PlacesAreSpotsNext
  <2> QED
    BY <1>2, <1>4, <1>7, <2>1, <2>3, <2>4, <2>7
<1> QED
  BY <1>6, <1>10, <1>11

-----------------------------------------------------------------------------
(* The answers' audio.                                                     *)

\* Stream st has the pieces of every answer that is not cut, in order.
WholeIn(st, count, cutAt) ==
  \A a \in 1..MaxReplies \ cutAt :
    /\ \A i \in 1..Len(st) : st[i][1] = a => st[i][2] \in 1..count[a]
    /\ \A k \in 1..count[a] : \E i \in 1..Len(st) : st[i][1] = a /\ st[i][2] = k
    /\ \A i, j \in 1..Len(st) : st[i][1] = a /\ st[j][1] = a /\ i < j => st[i][2] < st[j][2]

LEMMA PlayedIsWhole ==
  AnswersPlayedWhole <=> WholeIn(AudioStream, sent, interrupted)
<1> DEFINE st == AudioStream
           spots(a) == {i \in 1..Len(st) : st[i][1] = a}
           good(a) == /\ {st[i][2] : i \in spots(a)} = 1..sent[a]
                      /\ \A i, j \in spots(a) : i < j => st[i][2] < st[j][2]
<1>1. AnswersPlayedWhole <=> \A a \in 1..MaxReplies \ interrupted : good(a)
  BY DEF AnswersPlayedWhole
<1> HIDE DEF st
<1>2. ASSUME NEW a
      PROVE  good(a) <=>
               /\ \A i \in 1..Len(st) : st[i][1] = a => st[i][2] \in 1..sent[a]
               /\ \A k \in 1..sent[a] : \E i \in 1..Len(st) : st[i][1] = a /\ st[i][2] = k
               /\ \A i, j \in 1..Len(st) : st[i][1] = a /\ st[j][1] = a /\ i < j => st[i][2] < st[j][2]
  OBVIOUS
<1> HIDE DEF good
<1> QED
  BY <1>1, <1>2 DEF WholeIn, st

LEMMA PlayedIsWholeNext ==
  WholeIn(AudioStream', sent', interrupted') => AnswersPlayedWhole'
<1>1. AnswersPlayedWhole <=> WholeIn(AudioStream, sent, interrupted)
  BY PlayedIsWhole
<1>2. AnswersPlayedWhole' <=> WholeIn(AudioStream, sent, interrupted)'
  BY <1>1, PTL
<1> QED
  BY <1>2

\* The stream, piece by piece.
Stream(played, audio, evs) == played \o audio \o [k \in 1..Len(evs) |-> PieceOf(evs[k])]
StreamAt(st, played, audio, evs) ==
  /\ Len(st) = Len(played) + Len(audio) + Len(evs)
  /\ \A i \in 1..Len(played) : st[i] = played[i]
  /\ \A i \in 1..Len(audio) : st[Len(played) + i] = audio[i]
  /\ \A i \in 1..Len(evs) : st[Len(played) + Len(audio) + i] = PieceOf(evs[i])

LEMMA StreamIs ==
  ASSUME NEW played \in Seq(Nat \X Nat), NEW audio \in Seq(Nat \X Nat), NEW evs \in Seq(PipelineEvents)
  PROVE  StreamAt(Stream(played, audio, evs), played, audio, evs)
<1> DEFINE queued == [k \in 1..Len(evs) |-> PieceOf(evs[k])]
           soFar == played \o audio
           P == Len(played)
           A == Len(audio)
           E == Len(evs)
<1>1. P \in Nat /\ A \in Nat /\ E \in Nat
  BY LenProperties
<1>2. queued \in Seq(Nat \X Nat) /\ Len(queued) = E
  <2>1. ASSUME NEW k \in 1..E PROVE PieceOf(evs[k]) \in Nat \X Nat
    <3>1. evs[k] \in PipelineEvents
      BY ElementOfSeq
    <3> QED
      BY <3>1 DEF PipelineEvents, PieceOf, NoPiece
  <2> DEFINE S == Nat \X Nat
  <2>2. queued \in [1..E -> S]
    BY <2>1
  <2> HIDE DEF queued, S, E
  <2>3. queued \in Seq(S) /\ Len(queued) = E
    BY <1>1, <2>2, FunctionIsSeq
  <2> QED
    BY <2>3 DEF S
<1>3. \A k \in 1..E : queued[k] = PieceOf(evs[k])
  OBVIOUS
<1>4. soFar \in Seq(Nat \X Nat) /\ Len(soFar) = P + A
      /\ \A i \in 1..(P + A) : soFar[i] = IF i <= P THEN played[i] ELSE audio[i - P]
  BY ConcatProperties
<1> HIDE DEF queued, soFar, E
<1>5. Len(soFar \o queued) = Len(soFar) + E
      /\ \A i \in 1..(Len(soFar) + E) : (soFar \o queued)[i] = IF i <= Len(soFar) THEN soFar[i] ELSE queued[i - Len(soFar)]
  <2> DEFINE S == Nat \X Nat
  <2>1. soFar \in Seq(S) /\ queued \in Seq(S)
    BY <1>2, <1>4
  <2> HIDE DEF S
  <2>2. Len(soFar \o queued) = Len(soFar) + Len(queued)
        /\ \A i \in 1..(Len(soFar) + Len(queued)) :
             (soFar \o queued)[i] = IF i <= Len(soFar) THEN soFar[i] ELSE queued[i - Len(soFar)]
    BY <2>1, ConcatProperties
  <2> QED
    BY <1>2, <2>2
<1> DEFINE st == soFar \o queued
<1>6. Len(st) = P + A + E
      /\ \A i \in 1..(P + A + E) : st[i] = IF i <= P + A THEN soFar[i] ELSE queued[i - (P + A)]
  BY <1>4, <1>5
<1> HIDE DEF st, P, A
<1>7. ASSUME NEW i \in 1..P PROVE st[i] = played[i]
  <2>1. i \in 1..(P + A + E) /\ i <= P + A /\ i \in 1..(P + A) /\ i <= P
    BY <1>1
  <2>2. st[i] = soFar[i]
    BY <1>6, <2>1
  <2> QED
    BY <1>4, <2>1, <2>2
<1>8. ASSUME NEW i \in 1..A PROVE st[P + i] = audio[i]
  <2>1. P + i \in 1..(P + A + E) /\ P + i <= P + A /\ P + i \in 1..(P + A) /\ ~(P + i <= P) /\ (P + i) - P = i
    BY <1>1
  <2> QED
    BY <1>4, <1>6, <2>1
<1>9. ASSUME NEW i \in 1..E PROVE st[P + A + i] = PieceOf(evs[i])
  <2>1. P + A + i \in 1..(P + A + E) /\ ~(P + A + i <= P + A) /\ (P + A + i) - (P + A) = i
    BY <1>1
  <2> QED
    BY <1>3, <1>6, <2>1
<1> QED
  BY <1>6, <1>7, <1>8, <1>9 DEF StreamAt, Stream, st, soFar, queued, P, A, E

\* Events without audio at the end, or a piece of an answer.
LEMMA WholeWithMore ==
  ASSUME NEW st, NEW st2, NEW count, NEW cutAt, WholeIn(st, count, cutAt), Len(st) \in Nat, Len(st2) \in Nat,
         Len(st) <= Len(st2), \A i \in 1..Len(st) : st2[i] = st[i],
         \A i \in 1..Len(st2) : i \notin 1..Len(st) => st2[i] = NoPiece
  PROVE  WholeIn(st2, count, cutAt)
<1> SUFFICES ASSUME NEW a \in 1..MaxReplies \ cutAt
             PROVE  /\ \A i \in 1..Len(st2) : st2[i][1] = a => st2[i][2] \in 1..count[a]
                    /\ \A k \in 1..count[a] : \E i \in 1..Len(st2) : st2[i][1] = a /\ st2[i][2] = k
                    /\ \A i, j \in 1..Len(st2) : st2[i][1] = a /\ st2[j][1] = a /\ i < j => st2[i][2] < st2[j][2]
  BY DEF WholeIn
<1>1. /\ \A i \in 1..Len(st) : st[i][1] = a => st[i][2] \in 1..count[a]
      /\ \A k \in 1..count[a] : \E i \in 1..Len(st) : st[i][1] = a /\ st[i][2] = k
      /\ \A i, j \in 1..Len(st) : st[i][1] = a /\ st[j][1] = a /\ i < j => st[i][2] < st[j][2]
  BY DEF WholeIn
<1>2. NoPiece[1] # a
  BY DEF NoPiece
<1>3. /\ \A i \in 1..Len(st2) : st2[i][1] = a => i \in 1..Len(st) /\ st2[i] = st[i]
      /\ \A i \in 1..Len(st) : i \in 1..Len(st2) /\ st2[i] = st[i]
  BY <1>2
<1> QED
  BY <1>1, <1>3

LEMMA WholeWithPiece ==
  ASSUME NEW st, NEW st2, NEW count \in [1..MaxReplies -> Nat], NEW cutAt, WholeIn(st, count, cutAt), Len(st) \in Nat,
         Len(st2) = Len(st) + 1, \A i \in 1..Len(st) : st2[i] = st[i],
         NEW a \in 1..MaxReplies, st2[Len(st) + 1] = <<a, count[a] + 1>>
  PROVE  WholeIn(st2, [count EXCEPT ![a] = @ + 1], cutAt)
<1> DEFINE count2 == [count EXCEPT ![a] = @ + 1]
           last == Len(st) + 1
<1>1. count2[a] = count[a] + 1 /\ \A c \in 1..MaxReplies : c # a => count2[c] = count[c]
  OBVIOUS
<1>2. st2[last][1] = a /\ st2[last][2] = count[a] + 1 /\ count[a] \in Nat
  OBVIOUS
<1>3. ASSUME NEW c \in 1..MaxReplies \ cutAt
      PROVE  /\ \A i \in 1..Len(st2) : st2[i][1] = c => st2[i][2] \in 1..count2[c]
             /\ \A k \in 1..count2[c] : \E i \in 1..Len(st2) : st2[i][1] = c /\ st2[i][2] = k
             /\ \A i, j \in 1..Len(st2) : st2[i][1] = c /\ st2[j][1] = c /\ i < j => st2[i][2] < st2[j][2]
  <2>1. /\ \A i \in 1..Len(st) : st[i][1] = c => st[i][2] \in 1..count[c]
        /\ \A k \in 1..count[c] : \E i \in 1..Len(st) : st[i][1] = c /\ st[i][2] = k
        /\ \A i, j \in 1..Len(st) : st[i][1] = c /\ st[j][1] = c /\ i < j => st[i][2] < st[j][2]
    BY DEF WholeIn
  <2>2. /\ \A i \in 1..Len(st2) : i = last \/ (i \in 1..Len(st) /\ i < last /\ st2[i] = st[i])
        /\ \A i \in 1..Len(st) : i \in 1..Len(st2) /\ st2[i] = st[i]
        /\ last \in 1..Len(st2) /\ \A i \in 1..Len(st2) : ~(last < i)
    OBVIOUS
  <2>3. count[c] \in Nat /\ count2[c] \in Nat /\ count2[c] = IF c = a THEN count[c] + 1 ELSE count[c]
    BY <1>1, <1>2
  <2> HIDE DEF last, count2
  <2>4. \A i \in 1..Len(st2) : st2[i][1] = c => st2[i][2] \in 1..count2[c]
    <3> SUFFICES ASSUME NEW i \in 1..Len(st2), st2[i][1] = c PROVE st2[i][2] \in 1..count2[c]
      OBVIOUS
    <3>1. CASE i = last
      <4>1. c = a /\ st2[i][2] = count[c] + 1
        BY <1>2, <3>1
      <4> QED
        BY <2>3, <4>1
    <3>2. CASE i # last
      <4>1. st2[i][2] \in 1..count[c]
        BY <2>1, <2>2, <3>2
      <4> QED
        BY <2>3, <4>1
    <3> QED
      BY <3>1, <3>2
  <2>5. \A k \in 1..count2[c] : \E i \in 1..Len(st2) : st2[i][1] = c /\ st2[i][2] = k
    <3> SUFFICES ASSUME NEW k \in 1..count2[c] PROVE \E i \in 1..Len(st2) : st2[i][1] = c /\ st2[i][2] = k
      OBVIOUS
    <3>1. k \in 1..count[c] \/ (c = a /\ k = count[a] + 1)
      BY <2>3
    <3>2. CASE k \in 1..count[c]
      BY <2>1, <2>2, <3>2
    <3>3. CASE c = a /\ k = count[a] + 1
      BY <1>2, <2>2, <3>3
    <3> QED
      BY <3>1, <3>2, <3>3
  <2>6. ASSUME NEW i \in 1..Len(st2), NEW j \in 1..Len(st2), st2[i][1] = c, st2[j][1] = c, i < j
        PROVE  st2[i][2] < st2[j][2]
    <3>1. i \in 1..Len(st) /\ st2[i] = st[i]
      BY <2>2, <2>6
    <3>2. CASE j = last
      <4>1. c = a /\ st2[j][2] = count[c] + 1 /\ st2[i][2] \in 1..count[c]
        BY <1>2, <2>1, <2>6, <3>1, <3>2
      <4> QED
        BY <2>3, <4>1
    <3>3. CASE j # last
      BY <2>1, <2>2, <2>6, <3>1, <3>3
    <3> QED
      BY <3>2, <3>3
  <2> QED
    BY <2>4, <2>5, <2>6
<1> HIDE DEF count2
<1>4. WholeIn(st2, count2, cutAt)
  BY <1>3 DEF WholeIn
<1> QED
  BY <1>4 DEF count2

\* What is dropped after lo are d entries without a piece, or of answers cut.
LEMMA WholeWithout ==
  ASSUME NEW st, NEW st2, NEW count, NEW cutAt, NEW cut2, WholeIn(st, count, cutAt), cutAt \subseteq cut2,
         Len(st) \in Nat, NEW lo \in Nat, NEW d \in Nat, Len(st2) = Len(st) - d, lo + d <= Len(st),
         \A i \in 1..lo : st2[i] = st[i], \A i \in 1..Len(st2) : i > lo => st2[i] = st[i + d],
         \A i \in (lo + 1)..(lo + d) : st[i][1] \in cut2 \cup {0}
  PROVE  WholeIn(st2, count, cut2)
<1> SUFFICES ASSUME NEW a \in 1..MaxReplies \ cut2
             PROVE  /\ \A i \in 1..Len(st2) : st2[i][1] = a => st2[i][2] \in 1..count[a]
                    /\ \A k \in 1..count[a] : \E i \in 1..Len(st2) : st2[i][1] = a /\ st2[i][2] = k
                    /\ \A i, j \in 1..Len(st2) : st2[i][1] = a /\ st2[j][1] = a /\ i < j => st2[i][2] < st2[j][2]
  BY DEF WholeIn
<1>1. /\ \A i \in 1..Len(st) : st[i][1] = a => st[i][2] \in 1..count[a]
      /\ \A k \in 1..count[a] : \E i \in 1..Len(st) : st[i][1] = a /\ st[i][2] = k
      /\ \A i, j \in 1..Len(st) : st[i][1] = a /\ st[j][1] = a /\ i < j => st[i][2] < st[j][2]
  BY DEF WholeIn
<1> DEFINE to == [i \in 1..Len(st2) |-> IF i <= lo THEN i ELSE i + d]
<1>2. \A i \in 1..Len(st2) : to[i] \in 1..Len(st) /\ st2[i] = st[to[i]]
  OBVIOUS
<1>3. \A i, j \in 1..Len(st2) : i < j => to[i] < to[j]
  OBVIOUS
<1>4. ASSUME NEW i \in 1..Len(st), st[i][1] = a
      PROVE  \E j \in 1..Len(st2) : st2[j] = st[i]
  <2>1. i \notin (lo + 1)..(lo + d)
    BY <1>4
  <2>2. CASE i <= lo
    <3>1. i \in 1..Len(st2) /\ i \in 1..lo
      BY <2>2
    <3> QED
      BY <3>1
  <2>3. CASE i > lo + d
    <3>1. i - d \in 1..Len(st2) /\ i - d > lo /\ (i - d) + d = i
      BY <2>3
    <3> QED
      BY <3>1
  <2> QED
    BY <2>1, <2>2, <2>3
<1> HIDE DEF to
<1>5. ASSUME NEW i \in 1..Len(st2), st2[i][1] = a
      PROVE  st2[i][2] \in 1..count[a]
  <2>1. PICK j \in 1..Len(st) : st2[i] = st[j]
    BY <1>2
  <2> QED
    BY <1>1, <1>5, <2>1
<1>6. \A k \in 1..count[a] : \E i \in 1..Len(st2) : st2[i][1] = a /\ st2[i][2] = k
  <2> SUFFICES ASSUME NEW k \in 1..count[a] PROVE \E i \in 1..Len(st2) : st2[i][1] = a /\ st2[i][2] = k
    OBVIOUS
  <2>1. PICK i \in 1..Len(st) : st[i][1] = a /\ st[i][2] = k
    BY <1>1
  <2> QED
    BY <1>4, <2>1
<1>7. ASSUME NEW i \in 1..Len(st2), NEW j \in 1..Len(st2), st2[i][1] = a, st2[j][1] = a, i < j
      PROVE  st2[i][2] < st2[j][2]
  <2>1. PICK m \in 1..Len(st), n \in 1..Len(st) : m < n /\ st2[i] = st[m] /\ st2[j] = st[n]
    BY <1>2, <1>3, <1>7
  <2> QED
    BY <1>1, <1>7, <2>1
<1> QED
  BY <1>5, <1>6, <1>7

-----------------------------------------------------------------------------
(* The actions.                                                            *)

CascadeInv == CascadeTypes /\ TasksSound /\ WordsSentOnce /\ AnswersPlayedWhole

LEMMA WordsLeft ==
  ASSUME CascadeTypes, WordsSentOnce, UNCHANGED <<sttEvents, accumulated, recognised>>, Batches' = Batches,
         NEW added \in Seq(Messages), \A k \in 1..Len(added) : added[k][1] # "user", context' = context \o added
  PROVE  WordsSentOnce' /\ context' \in Seq(Messages)
<1>1. Once(sttEvents, Batches, accumulated, context \o added, recognised)
  BY PlacesAreSpots, OnceAnswered DEF CascadeTypes
<1>2. WordsSentOnce'
  BY <1>1, PlacesAreSpotsNext
<1>3. context' \in Seq(Messages)
  BY ConcatProperties DEF CascadeTypes
<1> QED
  BY <1>2, <1>3

LEMMA WordsUntouched ==
  ASSUME CascadeTypes, WordsSentOnce, UNCHANGED <<sttEvents, accumulated, recognised, context>>, Batches' = Batches
  PROVE  WordsSentOnce'
<1>1. Once(sttEvents, Batches, accumulated, context, recognised)
  BY PlacesAreSpots
<1> QED
  BY <1>1, PlacesAreSpotsNext

LEMMA StreamKnown ==
  ASSUME NEW played \in Seq(Nat \X Nat), NEW audio \in Seq(Nat \X Nat), NEW evs \in Seq(PipelineEvents)
  PROVE  LET st == Stream(played, audio, evs)
         IN  StreamAt(st, played, audio, evs) /\ Len(st) \in Nat
<1> DEFINE st == Stream(played, audio, evs)
<1>1. StreamAt(st, played, audio, evs)
  BY StreamIs
<1>2. Len(played) \in Nat /\ Len(audio) \in Nat /\ Len(evs) \in Nat
  BY LenProperties
<1> HIDE DEF st
<1>3. Len(st) \in Nat
  BY <1>1, <1>2 DEF StreamAt
<1> QED
  BY <1>1, <1>3 DEF st

\* Events without audio join the queue.
LEMMA EventsJoin ==
  ASSUME CascadeTypes, AnswersPlayedWhole, UNCHANGED <<playedPieces, agentAudio, sent, interrupted>>,
         NEW more \in Seq(PipelineEvents), \A k \in 1..Len(more) : more[k][1] # "audio",
         pipelineEvents' = pipelineEvents \o more
  PROVE  AnswersPlayedWhole' /\ pipelineEvents' \in Seq(PipelineEvents)
<1> DEFINE evs == pipelineEvents \o more
           st == Stream(playedPieces, agentAudio, pipelineEvents)
           st2 == Stream(playedPieces, agentAudio, evs)
           P == Len(playedPieces)
           A == Len(agentAudio)
           E == Len(pipelineEvents)
           M == Len(more)
<1>1. /\ playedPieces \in Seq(Nat \X Nat) /\ agentAudio \in Seq(Nat \X Nat)
      /\ pipelineEvents \in Seq(PipelineEvents)
  BY DEF CascadeTypes
<1>2. /\ evs \in Seq(PipelineEvents) /\ Len(evs) = E + M
      /\ \A i \in 1..(E + M) : evs[i] = IF i <= E THEN pipelineEvents[i] ELSE more[i - E]
  BY <1>1, ConcatProperties
<1>3. P \in Nat /\ A \in Nat /\ E \in Nat /\ M \in Nat
  BY <1>1, LenProperties
<1> HIDE DEF evs
<1>4. /\ StreamAt(st, playedPieces, agentAudio, pipelineEvents) /\ Len(st) \in Nat
      /\ StreamAt(st2, playedPieces, agentAudio, evs) /\ Len(st2) \in Nat
  BY <1>1, <1>2, StreamKnown
<1> HIDE DEF st, st2
<1>5. /\ Len(st) = P + A + E
      /\ \A i \in 1..P : st[i] = playedPieces[i]
      /\ \A i \in 1..A : st[P + i] = agentAudio[i]
      /\ \A i \in 1..E : st[P + A + i] = PieceOf(pipelineEvents[i])
  BY <1>4 DEF StreamAt
<1>6. /\ Len(st2) = P + A + E + M
      /\ \A i \in 1..P : st2[i] = playedPieces[i]
      /\ \A i \in 1..A : st2[P + i] = agentAudio[i]
      /\ \A i \in 1..(E + M) : st2[P + A + i] = PieceOf(evs[i])
  <2>1. /\ Len(st2) = P + A + (E + M)
        /\ \A i \in 1..P : st2[i] = playedPieces[i]
        /\ \A i \in 1..A : st2[P + i] = agentAudio[i]
        /\ \A i \in 1..(E + M) : st2[P + A + i] = PieceOf(evs[i])
    BY <1>2, <1>4 DEF StreamAt
  <2> HIDE DEF P, A, E, M
  <2> QED
    BY <1>3, <2>1
<1> HIDE DEF P, A, E, M
<1>7. ASSUME NEW i \in 1..Len(st) PROVE st2[i] = st[i]
  <2>1. CASE i <= P
    BY <1>3, <1>5, <1>6, <2>1
  <2>2. CASE i > P /\ i <= P + A
    <3> DEFINE k == i - P
    <3>1. k \in 1..A /\ P + k = i
      BY <1>3, <2>2
    <3> HIDE DEF k
    <3> QED
      BY <1>5, <1>6, <3>1
  <2>3. CASE i > P + A
    <3> DEFINE k == i - (P + A)
    <3>1. k \in 1..E /\ k \in 1..(E + M) /\ P + A + k = i /\ k <= E
      BY <1>3, <1>5, <2>3
    <3> HIDE DEF k
    <3>2. evs[k] = pipelineEvents[k]
      BY <1>2, <3>1 DEF M, E
    <3> QED
      BY <1>5, <1>6, <3>1, <3>2
  <2> QED
    BY <1>3, <1>5, <2>1, <2>2, <2>3
<1>8. ASSUME NEW i \in 1..Len(st2), i \notin 1..Len(st) PROVE st2[i] = NoPiece
  <2> DEFINE k == i - (P + A)
  <2>1. k \in 1..(E + M) /\ P + A + k = i /\ ~(k <= E) /\ k - E \in 1..M
    BY <1>3, <1>5, <1>6, <1>8
  <2> HIDE DEF k
  <2>2. evs[k] = more[k - E] /\ more[k - E][1] # "audio"
    BY <1>2, <2>1 DEF M
  <2> QED
    BY <1>6, <2>1, <2>2 DEF PieceOf
<1>9. WholeIn(st, sent, interrupted)
  BY PlayedIsWhole DEF st, Stream, AudioStream
<1>10. Len(st) <= Len(st2)
  BY <1>3, <1>5, <1>6
<1>11. WholeIn(st2, sent, interrupted)
  BY <1>4, <1>7, <1>8, <1>9, <1>10, WholeWithMore
<1>12. AudioStream' = st2
  BY DEF st2, evs, Stream, AudioStream
<1> QED
  BY <1>2, <1>11, <1>12, PlayedIsWholeNext DEF evs

LEMMA StreamUntouched ==
  ASSUME AnswersPlayedWhole, UNCHANGED <<playedPieces, agentAudio, pipelineEvents, sent, interrupted>>
  PROVE  AnswersPlayedWhole'
<1>1. WholeIn(AudioStream, sent, interrupted)
  BY PlayedIsWhole
<1>2. AudioStream' = AudioStream
  BY DEF AudioStream
<1> QED
  BY <1>1, <1>2, PlayedIsWholeNext

\* The first pieces leave one sequence for the other.
FirstPieces(s, k) == SubSeq(s, 1, Min({k, Len(s)}))
RestOf(s, k) == SubSeq(s, k + 1, Len(s))
LEMMA FirstsMoved ==
  ASSUME NEW S, NEW p \in Seq(S), NEW s \in Seq(S), NEW k \in Nat
  PROVE  FirstPieces(s, k) \in Seq(S) /\ RestOf(s, k) \in Seq(S) /\ (p \o FirstPieces(s, k)) \o RestOf(s, k) = p \o s
<1> DEFINE L == Len(s)
           n == Min({k, L})
           first == SubSeq(s, 1, n)
           rest == SubSeq(s, k + 1, L)
<1>1. L \in Nat /\ \A i \in 1..L : s[i] \in S
  BY LenProperties, ElementOfSeq
<1>2. n \in Nat /\ n <= L /\ n <= k /\ (n = k \/ n = L)
  <2>1. {k, L} \subseteq Nat /\ {k, L} # {}
    BY <1>1
  <2>2. n \in {k, L} /\ \A i \in {k, L} : n <= i
    BY <2>1, LeastOf
  <2> HIDE DEF n, L
  <2> QED
    BY <2>1, <2>2
<1> HIDE DEF n
<1>3. first \in Seq(S) /\ rest \in Seq(S)
  BY <1>1, <1>2, SubSeqProperties
<1>4. rest = SubSeq(s, n + 1, L)
  <2>1. CASE n = k
    BY <2>1
  <2>2. CASE n = L /\ n # k
    <3>1. rest = <<>>
      BY <1>1, <1>2, <2>2, SubSeqEmpty
    <3>2. SubSeq(s, n + 1, L) = <<>>
      BY <1>1, <1>2, <2>2, SubSeqEmpty
    <3> QED
      BY <3>1, <3>2
  <2> QED
    BY <1>2, <2>1, <2>2
<1>5. first \o SubSeq(s, n + 1, L) = SubSeq(s, 1, L)
  <2>1. 1 \in 1..(Len(s) + 1) /\ n \in (1 - 1)..Len(s) /\ L \in n..Len(s)
    BY <1>1, <1>2
  <2> QED
    BY <2>1, ConcatAdjacentSubSeq
<1>6. SubSeq(s, 1, L) = s
  BY SubSeqFull
<1> HIDE DEF first, rest, L
<1>7. (p \o first) \o rest = p \o (first \o rest)
  BY <1>3, ConcatAssociative
<1> QED
  BY <1>3, <1>4, <1>5, <1>6, <1>7 DEF first, rest, n, L, FirstPieces, RestOf

\* The tick plays the first pieces: the stream is the same.
LEMMA TickPlays ==
  ASSUME CascadeTypes, AnswersPlayedWhole, UNCHANGED <<pipelineEvents, sent, interrupted>>,
         playedPieces' = playedPieces \o SubSeq(agentAudio, 1, Min({TickPieces, Len(agentAudio)})),
         agentAudio' = SubSeq(agentAudio, TickPieces + 1, Len(agentAudio))
  PROVE  AnswersPlayedWhole' /\ playedPieces' \in Seq(Nat \X Nat) /\ agentAudio' \in Seq(Nat \X Nat)
<1> DEFINE S == Nat \X Nat
           first == FirstPieces(agentAudio, TickPieces)
           rest == RestOf(agentAudio, TickPieces)
           queued == [k \in 1..Len(pipelineEvents) |-> PieceOf(pipelineEvents[k])]
<1>1. playedPieces \in Seq(S) /\ agentAudio \in Seq(S) /\ TickPieces \in Nat
  BY CascadeAssumption DEF CascadeTypes
<1> HIDE DEF S
<1>2. first \in Seq(S) /\ rest \in Seq(S) /\ (playedPieces \o first) \o rest = playedPieces \o agentAudio
  <2> HIDE DEF first, rest
  <2>1. \A p, s \in Seq(S), k \in Nat :
          FirstPieces(s, k) \in Seq(S) /\ RestOf(s, k) \in Seq(S) /\ (p \o FirstPieces(s, k)) \o RestOf(s, k) = p \o s
    BY FirstsMoved, Zenon
  <2>2. FirstPieces(agentAudio, TickPieces) \in Seq(S) /\ RestOf(agentAudio, TickPieces) \in Seq(S)
        /\ (playedPieces \o FirstPieces(agentAudio, TickPieces)) \o RestOf(agentAudio, TickPieces)
           = playedPieces \o agentAudio
    BY <1>1, <2>1, Zenon
  <2> QED
    BY <2>2 DEF first, rest
<1>3. playedPieces \o first \in Seq(S)
  <2> HIDE DEF first
  <2> QED
    BY <1>1, <1>2, ConcatProperties
<1> HIDE DEF queued
<1>4. playedPieces' = playedPieces \o first /\ agentAudio' = rest
  BY DEF FirstPieces, RestOf
<1> HIDE DEF first, rest
<1>5. AudioStream = (playedPieces \o agentAudio) \o queued /\ AudioStream' = (playedPieces' \o agentAudio') \o queued
  BY DEF AudioStream, queued
<1>6. AudioStream' = AudioStream
  BY <1>2, <1>4, <1>5
<1>7. WholeIn(AudioStream, sent, interrupted)
  BY PlayedIsWhole
<1>8. AnswersPlayedWhole'
  BY <1>6, <1>7, PlayedIsWholeNext
<1> QED
  BY <1>2, <1>3, <1>4, <1>8 DEF S

-----------------------------------------------------------------------------
(* The actions keep the invariant.                                         *)

LEMMA StutterKeeps ==
  ASSUME CascadeInv, UNCHANGED cascadeVars
  PROVE  CascadeInv'
<1> USE DEF CascadeInv, cascadeVars, inputVars, outputVars, countVars
<1>1. CascadeTypes' /\ TasksSound' /\ Batches' = Batches
  BY DEF CascadeTypes, TasksSound, Batches
<1>2. WordsSentOnce'
  BY <1>1, WordsUntouched
<1>3. AnswersPlayedWhole'
  BY StreamUntouched
<1> QED
  BY <1>1, <1>2, <1>3

\* The tasks a tick starts take free slots.
LEMMA TickStarts ==
  ASSUME CascadeTypes, TasksSound, NextCascadeTick
  PROVE  tasks' \in [Tasks -> TaskRecords] /\ TasksSound' /\ Batches' = Batches
<1> DEFINE n == Len(callsMade)
           free == {t \in Tasks : tasks[t].pc = "free"}
           goesOn == IF n > 0 THEN {Min(free)} ELSE {}
           ready == Min(free \ goesOn)
           asking == [FreeTask EXCEPT !.pc = "llm"]
           queuedNow == [FreeTask EXCEPT !.pc = "wait"]
<1>1. /\ Cardinality(free) > IF n > 0 THEN 1 ELSE 0
      /\ tasks' = [t \in Tasks |-> IF t \in goesOn THEN asking ELSE IF t = ready THEN queuedNow ELSE tasks[t]]
  BY DEF NextCascadeTick
<1>2. n \in Nat /\ IsFiniteSet(free) /\ free \subseteq Nat /\ MaxTasks \in Nat
  <2>1. MaxTasks \in Nat
    BY CascadeAssumption
  <2>2. IsFiniteSet(Tasks)
    BY <2>1, FS_Interval DEF Tasks
  <2> QED
    BY <2>1, <2>2, FS_Subset, LenProperties DEF CascadeTypes, Tasks
<1>3. free # {}
  BY <1>1, <1>2, FS_EmptySet
<1>4. goesOn \subseteq free
  BY <1>2, <1>3, LeastOf
<1>5. free \ goesOn # {}
  <2>1. CASE n > 0
    <3> DEFINE first == Min(free)
    <3>1. first \in free /\ goesOn = {first}
      BY <1>2, <1>3, <2>1, LeastOf
    <3>2. Cardinality(free \ {first}) = Cardinality(free) - 1
      <4> HIDE DEF free, first
      <4> QED
        BY <1>2, <3>1, FS_RemoveElement
    <3>3. Cardinality(free) > 1 /\ Cardinality(free) \in Nat
      <4>1. Cardinality(free) \in Nat
        BY <1>2, FS_CardinalityType
      <4> QED
        BY <1>1, <2>1, <4>1
    <3> HIDE DEF free, first
    <3>4. Cardinality(free \ {first}) # 0
      BY <3>2, <3>3
    <3>5. free \ {first} # {}
      BY <3>4, FS_EmptySet
    <3> QED
      BY <3>1, <3>5
  <2>2. CASE ~(n > 0)
    BY <1>3, <2>2
  <2> QED
    BY <2>1, <2>2
<1>6. ready \in free
  <2>1. free \ goesOn \subseteq Nat
    BY <1>2
  <2> HIDE DEF free, goesOn
  <2> QED
    BY <1>5, <2>1, LeastOf
<1> HIDE DEF goesOn, ready
<1>7. /\ asking \in TaskRecords /\ asking.pc = "llm" /\ asking.batch = <<>>
      /\ queuedNow \in TaskRecords /\ queuedNow.pc = "wait" /\ queuedNow.batch = <<>>
  <2>1. FreeTask.batch = <<>> /\ FreeTask = [pc |-> "free", batch |-> <<>>, more |-> FALSE, answer |-> 0]
    BY DEF FreeTask
  <2>2. MaxReplies \in Nat /\ <<>> \in Seq(SttEvents)
    BY CascadeAssumption, EmptySeq
  <2>3. FreeTask \in TaskRecords
    BY <2>1, <2>2 DEF TaskRecords
  <2>4. asking \in TaskRecords /\ asking.pc = "llm" /\ asking.batch = <<>>
    BY <2>1, <2>3 DEF TaskRecords
  <2>5. queuedNow \in TaskRecords /\ queuedNow.pc = "wait" /\ queuedNow.batch = <<>>
    BY <2>1, <2>3 DEF TaskRecords
  <2> QED
    BY <2>4, <2>5
<1> HIDE DEF asking, queuedNow
<1>8. \A t \in Tasks : /\ tasks'[t] \in TaskRecords
                       /\ \/ tasks'[t] = tasks[t]
                          \/ t \in free /\ tasks'[t] \in {asking, queuedNow}
  BY <1>1, <1>4, <1>6, <1>7 DEF CascadeTypes
<1>9. tasks' \in [Tasks -> TaskRecords]
  BY <1>1, <1>8
<1>10. \A t \in free : tasks[t].batch = <<>>
  BY DEF TasksSound
<1>11. TasksSound'
  <2>1. ASSUME NEW t \in Tasks
        PROVE  /\ tasks'[t].pc \in {"free", "wait"} \/ ~tasks'[t].more => tasks'[t].batch = <<>>
               /\ tasks'[t].pc = "tts" => tasks'[t].answer # 0
    <3>1. CASE tasks'[t] = tasks[t]
      BY <3>1 DEF TasksSound
    <3>2. CASE tasks'[t] \in {asking, queuedNow}
      BY <1>7, <3>2
    <3> QED
      BY <1>8, <3>1, <3>2
  <2> QED
    BY <2>1 DEF TasksSound
<1>12. \A t \in Tasks : tasks'[t].batch = tasks[t].batch
  BY <1>7, <1>8, <1>10
<1> QED
  BY <1>9, <1>11, <1>12 DEF Batches

LEMMA PlayKeeps ==
  ASSUME CascadeInv, NextCascadeTick
  PROVE  CascadeInv'
<1> USE DEF CascadeInv
<1> DEFINE n == Len(callsMade)
           outcomes == [k \in 1..n |-> <<"result", callsMade[k]>>]
<1>1. tasks' \in [Tasks -> TaskRecords] /\ TasksSound' /\ Batches' = Batches
  BY TickStarts
<1>2. /\ playedPieces' = playedPieces \o SubSeq(agentAudio, 1, Min({TickPieces, Len(agentAudio)}))
      /\ agentAudio' = SubSeq(agentAudio, TickPieces + 1, Len(agentAudio))
      /\ callsMade' = <<>>
      /\ context' = context \o outcomes
      /\ UNCHANGED <<inputVars, pipelineEvents, interrupted, countVars>>
  BY DEF NextCascadeTick, ClientMessage
<1>3. outcomes \in Seq(Messages) /\ \A k \in 1..Len(outcomes) : outcomes[k][1] # "user"
  <2>1. n \in Nat /\ \A k \in 1..n : callsMade[k] \in Nat
    BY LenProperties, ElementOfSeq DEF CascadeTypes
  <2>2. outcomes \in [1..n -> Messages] /\ \A k \in 1..n : outcomes[k][1] = "result"
    BY <2>1 DEF Messages
  <2> HIDE DEF outcomes, n
  <2>3. outcomes \in Seq(Messages) /\ Len(outcomes) = n
    BY <2>1, <2>2, FunctionIsSeq
  <2> QED
    BY <2>2, <2>3
<1> HIDE DEF outcomes
<1>4. WordsSentOnce' /\ context' \in Seq(Messages)
  <2>1. UNCHANGED <<sttEvents, accumulated, recognised>>
    BY <1>2 DEF inputVars, countVars
  <2> QED
    BY <1>1, <1>2, <1>3, <2>1, WordsLeft
<1>5. AnswersPlayedWhole' /\ playedPieces' \in Seq(Nat \X Nat) /\ agentAudio' \in Seq(Nat \X Nat)
  <2>1. UNCHANGED <<pipelineEvents, sent, interrupted>>
    BY <1>2 DEF countVars
  <2> QED
    BY <1>2, <2>1, TickPlays
<1>6. callsMade' \in Seq(Nat)
  BY <1>2, EmptySeq
<1>7. CascadeTypes'
  BY <1>1, <1>2, <1>4, <1>5, <1>6 DEF CascadeTypes, inputVars, countVars
<1> QED
  BY <1>1, <1>4, <1>5, <1>7

\* The adapter takes the first event of the queue.
LEMMA EventTaken ==
  ASSUME CascadeTypes, AnswersPlayedWhole, HandlePipelineEvent
  PROVE  AnswersPlayedWhole' /\ agentAudio' \in Seq(Nat \X Nat) /\ pipelineEvents' \in Seq(PipelineEvents)
         /\ callsMade' \in Seq(Nat)
<1> DEFINE event == Head(pipelineEvents)
           rest == Tail(pipelineEvents)
           st == Stream(playedPieces, agentAudio, pipelineEvents)
           st2 == Stream(playedPieces, agentAudio', rest)
           P == Len(playedPieces)
           A == Len(agentAudio)
           E == Len(rest)
<1>1. /\ playedPieces \in Seq(Nat \X Nat) /\ agentAudio \in Seq(Nat \X Nat)
      /\ pipelineEvents \in Seq(PipelineEvents) /\ callsMade \in Seq(Nat)
  BY DEF CascadeTypes
<1>2. /\ pipelineEvents # <<>> /\ pipelineEvents' = rest
      /\ \/ event[1] = "audio" /\ agentAudio' = Append(agentAudio, event[2]) /\ UNCHANGED <<callsMade, interrupted>>
         \/ /\ event[1] \in {"start", "partial", "final"} /\ agentAudio' = <<>> /\ UNCHANGED callsMade
            /\ interrupted' = interrupted \cup {agentAudio[k][1] : k \in 1..Len(agentAudio)}
         \/ event[1] = "call" /\ callsMade' = Append(callsMade, event[2]) /\ UNCHANGED <<agentAudio, interrupted>>
      /\ UNCHANGED <<playedPieces, sent>>
  BY DEF HandlePipelineEvent, countVars
<1>3. /\ event \in PipelineEvents /\ rest \in Seq(PipelineEvents) /\ Len(pipelineEvents) = E + 1
      /\ \A i \in 1..E : rest[i] = pipelineEvents[i + 1]
      /\ event = pipelineEvents[1] /\ E \in Nat
  <2>1. /\ event \in PipelineEvents /\ rest \in Seq(PipelineEvents) /\ E = Len(pipelineEvents) - 1
        /\ \A i \in 1..E : rest[i] = pipelineEvents[i + 1]
    BY <1>1, <1>2, HeadTailProperties
  <2>2. E \in Nat /\ Len(pipelineEvents) \in Nat
    BY <1>1, <2>1, LenProperties
  <2> QED
    BY <2>1, <2>2
<1>4. P \in Nat /\ A \in Nat
  BY <1>1, LenProperties
<1>5. /\ event[1] = "audio" => event[2] \in Nat \X Nat /\ PieceOf(event) = event[2]
      /\ event[1] # "audio" => PieceOf(event)[1] = 0
      /\ event[1] = "call" => event[2] \in Nat
  <2> HIDE DEF event
  <2> QED
    BY <1>3 DEF PipelineEvents, PieceOf, NoPiece
<1> HIDE DEF event, rest
<1>6. /\ callsMade' \in Seq(Nat)
      /\ agentAudio' \in Seq(Nat \X Nat)
  <2>1. CASE event[1] = "audio"
    <3> DEFINE S == Nat \X Nat
    <3>1. agentAudio \in Seq(S) /\ event[2] \in S
      BY <1>1, <1>5, <2>1
    <3> HIDE DEF S
    <3>2. Append(agentAudio, event[2]) \in Seq(S)
      BY <3>1, AppendProperties
    <3>3. agentAudio' = Append(agentAudio, event[2]) /\ callsMade' = callsMade
      BY <1>2, <2>1
    <3> QED
      BY <1>1, <3>2, <3>3 DEF S
  <2>2. CASE event[1] = "call"
    <3>1. agentAudio' = agentAudio /\ callsMade' = Append(callsMade, event[2]) /\ event[2] \in Nat
      BY <1>2, <1>5, <2>2
    <3> QED
      BY <1>1, <3>1, AppendProperties
  <2>3. CASE event[1] \notin {"audio", "call"}
    <3>1. agentAudio' = <<>> /\ callsMade' = callsMade
      BY <1>2, <2>3
    <3> QED
      BY <1>1, <3>1, EmptySeq
  <2> QED
    BY <2>1, <2>2, <2>3
<1>7. /\ StreamAt(st, playedPieces, agentAudio, pipelineEvents) /\ Len(st) \in Nat
      /\ StreamAt(st2, playedPieces, agentAudio', rest) /\ Len(st2) \in Nat
  BY <1>1, <1>3, <1>6, StreamKnown
<1>8. WholeIn(st, sent, interrupted)
  BY PlayedIsWhole DEF Stream, AudioStream
<1>9. AudioStream' = st2
  BY <1>2 DEF Stream, AudioStream
<1> HIDE DEF st, st2
<1>10. /\ Len(st) = P + A + E + 1
       /\ \A i \in 1..P : st[i] = playedPieces[i]
       /\ \A i \in 1..A : st[P + i] = agentAudio[i]
       /\ st[P + A + 1] = PieceOf(event)
       /\ \A i \in 1..E : st[P + A + (i + 1)] = PieceOf(rest[i])
  <2>1. /\ Len(st) = P + A + (E + 1)
        /\ \A i \in 1..P : st[i] = playedPieces[i]
        /\ \A i \in 1..A : st[P + i] = agentAudio[i]
        /\ \A i \in 1..(E + 1) : st[P + A + i] = PieceOf(pipelineEvents[i])
    BY <1>3, <1>7 DEF StreamAt
  <2> HIDE DEF P, A, E
  <2>2. 1 \in 1..(E + 1) /\ \A i \in 1..E : i + 1 \in 1..(E + 1)
    BY <1>3 DEF E
  <2> HIDE DEF E
  <2> QED
    BY <1>3, <1>4, <2>1, <2>2 DEF E
<1> DEFINE B == Len(agentAudio')
<1>11. /\ Len(st2) = P + B + E
       /\ \A i \in 1..P : st2[i] = playedPieces[i]
       /\ \A i \in 1..B : st2[P + i] = agentAudio'[i]
       /\ \A i \in 1..E : st2[P + B + i] = PieceOf(rest[i])
       /\ B \in Nat
  <2>1. B \in Nat
    BY <1>6, LenProperties
  <2> QED
    BY <1>7, <2>1 DEF StreamAt
<1>12. WholeIn(st2, sent, interrupted')
  <2>1. CASE event[1] = "audio"
    <3>1. /\ B = A + 1 /\ \A i \in 1..A : agentAudio'[i] = agentAudio[i]
          /\ agentAudio'[A + 1] = PieceOf(event) /\ interrupted' = interrupted
      <4> DEFINE S == Nat \X Nat
                 audio == Append(agentAudio, event[2])
      <4>1. agentAudio \in Seq(S) /\ event[2] \in S
        BY <1>1, <1>5, <2>1
      <4>2. agentAudio' = audio /\ interrupted' = interrupted
        BY <1>2, <2>1
      <4> HIDE DEF S
      <4>3. Len(audio) = A + 1 /\ audio[A + 1] = event[2] /\ \A i \in 1..A : audio[i] = agentAudio[i]
        BY <4>1, AppendProperties
      <4> QED
        BY <1>5, <2>1, <4>2, <4>3
    <3> HIDE DEF P, A, B, E
    <3>2. Len(st2) = Len(st)
      BY <1>3, <1>4, <1>10, <1>11, <3>1 DEF E
    <3>3. ASSUME NEW i \in 1..Len(st) PROVE st2[i] = st[i]
      <4>1. CASE i \in 1..P
        BY <1>10, <1>11, <4>1
      <4>2. CASE i > P /\ i <= P + A
        <5> DEFINE k == i - P
        <5>1. k \in 1..A /\ k \in 1..B /\ P + k = i
          BY <1>4, <3>1, <4>2
        <5> HIDE DEF k
        <5> QED
          BY <1>10, <1>11, <3>1, <5>1
      <4>3. CASE i = P + A + 1
        <5> DEFINE k == A + 1
        <5>1. k \in 1..B /\ P + k = i /\ agentAudio'[k] = PieceOf(event)
          BY <1>4, <3>1, <4>3
        <5> HIDE DEF k
        <5> QED
          BY <1>10, <1>11, <4>3, <5>1
      <4>4. CASE i > P + A + 1
        <5> DEFINE k == i - (P + A + 1)
        <5>1. k \in 1..E /\ P + A + (k + 1) = i /\ P + B + k = i
          BY <1>3, <1>4, <1>10, <3>1, <4>4 DEF E
        <5> HIDE DEF k
        <5> QED
          BY <1>10, <1>11, <5>1
      <4> QED
        BY <1>3, <1>4, <1>10, <4>1, <4>2, <4>3, <4>4
    <3>4. WholeIn(st2, sent, interrupted)
      <4> DEFINE none == 0
      <4>1. none \in Nat /\ Len(st) \in Nat /\ Len(st2) = Len(st) - none /\ Len(st) + none <= Len(st)
        BY <1>7, <3>2
      <4>2. /\ \A i \in 1..Len(st) : st2[i] = st[i]
            /\ \A i \in 1..Len(st2) : i > Len(st) => st2[i] = st[i + none]
            /\ \A i \in (Len(st) + 1)..(Len(st) + none) : st[i][1] \in interrupted \cup {0}
        BY <1>7, <3>2, <3>3
      <4> HIDE DEF none
      <4> QED
        BY <1>8, <4>1, <4>2, WholeWithout
    <3> QED
      BY <3>1, <3>4
  <2>2. CASE event[1] = "call"
    <3>1. agentAudio' = agentAudio /\ interrupted' = interrupted /\ B = A
      BY <1>2, <2>2
    <3> HIDE DEF P, A, B, E
    <3> DEFINE lo == P + A
               one == 1
    <3>2. lo \in Nat /\ one \in Nat /\ Len(st) \in Nat /\ Len(st2) = Len(st) - one /\ lo + one <= Len(st)
      BY <1>3, <1>4, <1>10, <1>11, <3>1 DEF E
    <3>3. ASSUME NEW i \in 1..lo PROVE st2[i] = st[i]
      <4>1. CASE i \in 1..P
        BY <1>10, <1>11, <4>1
      <4>2. CASE i > P
        <5> DEFINE k == i - P
        <5>1. k \in 1..A /\ k \in 1..B /\ P + k = i
          BY <1>4, <3>1, <4>2
        <5> HIDE DEF k
        <5> QED
          BY <1>10, <1>11, <3>1, <5>1
      <4> QED
        BY <1>4, <4>1, <4>2
    <3>4. ASSUME NEW i \in 1..Len(st2), i > lo PROVE st2[i] = st[i + one]
      <4> DEFINE k == i - (P + A)
      <4>1. k \in 1..E /\ P + A + (k + 1) = i + one /\ P + B + k = i
        BY <1>3, <1>4, <1>11, <3>1, <3>4 DEF E
      <4> HIDE DEF k
      <4> QED
        BY <1>10, <1>11, <4>1
    <3>5. \A i \in (lo + 1)..(lo + one) : st[i][1] \in interrupted \cup {0}
      <4>1. \A i \in (lo + 1)..(lo + one) : i = P + A + 1
        BY <1>4
      <4> QED
        BY <1>5, <1>10, <2>2, <4>1
    <3> HIDE DEF lo, one
    <3>6. WholeIn(st2, sent, interrupted)
      BY <1>8, <3>2, <3>3, <3>4, <3>5, WholeWithout
    <3> QED
      BY <3>1, <3>6
  <2>3. CASE event[1] \notin {"audio", "call"}
    <3>1. agentAudio' = <<>> /\ interrupted' = interrupted \cup {agentAudio[k][1] : k \in 1..A}
      BY <1>2, <2>3
    <3>2. B = 0
      BY <3>1
    <3> HIDE DEF P, A, B, E
    <3> DEFINE d == A + 1
    <3>3. d \in Nat /\ P \in Nat /\ Len(st) \in Nat /\ Len(st2) = Len(st) - d /\ P + d <= Len(st)
      BY <1>3, <1>4, <1>10, <1>11, <3>2 DEF E
    <3>4. \A i \in 1..P : st2[i] = st[i]
      BY <1>10, <1>11
    <3>5. ASSUME NEW i \in 1..Len(st2), i > P PROVE st2[i] = st[i + d]
      <4> DEFINE k == i - P
      <4>1. k \in 1..E /\ P + A + (k + 1) = i + d /\ P + B + k = i
        <5>1. E \in Nat /\ i \in 1..(P + E) /\ i > P
          BY <1>3, <1>4, <1>11, <3>2, <3>5 DEF E
        <5>2. k \in 1..E /\ i = P + k
          BY <1>4, <5>1
        <5> HIDE DEF k
        <5> QED
          BY <1>4, <3>2, <5>1, <5>2
      <4> HIDE DEF k
      <4> QED
        BY <1>10, <1>11, <4>1
    <3>6. ASSUME NEW i \in (P + 1)..(P + d) PROVE st[i][1] \in interrupted' \cup {0}
      <4>1. CASE i = P + A + 1
        BY <1>5, <1>10, <2>3, <4>1
      <4>2. CASE i # P + A + 1
        <5> DEFINE k == i - P
        <5>1. k \in 1..A /\ P + k = i
          BY <1>4, <4>2
        <5> HIDE DEF k
        <5> QED
          BY <1>10, <3>1, <5>1
      <4> QED
        BY <4>1, <4>2
    <3>7. interrupted \subseteq interrupted'
      BY <3>1
    <3> HIDE DEF d
    <3> QED
      BY <1>8, <3>3, <3>4, <3>5, <3>6, <3>7, WholeWithout
  <2> QED
    BY <2>1, <2>2, <2>3
<1>13. sent' = sent
  BY <1>2
<1>14. AnswersPlayedWhole'
  BY <1>9, <1>12, <1>13, PlayedIsWholeNext
<1> QED
  BY <1>2, <1>3, <1>6, <1>14

LEMMA HandlingKeeps ==
  ASSUME CascadeInv, HandlePipelineEvent
  PROVE  CascadeInv'
<1> USE DEF CascadeInv
<1>1. UNCHANGED <<tasks, inputVars, context, playedPieces, countVars>>
  BY DEF HandlePipelineEvent
<1>2. AnswersPlayedWhole' /\ agentAudio' \in Seq(Nat \X Nat) /\ pipelineEvents' \in Seq(PipelineEvents)
      /\ callsMade' \in Seq(Nat)
  BY EventTaken
<1>3. CascadeTypes' /\ TasksSound' /\ Batches' = Batches
  BY <1>1, <1>2 DEF CascadeTypes, TasksSound, Batches, inputVars, countVars
<1>4. WordsSentOnce'
  BY <1>1, <1>3, WordsUntouched DEF inputVars, countVars
<1> QED
  BY <1>2, <1>3, <1>4

LEMMA TimeKeeps ==
  ASSUME CascadeInv, TimePasses
  PROVE  CascadeInv'
<1> USE DEF CascadeInv, TimePasses, outputVars, countVars
<1>1. CascadeTypes' /\ TasksSound' /\ Batches' = Batches
  BY DEF CascadeTypes, TasksSound, Batches
<1>2. WordsSentOnce'
  BY <1>1, WordsUntouched
<1>3. AnswersPlayedWhole'
  BY StreamUntouched
<1> QED
  BY <1>1, <1>2, <1>3

LEMMA HearingKeeps ==
  ASSUME CascadeInv, NEW kind \in SttKinds, SttHears(kind)
  PROVE  CascadeInv'
<1> USE DEF CascadeInv
<1>1. /\ recognised' = IF kind = "final" THEN recognised + 1 ELSE recognised
      /\ sttEvents' = Append(sttEvents, <<kind, recognised'>>)
      /\ UNCHANGED <<tasks, accumulated, context, pipelineEvents, outputVars, replies, callCount, sent>>
  BY DEF SttHears
<1>2. recognised \in Nat /\ recognised' \in Nat /\ sttEvents \in Seq(SttEvents)
  BY <1>1 DEF CascadeTypes
<1>3. sttEvents' \in Seq(SttEvents)
  <2>1. <<kind, recognised'>> \in SttEvents
    BY <1>2, CascadeAssumption DEF SttEvents, SttKindNames
  <2> QED
    BY <1>1, <1>2, <2>1, AppendProperties
<1>4. CascadeTypes' /\ TasksSound' /\ Batches' = Batches
  BY <1>1, <1>2, <1>3 DEF CascadeTypes, TasksSound, Batches, outputVars
<1>5. WordsSentOnce'
  <2>1. Once(Append(sttEvents, <<kind, recognised'>>), Batches, accumulated, context, recognised')
    BY <1>1, <1>2, PlacesAreSpots, OnceHeard
  <2>2. Once(sttEvents', Batches', accumulated', context', recognised')
    BY <1>1, <1>4, <2>1
  <2> QED
    BY <2>2, PlacesAreSpotsNext
<1>6. AnswersPlayedWhole'
  BY <1>1, StreamUntouched DEF outputVars
<1> QED
  BY <1>4, <1>5, <1>6

\* What is passed on are events of the pipelines without audio.
LEMMA PassedOnJoin ==
  ASSUME CascadeTypes, NEW called \in Seq(PipelineEvents), \A k \in 1..Len(called) : called[k][1] # "audio",
         NEW seen \in Seq(PassedOn)
  PROVE  \E more \in Seq(PipelineEvents) :
            /\ \A k \in 1..Len(more) : more[k][1] # "audio"
            /\ (pipelineEvents \o called) \o seen = pipelineEvents \o more
<1> DEFINE more == called \o seen
           T == PipelineEvents
<1>1. Len(seen) \in Nat /\ \A k \in 1..Len(seen) : seen[k] \in PassedOn
  BY LenProperties, ElementOfSeq
<1>2. \A x \in PassedOn : x \in T /\ x[1] # "audio"
  BY DEF PassedOn, PipelineEvents
<1>3. pipelineEvents \in Seq(T) /\ called \in Seq(T)
  BY DEF CascadeTypes
<1> HIDE DEF T
<1>4. seen \in Seq(T)
  <2>1. seen \in [1..Len(seen) -> T]
    <3>1. seen \in [1..Len(seen) -> PassedOn]
      BY LenProperties
    <3> QED
      BY <1>2, <3>1
  <2> QED
    BY <1>1, <2>1, FunctionIsSeq
<1>5. /\ Len(called) \in Nat /\ more \in Seq(T) /\ Len(more) = Len(called) + Len(seen)
      /\ \A k \in 1..(Len(called) + Len(seen)) : more[k] = IF k <= Len(called) THEN called[k] ELSE seen[k - Len(called)]
  BY <1>3, <1>4, ConcatProperties, LenProperties
<1>6. (pipelineEvents \o called) \o seen = pipelineEvents \o more
  BY <1>3, <1>4, ConcatAssociative
<1> HIDE DEF more
<1>7. \A k \in 1..Len(more) : more[k][1] # "audio"
  <2> SUFFICES ASSUME NEW k \in 1..Len(more) PROVE more[k][1] # "audio"
    OBVIOUS
  <2>1. CASE k <= Len(called)
    BY <1>5, <2>1
  <2>2. CASE ~(k <= Len(called))
    <3>1. k - Len(called) \in 1..Len(seen)
      BY <1>1, <1>5, <2>2
    <3> QED
      BY <1>1, <1>2, <1>5, <2>2, <3>1
  <2> QED
    BY <2>1, <2>2
<1> QED
  BY <1>5, <1>6, <1>7 DEF T

KeptByTask ==
  /\ WordsSentOnce' /\ AnswersPlayedWhole' /\ TasksSound' /\ tasks' \in [Tasks -> TaskRecords]
  /\ sttEvents' \in Seq(SttEvents) /\ accumulated' \in Seq(Nat) /\ context' \in Seq(Messages)
  /\ pipelineEvents' \in Seq(PipelineEvents)

\* A batch is handled after an answer, or as the task begins.
LEMMA BatchKeeps ==
  ASSUME CascadeInv, NEW t \in Tasks, NEW batch, NEW state, NEW called \in Seq(PipelineEvents),
         \A k \in 1..Len(called) : called[k][1] # "audio",
         NEW added \in Seq(Messages), \A k \in 1..Len(added) : added[k][1] # "user",
         ProcessBatch(t, batch, state, pipelineEvents \o called, context \o added),
         UNCHANGED <<outputVars, recognised, sent>>,
         \/ batch = sttEvents /\ tasks[t].batch = <<>> /\ sttEvents' = <<>>
         \/ batch = tasks[t].batch /\ sttEvents' = sttEvents
  PROVE  KeptByTask
<1> USE DEF CascadeInv
<1>1. batch \in Seq(SttEvents)
  BY DEF CascadeTypes, TaskRecords
<1>2. BatchHandled(t, batch, pipelineEvents \o called, context \o added)
  BY <1>1, BatchIsHandled
<1>3. /\ WordsSentOnce' /\ TasksSound' /\ tasks' \in [Tasks -> TaskRecords]
      /\ sttEvents' \in Seq(SttEvents) /\ accumulated' \in Seq(Nat) /\ context' \in Seq(Messages)
  BY <1>2, BatchKeepsWords
<1>4. PICK seen \in Seq(PassedOn) : pipelineEvents' = (pipelineEvents \o called) \o seen
  BY <1>2 DEF BatchHandled
<1>5. PICK more \in Seq(PipelineEvents) :
         /\ \A k \in 1..Len(more) : more[k][1] # "audio"
         /\ pipelineEvents' = pipelineEvents \o more
  BY <1>4, PassedOnJoin
<1>6. AnswersPlayedWhole' /\ pipelineEvents' \in Seq(PipelineEvents)
  BY <1>5, EventsJoin DEF outputVars
<1> QED
  BY <1>3, <1>6 DEF KeptByTask

\* The slot of a task that ends is free.
LEMMA TaskFreed ==
  ASSUME CascadeTypes, TasksSound, NEW t \in Tasks, tasks[t].batch = <<>>, tasks' = [tasks EXCEPT ![t] = FreeTask]
  PROVE  tasks' \in [Tasks -> TaskRecords] /\ TasksSound' /\ Batches' = Batches
<1>1. FreeTask \in TaskRecords /\ FreeTask.pc = "free" /\ FreeTask.batch = <<>>
  BY CascadeAssumption DEF FreeTask, TaskRecords, CascadeTypes
<1>2. /\ tasks' \in [Tasks -> TaskRecords] /\ tasks'[t] = FreeTask
      /\ \A u \in Tasks : u # t => tasks'[u] = tasks[u]
  BY <1>1 DEF CascadeTypes
<1>3. TasksSound'
  BY <1>1, <1>2 DEF TasksSound
<1> QED
  BY <1>1, <1>2, <1>3 DEF Batches

LEMMA ResumingKeeps ==
  ASSUME CascadeInv, NEW t \in Tasks, NEW failed, NEW called \in Seq(PipelineEvents),
         \A k \in 1..Len(called) : called[k][1] # "audio",
         NEW added \in Seq(Messages), \A k \in 1..Len(added) : added[k][1] # "user",
         ResumeTask(t, failed, pipelineEvents \o called, context \o added),
         UNCHANGED <<sttEvents, outputVars, recognised, sent>>
  PROVE  KeptByTask
<1> USE DEF CascadeInv
<1>1. CASE tasks[t].more
  <2>1. ProcessBatch(t, tasks[t].batch, BackToListening(failed), pipelineEvents \o called, context \o added)
    BY <1>1 DEF ResumeTask
  <2> QED
    BY <2>1, BatchKeeps
<1>2. CASE ~tasks[t].more
  <2>1. /\ tasks' = [tasks EXCEPT ![t] = FreeTask]
        /\ pipelineEvents' = pipelineEvents \o called /\ context' = context \o added
        /\ UNCHANGED accumulated
    BY <1>2 DEF ResumeTask
  <2>2. tasks[t].batch = <<>>
    BY <1>2 DEF TasksSound
  <2>3. tasks' \in [Tasks -> TaskRecords] /\ TasksSound' /\ Batches' = Batches
    BY <2>1, <2>2, TaskFreed
  <2>4. WordsSentOnce' /\ context' \in Seq(Messages)
    BY <2>1, <2>3, WordsLeft
  <2>5. AnswersPlayedWhole' /\ pipelineEvents' \in Seq(PipelineEvents)
    BY <2>1, EventsJoin DEF outputVars
  <2>6. accumulated' \in Seq(Nat) /\ sttEvents' \in Seq(SttEvents)
    BY <2>1 DEF CascadeTypes
  <2> QED
    BY <2>3, <2>4, <2>5, <2>6 DEF KeptByTask
<1> QED
  BY <1>1, <1>2

LEMMA NothingAdded ==
  ASSUME CascadeTypes
  PROVE  /\ <<>> \in Seq(PipelineEvents) /\ <<>> \in Seq(Messages) /\ Len(<<>>) = 0
         /\ pipelineEvents \o <<>> = pipelineEvents /\ context \o <<>> = context
<1> DEFINE S == PipelineEvents
           T == Messages
<1>1. pipelineEvents \in Seq(S) /\ context \in Seq(T)
  BY DEF CascadeTypes
<1> HIDE DEF S, T
<1>2. pipelineEvents \o <<>> = pipelineEvents /\ context \o <<>> = context /\ <<>> \in Seq(S) /\ <<>> \in Seq(T)
  BY <1>1, ConcatEmptySeq, EmptySeq
<1> QED
  BY <1>2 DEF S, T

LEMMA DrainingKeeps ==
  ASSUME CascadeInv, NEW t \in Tasks, DrainSttEvents(t)
  PROVE  CascadeInv'
<1> USE DEF CascadeInv
<1> DEFINE none == <<>>
<1>1. /\ tasks[t].pc = "wait" /\ sttEvents' = <<>>
      /\ ProcessBatch(t, sttEvents, providerState, pipelineEvents, context)
      /\ UNCHANGED <<outputVars, countVars>>
  BY DEF DrainSttEvents
<1>2. tasks[t].batch = <<>>
  BY <1>1 DEF TasksSound
<1>3. /\ none \in Seq(PipelineEvents) /\ none \in Seq(Messages) /\ Len(none) = 0
      /\ pipelineEvents \o none = pipelineEvents /\ context \o none = context
  BY NothingAdded
<1> HIDE DEF none
<1>4. KeptByTask
  <2>1. ProcessBatch(t, sttEvents, providerState, pipelineEvents \o none, context \o none)
    BY <1>1, <1>3
  <2>2. UNCHANGED <<outputVars, recognised, sent>>
    BY <1>1 DEF countVars
  <2>3. (\A k \in 1..Len(none) : none[k][1] # "audio") /\ (\A k \in 1..Len(none) : none[k][1] # "user")
    BY <1>3
  <2> QED
    BY <1>1, <1>2, <1>3, <2>1, <2>2, <2>3, BatchKeeps
<1>5. CascadeTypes'
  BY <1>1, <1>4 DEF CascadeTypes, KeptByTask, outputVars, countVars
<1> QED
  BY <1>4, <1>5 DEF KeptByTask

LEMMA EndingKeeps ==
  ASSUME CascadeInv, NEW t \in Tasks, NEW failed \in BOOLEAN, AnswerEnds(t, failed)
  PROVE  CascadeInv'
<1> USE DEF CascadeInv
<1> DEFINE none == <<>>
<1>1. /\ ResumeTask(t, failed, pipelineEvents, context)
      /\ UNCHANGED <<sttEvents, outputVars, countVars>>
  BY DEF AnswerEnds
<1>2. /\ none \in Seq(PipelineEvents) /\ none \in Seq(Messages) /\ Len(none) = 0
      /\ pipelineEvents \o none = pipelineEvents /\ context \o none = context
  BY NothingAdded
<1> HIDE DEF none
<1>3. KeptByTask
  <2>1. ResumeTask(t, failed, pipelineEvents \o none, context \o none)
    BY <1>1, <1>2
  <2>2. UNCHANGED <<sttEvents, outputVars, recognised, sent>>
    BY <1>1 DEF countVars
  <2>3. (\A k \in 1..Len(none) : none[k][1] # "audio") /\ (\A k \in 1..Len(none) : none[k][1] # "user")
    BY <1>2
  <2> QED
    BY <1>2, <2>1, <2>2, <2>3, ResumingKeeps
<1>4. CascadeTypes'
  BY <1>1, <1>3 DEF CascadeTypes, KeptByTask, outputVars, countVars
<1> QED
  BY <1>3, <1>4 DEF KeptByTask

LEMMA RepliesKeep ==
  ASSUME CascadeInv, NEW t \in Tasks, NEW text \in BOOLEAN, NEW n \in 0..MaxToolCalls, LlmReplies(t, text, n)
  PROVE  CascadeInv'
<1> USE DEF CascadeInv
<1> DEFINE uttered == IF text THEN <<<<"assistant", replies + 1>>>> ELSE <<>>
           called == [k \in 1..n |-> <<"call", callCount + k>>]
<1>1. /\ tasks[t].pc = "llm"
      /\ text \/ n > 0 => replies < MaxReplies
      /\ replies' = IF text \/ n > 0 THEN replies + 1 ELSE replies
      /\ callCount' = callCount + n
      /\ \/ /\ text /\ n = 0
            /\ tasks' = [tasks EXCEPT ![t].pc = "tts", ![t].answer = replies']
            /\ context' = context \o uttered /\ UNCHANGED <<accumulated, pipelineEvents>>
         \/ ResumeTask(t, FALSE, pipelineEvents \o called, context \o uttered \o called)
      /\ UNCHANGED <<sttEvents, outputVars, recognised, sent>>
  <2>1. [k \in 1..n |-> ClientMessage("call", [j \in 1..n |-> callCount + j][k])] = called
    BY DEF ClientMessage
  <2> QED
    BY <2>1 DEF LlmReplies, ClientMessage
<1>2. n \in Nat /\ MaxReplies \in Nat /\ replies \in 0..MaxReplies /\ callCount \in Nat
  BY CascadeAssumption DEF CascadeTypes
<1>3. replies' \in 0..MaxReplies /\ callCount' \in Nat
  BY <1>1, <1>2
<1>4. uttered \in Seq(Messages) /\ Len(uttered) \in Nat /\ \A k \in 1..Len(uttered) : uttered[k][1] # "user"
  <2>1. <<"assistant", replies + 1>> \in Messages
    BY <1>2 DEF Messages
  <2> QED
    BY <2>1, EmptySeq
<1>5. /\ called \in Seq(Messages) /\ called \in Seq(PipelineEvents) /\ Len(called) = n
      /\ \A k \in 1..n : called[k][1] = "call"
  <2>1. \A k \in 1..n : called[k] \in Messages /\ called[k] \in PipelineEvents /\ called[k][1] = "call"
    BY <1>2 DEF Messages, PipelineEvents
  <2>2. called \in [1..n -> Messages] /\ called \in [1..n -> PipelineEvents]
    BY <2>1
  <2> HIDE DEF called
  <2>3. called \in Seq(Messages) /\ called \in Seq(PipelineEvents) /\ Len(called) = n
    BY <1>2, <2>2, FunctionIsSeq
  <2> QED
    BY <2>1, <2>3
<1> HIDE DEF uttered, called
<1> DEFINE added == uttered \o called
<1>6. /\ added \in Seq(Messages) /\ \A k \in 1..Len(added) : added[k][1] # "user"
      /\ context \o uttered \o called = context \o added
  <2> DEFINE T == Messages
  <2>1. context \in Seq(T) /\ uttered \in Seq(T) /\ called \in Seq(T)
    BY <1>4, <1>5 DEF CascadeTypes
  <2> HIDE DEF T
  <2>2. /\ added \in Seq(T) /\ Len(added) = Len(uttered) + n
        /\ \A k \in 1..(Len(uttered) + n) : added[k] = IF k <= Len(uttered) THEN uttered[k] ELSE called[k - Len(uttered)]
    BY <1>5, <2>1, ConcatProperties
  <2>3. (context \o uttered) \o called = context \o added
    BY <2>1, ConcatAssociative
  <2> HIDE DEF added
  <2>4. ASSUME NEW k \in 1..Len(added) PROVE added[k][1] # "user"
    <3>1. CASE k <= Len(uttered)
      BY <1>2, <1>4, <2>2, <3>1
    <3>2. CASE ~(k <= Len(uttered))
      <4>1. k - Len(uttered) \in 1..n
        BY <1>2, <1>4, <2>2, <3>2
      <4> QED
        BY <1>5, <2>2, <3>2, <4>1
    <3> QED
      BY <3>1, <3>2
  <2> QED
    BY <2>2, <2>3, <2>4 DEF T
<1> HIDE DEF added
<1>7. CASE /\ text /\ n = 0
           /\ tasks' = [tasks EXCEPT ![t].pc = "tts", ![t].answer = replies']
           /\ context' = context \o uttered /\ UNCHANGED <<accumulated, pipelineEvents>>
  <2>1. /\ tasks' \in [Tasks -> TaskRecords]
        /\ tasks'[t].pc = "tts" /\ tasks'[t].answer = replies'
        /\ tasks'[t].batch = tasks[t].batch /\ tasks'[t].more = tasks[t].more
        /\ \A u \in Tasks : u # t => tasks'[u] = tasks[u]
    BY <1>3, <1>7 DEF CascadeTypes, TaskRecords
  <2>2. replies' # 0
    BY <1>1, <1>2, <1>7
  <2>3. TasksSound'
    BY <1>1, <2>1, <2>2 DEF TasksSound
  <2>4. Batches' = Batches
    BY <2>1 DEF Batches
  <2>5. WordsSentOnce' /\ context' \in Seq(Messages)
    BY <1>1, <1>4, <1>7, <2>4, WordsLeft
  <2>6. AnswersPlayedWhole'
    BY <1>1, <1>7, StreamUntouched DEF outputVars
  <2>7. CascadeTypes'
    BY <1>1, <1>3, <1>7, <2>1, <2>5 DEF CascadeTypes, outputVars
  <2> QED
    BY <2>3, <2>5, <2>6, <2>7
<1>8. CASE ResumeTask(t, FALSE, pipelineEvents \o called, context \o uttered \o called)
  <2>1. ResumeTask(t, FALSE, pipelineEvents \o called, context \o added)
    BY <1>6, <1>8
  <2>2. \A k \in 1..Len(called) : called[k][1] # "audio"
    BY <1>5
  <2>3. KeptByTask
    BY <1>1, <1>5, <1>6, <2>1, <2>2, ResumingKeeps
  <2>4. CascadeTypes'
    BY <1>1, <1>3, <2>3 DEF CascadeTypes, KeptByTask, outputVars
  <2> QED
    BY <2>3, <2>4 DEF KeptByTask
<1> QED
  BY <1>1, <1>7, <1>8

LEMMA SpeakingKeeps ==
  ASSUME CascadeInv, NEW t \in Tasks, TtsChunk(t)
  PROVE  CascadeInv'
<1> USE DEF CascadeInv
<1> DEFINE a == tasks[t].answer
           piece == <<a, sent[a] + 1>>
           event == <<"audio", piece>>
           evs == Append(pipelineEvents, event)
           st == Stream(playedPieces, agentAudio, pipelineEvents)
           st2 == Stream(playedPieces, agentAudio, evs)
           P == Len(playedPieces)
           A == Len(agentAudio)
           E == Len(pipelineEvents)
<1>1. /\ sent \in [1..MaxReplies -> Nat] /\ pipelineEvents \in Seq(PipelineEvents)
      /\ playedPieces \in Seq(Nat \X Nat) /\ agentAudio \in Seq(Nat \X Nat)
  BY DEF CascadeTypes
<1>2. a \in 1..MaxReplies
  <2>1. a # 0
    BY DEF TtsChunk, TasksSound
  <2>2. a \in 0..MaxReplies
    BY DEF CascadeTypes, TaskRecords
  <2> HIDE DEF a
  <2> QED
    BY <2>1, <2>2, CascadeAssumption
<1>3. /\ sent' = [sent EXCEPT ![a] = @ + 1]
      /\ pipelineEvents' = Append(pipelineEvents, <<"audio", <<a, sent'[a]>>>>)
      /\ UNCHANGED <<tasks, inputVars, context, outputVars, recognised, replies, callCount>>
  BY DEF TtsChunk
<1> HIDE DEF a
<1>4. sent[a] \in Nat /\ sent'[a] = sent[a] + 1 /\ sent' \in [1..MaxReplies -> Nat]
  <2>1. sent[a] \in Nat /\ sent[a] + 1 \in Nat
    <3>1. \A b \in 1..MaxReplies : sent[b] \in Nat
      BY <1>1
    <3>2. sent[a] \in Nat
      BY <1>2, <3>1, Zenon
    <3> QED
      BY <3>2
  <2>2. sent' = [sent EXCEPT ![a] = sent[a] + 1]
    BY <1>3
  <2> QED
    BY <1>1, <1>2, <2>1, <2>2
<1>5. pipelineEvents' = evs
  BY <1>3, <1>4
<1>6. event \in PipelineEvents /\ PieceOf(event) = piece
  BY <1>2, <1>4, CascadeAssumption DEF PipelineEvents, PieceOf
<1> HIDE DEF event, piece
<1>7. /\ evs \in Seq(PipelineEvents) /\ Len(evs) = E + 1 /\ evs[E + 1] = event
      /\ \A i \in 1..E : evs[i] = pipelineEvents[i]
  BY <1>1, <1>6, AppendProperties
<1>8. P \in Nat /\ A \in Nat /\ E \in Nat
  BY <1>1, LenProperties
<1> HIDE DEF evs
<1>9. /\ StreamAt(st, playedPieces, agentAudio, pipelineEvents) /\ Len(st) \in Nat
      /\ StreamAt(st2, playedPieces, agentAudio, evs) /\ Len(st2) \in Nat
  BY <1>1, <1>7, StreamKnown
<1>10. WholeIn(st, sent, interrupted)
  BY PlayedIsWhole DEF Stream, AudioStream
<1>11. AudioStream' = st2
  BY <1>3, <1>5 DEF Stream, AudioStream, outputVars
<1> HIDE DEF st, st2
<1>12. /\ Len(st) = P + A + E
       /\ \A i \in 1..P : st[i] = playedPieces[i]
       /\ \A i \in 1..A : st[P + i] = agentAudio[i]
       /\ \A i \in 1..E : st[P + A + i] = PieceOf(pipelineEvents[i])
  BY <1>9 DEF StreamAt
<1>13. /\ Len(st2) = P + A + (E + 1)
       /\ \A i \in 1..P : st2[i] = playedPieces[i]
       /\ \A i \in 1..A : st2[P + i] = agentAudio[i]
       /\ \A i \in 1..(E + 1) : st2[P + A + i] = PieceOf(evs[i])
  BY <1>7, <1>9 DEF StreamAt
<1> HIDE DEF P, A, E
<1>14. ASSUME NEW i \in 1..Len(st) PROVE st2[i] = st[i]
  <2>1. CASE i <= P
    BY <1>8, <1>12, <1>13, <2>1
  <2>2. CASE i > P /\ i <= P + A
    <3> DEFINE k == i - P
    <3>1. k \in 1..A /\ P + k = i
      BY <1>8, <2>2
    <3> HIDE DEF k
    <3> QED
      BY <1>12, <1>13, <3>1
  <2>3. CASE i > P + A
    <3> DEFINE k == i - (P + A)
    <3>1. k \in 1..E /\ k \in 1..(E + 1) /\ P + A + k = i
      BY <1>8, <1>12, <2>3
    <3> HIDE DEF k
    <3> QED
      BY <1>7, <1>12, <1>13, <3>1
  <2> QED
    BY <1>8, <1>12, <2>1, <2>2, <2>3
<1>15. Len(st2) = Len(st) + 1 /\ st2[Len(st) + 1] = piece
  <2> DEFINE k == E + 1
  <2>1. k \in 1..(E + 1) /\ P + A + k = Len(st) + 1 /\ Len(st2) = Len(st) + 1 /\ evs[k] = event
    BY <1>7, <1>8, <1>12, <1>13
  <2> HIDE DEF k
  <2>2. st2[P + A + k] = PieceOf(evs[k])
    BY <1>13, <2>1
  <2> QED
    BY <1>6, <2>1, <2>2
<1>16. WholeIn(st2, [sent EXCEPT ![a] = @ + 1], interrupted)
  BY <1>1, <1>2, <1>9, <1>10, <1>14, <1>15, WholeWithPiece DEF piece
<1>17. AnswersPlayedWhole'
  <2>1. WholeIn(AudioStream', sent', interrupted')
    BY <1>3, <1>11, <1>16 DEF outputVars
  <2> QED
    BY <2>1, PlayedIsWholeNext
<1>18. CascadeTypes' /\ TasksSound' /\ Batches' = Batches
  BY <1>3, <1>4, <1>5, <1>7 DEF CascadeTypes, TasksSound, Batches, inputVars, outputVars
<1>19. WordsSentOnce'
  BY <1>3, <1>18, WordsUntouched DEF inputVars
<1> QED
  BY <1>17, <1>18, <1>19

LEMMA CascadeStarts ==
  ASSUME CascadeInit
  PROVE  CascadeInv
<1> DEFINE S == Nat \X Nat
           T == Messages
           U == PipelineEvents
           none == <<>>
<1>1. none \in Seq(S) /\ none \in Seq(T) /\ none \in Seq(U) /\ none \in Seq(Nat) /\ none \in Seq(SttEvents)
      /\ Len(none) = 0
  <2> HIDE DEF S, T, U
  <2> QED
    BY EmptySeq
<1>2. MaxReplies \in Nat
  BY CascadeAssumption
<1>3. FreeTask \in TaskRecords /\ FreeTask.pc = "free" /\ FreeTask.batch = none
  BY <1>1, <1>2 DEF FreeTask, TaskRecords
<1>4. tasks = [t \in Tasks |-> FreeTask]
  BY DEF CascadeInit
<1>5. tasks \in [Tasks -> TaskRecords] /\ TasksSound /\ \A t \in Tasks : tasks[t].batch = none
  BY <1>3, <1>4 DEF TasksSound
<1>6. CascadeTypes
  BY <1>1, <1>2, <1>5 DEF CascadeInit, CascadeTypes
<1>7. WordsSentOnce
  <2>1. sttEvents = none /\ accumulated = none /\ context = none /\ recognised = 0
    BY DEF CascadeInit
  <2>2. Places = {}
    BY <1>1, <1>5, <2>1 DEF Places, Finals, Asked
  <2> QED
    BY <2>1, <2>2 DEF WordsSentOnce
<1>8. AnswersPlayedWhole
  <2>1. playedPieces = none /\ agentAudio = none /\ pipelineEvents = none /\ sent = [a \in 1..MaxReplies |-> 0]
    BY DEF CascadeInit
  <2>2. StreamAt(AudioStream, playedPieces, agentAudio, pipelineEvents)
    BY <1>1, <2>1, StreamIs DEF Stream, AudioStream
  <2>3. Len(AudioStream) = 0
    BY <1>1, <2>1, <2>2 DEF StreamAt
  <2>4. WholeIn(AudioStream, sent, interrupted)
    BY <2>1, <2>3 DEF WholeIn
  <2> QED
    BY <2>4, PlayedIsWhole
<1> QED
  BY <1>5, <1>6, <1>7, <1>8 DEF CascadeInv

LEMMA CascadeKept ==
  ASSUME CascadeInv, [CascadeNext]_cascadeVars
  PROVE  CascadeInv'
<1>1. CASE NextCascadeTick
  BY <1>1, PlayKeeps
<1>2. CASE HandlePipelineEvent
  BY <1>2, HandlingKeeps
<1>3. CASE TimePasses
  BY <1>3, TimeKeeps
<1>4. CASE \E kind \in SttKinds : SttHears(kind)
  BY <1>4, HearingKeeps
<1>5. ASSUME NEW t \in Tasks, TaskStep(t)
      PROVE  CascadeInv'
  <2>1. CASE DrainSttEvents(t)
    BY <2>1, DrainingKeeps
  <2>2. CASE \E text \in BOOLEAN, n \in 0..MaxToolCalls : LlmReplies(t, text, n)
    BY <2>2, RepliesKeep
  <2>3. CASE \E failed \in BOOLEAN : AnswerEnds(t, failed)
    BY <2>3, EndingKeeps
  <2> QED
    BY <1>5, <2>1, <2>2, <2>3 DEF TaskStep
<1>6. ASSUME NEW t \in Tasks, TtsChunk(t)
      PROVE  CascadeInv'
  BY <1>6, SpeakingKeeps
<1>7. CASE UNCHANGED cascadeVars
  BY <1>7, StutterKeeps
<1> QED
  BY <1>1, <1>2, <1>3, <1>4, <1>5, <1>6, <1>7 DEF CascadeNext

-----------------------------------------------------------------------------
(* The theorems.                                                           *)

\* Overlapping tasks lose and repeat nothing: what the user is understood to say is
\* at one place, in the end in one message to the model, and the pieces of an answer
\* nobody interrupts are played, or on their way, all of them and in order, whatever
\* the services do and however many tasks, answers and ticks there are.
THEOREM CascadeLosesNothing == CascadeSpec => []NothingLost
<1>1. CascadeInit => CascadeInv
  BY CascadeStarts
<1>2. CascadeInv /\ [CascadeNext]_cascadeVars => CascadeInv'
  BY CascadeKept
<1>3. CascadeInv => NothingLost
  BY DEF CascadeInv, NothingLost
<1> QED
  BY <1>1, <1>2, <1>3, PTL DEF CascadeSpec
=============================================================================
