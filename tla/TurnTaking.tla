------------------------------ MODULE TurnTaking ------------------------------
(***************************************************************************)
(* The simulated user of a voice run, tick by tick: get_next_chunk,        *)
(* basic_turn_taking_policy and StreamingState (agent/base/streaming.py)   *)
(* with the actions of VoiceStreamingUserSimulator                         *)
(* (user/user_simulator_streaming.py).                                     *)
(*                                                                         *)
(* Each tick brings a chunk of the agent, speech or silence, and sometimes *)
(* the results of a tool call; the user answers with one chunk.  What the  *)
(* LLM says, and whether it wants to interrupt or to backchannel, is       *)
(* nondeterministic.  Thresholds are in ticks.                             *)
(***************************************************************************)
EXTENDS Integers, Sequences

CONSTANTS
  WaitOther, WaitSelf,          \* wait_to_respond_threshold_other / _self
  Yield, YieldInterrupting,     \* yield_threshold_when_interrupted / _interrupting
  Policies,                     \* which [interrupts, llm] settings users may have
  BackchannelMin, BackchannelMax, \* thresholds of the Poisson backchannel
  CheckInterval,                \* interruption_check_interval
  Lengths,                      \* chunks one utterance may be cut into
  MaxRun                        \* bound: ticks the agent speaks without a pause

AllPolicies == [interrupts : BOOLEAN, llm : BOOLEAN]

ASSUME ThresholdAssumption ==
  /\ {WaitOther, WaitSelf, BackchannelMin, BackchannelMax, MaxRun} \subseteq Nat
  /\ {Yield, YieldInterrupting} \subseteq Nat \ {0, 1} \* validate_turn_taking_settings
  /\ CheckInterval \in Nat \ {0}
  /\ Lengths \subseteq Nat \ {0}
  /\ Policies \subseteq AllPolicies

Kinds == {"reply", "backchannel", "result"}

VARIABLES
  policy,         \* enable_user_initiated_interruption, use_llm_backchannel
  queue,          \* output_streaming_queue: what each chunk belongs to
  overheard,      \* speech at the end of input_turn_taking_buffer, in ticks
  sinceSelf,      \* time_since_last_talk
  sinceOther,     \* time_since_last_other_talk
  runSelf,        \* consecutive_self_speaking_ticks
  runOther,       \* consecutive_other_speaking_ticks
  sinceBackchannel, \* ticks_since_last_backchannel
  tick,           \* tick_count, modulo CheckInterval
  backchanneling, \* is_backchanneling
  delivering,     \* delivering_tool_result_speech
  waiting,        \* waiting_for_tool_results
  said,           \* the last chunk: a kind of speech, or one of Others
  lingering       \* history: a backchannel of one chunk has left backchanneling set

Others == {"silence", "call", "stop"}
ears == <<sinceOther, runOther, tick>>
flags == <<backchanneling, delivering, waiting, lingering>>
userVars == <<policy, queue, overheard, sinceSelf, ears, runSelf, sinceBackchannel, flags, said>>

UserInit == /\ policy \in Policies
            /\ queue = <<>> /\ overheard = 0
            /\ sinceSelf = 0 /\ sinceOther = 0 /\ runSelf = 0 /\ runOther = 0
            /\ sinceBackchannel = 0 /\ tick = 0
            /\ backchanneling = FALSE /\ delivering = FALSE /\ waiting = FALSE
            /\ said = "silence" /\ lingering = FALSE
-----------------------------------------------------------------------------
\* Counters are compared with thresholds only, so they may stop above them.
Up(n, threshold) == IF n > threshold THEN n ELSE n + 1

\* The first half of get_next_chunk: the agent's chunk is buffered and timed.
Listen(speech) ==
  /\ said # "stop"
  /\ UNCHANGED policy
  /\ speech => runOther < MaxRun
  /\ tick' = (tick + 1) % CheckInterval
  /\ sinceOther' = IF speech THEN 0 ELSE Up(sinceOther, WaitOther)
  /\ runOther' = IF speech THEN runOther + 1 ELSE 0

Ongoing(speech) == IF speech THEN overheard + 1 ELSE 0
\* ticks_since_last_backchannel starts over when the agent starts to speak.
SinceBackchannel(speech) ==
  IF ~speech THEN sinceBackchannel
  ELSE IF sinceOther > 0 THEN 1 ELSE Up(sinceBackchannel, BackchannelMax)

\* The second half: the chunk, and how long the user has been speaking.  A tool
\* call counts as meaningful content too.
Emit(chunk) ==
  /\ said' = chunk
  /\ runSelf' = IF chunk = "silence" THEN 0 ELSE Up(runSelf, MaxRun)

\* Mutant: the user's own silence is not timed.
QuietUntimed == Emit("silence") /\ UNCHANGED sinceSelf
Quiet == Emit("silence") /\ sinceSelf' = Up(sinceSelf, WaitSelf)

\* overlap_initiator = "self": the agent has been speaking for longer.
BargedIn == runSelf > 0 /\ runOther' > 0 /\ runSelf < runOther'

Talking == queue # <<>>
Threshold == IF delivering \/ BargedIn THEN YieldInterrupting ELSE Yield
\* Mutant: backchannels can be interrupted.
YieldAlways(speech) == Ongoing(speech) > 0 /\ Ongoing(speech) >= Threshold
\* Mutant: one tick late.
YieldLate(speech) == ~backchanneling /\ Ongoing(speech) > Threshold
MustYield(speech) == /\ ~backchanneling
                     /\ Ongoing(speech) > 0
                     /\ Ongoing(speech) >= Threshold

\* stop_talking: the rest of the utterance is thrown away.
StopTalking(speech) ==
  /\ Listen(speech) /\ ~waiting /\ Talking /\ MustYield(speech)
  /\ queue' = <<>> /\ backchanneling' = FALSE /\ lingering' = FALSE
  /\ Quiet
  /\ overheard' = Ongoing(speech) /\ sinceBackchannel' = SinceBackchannel(speech)
  /\ UNCHANGED <<delivering, waiting>>

\* keep_talking: the next chunk; the flags end with the utterance's last one.
KeepTalking(speech) ==
  /\ Listen(speech) /\ ~waiting /\ Talking /\ ~MustYield(speech)
  /\ queue' = Tail(queue)
  /\ Emit(Head(queue)) /\ sinceSelf' = 0
  /\ backchanneling' = (backchanneling /\ Len(queue) > 1)
  /\ lingering' = (lingering /\ Len(queue) > 1)
  /\ delivering' = (delivering /\ Len(queue) > 1)
  /\ overheard' = Ongoing(speech) /\ sinceBackchannel' = SinceBackchannel(speech)
  /\ UNCHANGED waiting

\* The LLM calls a tool, stops, or says something, which is cut into chunks.
Generate ==
  \/ /\ Emit("call") /\ waiting' = TRUE
     /\ UNCHANGED <<queue, sinceSelf>>
  \/ /\ Emit("stop")
     /\ UNCHANGED <<queue, sinceSelf, waiting>>
  \/ /\ \E n \in Lengths : queue' = [i \in 1..(n - 1) |-> "reply"]
     /\ Emit("reply") /\ sinceSelf' = 0
     /\ UNCHANGED waiting

MayReact(speech) == Ongoing(speech) > 0 /\ tick' = 0
LongSilence == sinceOther' > WaitOther /\ sinceSelf > WaitSelf

\* generate_message: to interrupt, or once both have been silent long enough.
GenerateMessage(speech) ==
  /\ Listen(speech) /\ ~waiting /\ ~Talking
  /\ (policy.interrupts /\ MayReact(speech)) \/ LongSilence
  /\ Generate
  /\ overheard' = 0 /\ sinceBackchannel' = SinceBackchannel(speech)
  /\ UNCHANGED <<backchanneling, delivering, lingering>>

\* Backchannels are chosen by an LLM, or drawn once there has been none for
\* BackchannelMin ticks, and forced after BackchannelMax.
MayBackchannel(speech) ==
  IF policy.llm THEN MayReact(speech)
  ELSE Ongoing(speech) > 0 /\ SinceBackchannel(speech) >= BackchannelMin
MustBackchannel(speech) ==
  /\ ~policy.llm /\ MayBackchannel(speech)
  /\ SinceBackchannel(speech) >= BackchannelMax

\* The flag is set after the first chunk has been taken: of a backchannel of one
\* chunk none is left to take the flag back with, and it stays until the end of
\* the next utterance of several chunks, whatever that is.
Backchannel(speech) ==
  /\ Listen(speech) /\ ~waiting /\ ~Talking
  /\ MayBackchannel(speech)
  /\ \E n \in Lengths : queue' = [i \in 1..(n - 1) |-> "backchannel"]
  /\ Emit("backchannel") /\ sinceSelf' = 0
  /\ backchanneling' = TRUE /\ lingering' = (queue' = <<>>)
  /\ overheard' = Ongoing(speech) /\ sinceBackchannel' = 0
  /\ UNCHANGED <<delivering, waiting>>

Wait(speech) ==
  /\ Listen(speech) /\ ~waiting /\ ~Talking
  /\ ~LongSilence /\ ~MustBackchannel(speech)
  /\ Quiet
  /\ overheard' = Ongoing(speech) /\ sinceBackchannel' = SinceBackchannel(speech)
  /\ UNCHANGED <<queue, flags>>

\* A tick that finds the results of the tool call still missing.
WaitForResults(speech) ==
  /\ Listen(speech) /\ waiting
  /\ Quiet
  /\ overheard' = Ongoing(speech) /\ sinceBackchannel' = SinceBackchannel(speech)
  /\ UNCHANGED <<queue, flags>>

\* Tool results: another call, a stop, or speech queued for the next tick.
ProcessToolResult(speech) ==
  /\ Listen(speech) /\ waiting
  /\ \/ /\ Emit("call")
        /\ UNCHANGED <<queue, sinceSelf, delivering, waiting>>
     \/ /\ Emit("stop") /\ waiting' = FALSE
        /\ UNCHANGED <<queue, sinceSelf, delivering>>
     \/ /\ \E n \in Lengths : queue' = queue \o [i \in 1..n |-> "result"]
        /\ delivering' = TRUE /\ waiting' = FALSE
        /\ Quiet
  /\ overheard' = Ongoing(speech) /\ sinceBackchannel' = SinceBackchannel(speech)
  /\ UNCHANGED <<backchanneling, lingering>>

Tick(speech) == \/ StopTalking(speech) \/ KeepTalking(speech) \/ GenerateMessage(speech)
                \/ Backchannel(speech) \/ Wait(speech)
                \/ WaitForResults(speech) \/ ProcessToolResult(speech)

\* The orchestrator asks for no chunk after a stop.
UserEnded == said = "stop" /\ UNCHANGED userVars

UserNext == (\E speech \in BOOLEAN : Tick(speech)) \/ UserEnded

UserSpec == UserInit /\ [][UserNext]_userVars

\* Ticks follow each other, and results come (FullDuplex!ResultsOnNextTick).
FairSpec == /\ UserSpec /\ WF_userVars(UserNext)
            /\ WF_userVars(\E speech \in BOOLEAN : ProcessToolResult(speech))
-----------------------------------------------------------------------------
(* Properties.                                                             *)

\* The types of the variables.
UserTypeOK ==
  /\ policy \in Policies
  /\ queue \in Seq(Kinds)
  /\ overheard \in 0..MaxRun /\ runOther \in 0..MaxRun /\ runSelf \in 0..(MaxRun + 1)
  /\ sinceSelf \in 0..(WaitSelf + 1) /\ sinceOther \in 0..(WaitOther + 1)
  /\ sinceBackchannel \in 0..(BackchannelMax + 1) /\ tick \in 0..(CheckInterval - 1)
  /\ {backchanneling, delivering, waiting, lingering} \subseteq BOOLEAN
  /\ said \in Kinds \cup Others

\* Two utterances are never in the queue together, and a tool call is out only
\* while the user has nothing left to say: no result speech is appended to an
\* utterance that was interrupted by its own tool call.
OneUtteranceAtATime ==
  /\ \A i, j \in 1..Len(queue) : queue[i] = queue[j]
  /\ waiting => queue = <<>>

\* A backchannel, once begun, is heard to its end, whatever the agent does.
BackchannelFinished ==
  [][Talking /\ Head(queue) = "backchannel" =>
       queue' = Tail(queue) /\ said' = "backchannel"]_userVars

\* No utterance of the user is spliced into another, and no backchannel cut off.
UtterancesWhole == []OneUtteranceAtATime /\ BackchannelFinished

\* Apart from backchannels the user never talks on over an agent that has been
\* speaking, since the user last listened, for as long as the larger of the two
\* thresholds.  Exempt are utterances after a backchannel of one chunk, which
\* leaves is_backchanneling set: up to the end of the next one of several chunks
\* they cannot be interrupted, which is meant for backchannels only.
YieldsInTime ==
  [][Talking /\ said' \in {"reply", "result"} =>
       \/ lingering
       \/ overheard' < Yield
       \/ overheard' < YieldInterrupting]_userVars

\* The agent's silence is always broken by the user, with words, a tool call or
\* a stop: the two never wait for each other for good.
SilenceBroken ==
  <>[](runOther = 0) => []<>(said # "silence")

=============================================================================
