------------------------------- MODULE Cascade -------------------------------
(***************************************************************************)
(* The LiveKit cascade: CascadedVoiceProvider (voice/audio_native/livekit/ *)
(* provider.py), which chains recognition (STT), a language model and      *)
(* speech synthesis (TTS), and LiveKitCascadedAdapter                      *)
(* (discrete_time_adapter.py), which runs it tick by tick.                 *)
(*                                                                         *)
(* Every tick starts a task for the user's audio and one for each tool     *)
(* result; a task may outlive its tick.  All tasks, the receiver of STT    *)
(* events and the tick share one event loop: an action is what runs from   *)
(* an await to the next.  A final transcript, an answer and a tool call    *)
(* are numbers; an answer is spoken piece by piece.  The preamble, off by  *)
(* default, the greeting and the text shown with the audio are left out.   *)
(***************************************************************************)
EXTENDS Integers, Sequences, SequencesExt, FiniteSets, FiniteSetsExt

CONSTANTS
  SttKinds,   \* of the events of STT, the ones that happen
  MaxTasks,   \* bound: tasks at a time
  MaxHeard,   \* bound: STT events
  MaxReplies, \* bound: replies of the model that say or call anything
  MaxToolCalls, \* bound: tool calls
  MaxPieces,  \* bound: pieces of an answer
  TickPieces  \* bytes_per_tick

ASSUME CascadeAssumption ==
  /\ SttKinds \subseteq {"start", "partial", "final", "end"}
  /\ {MaxTasks, MaxHeard, MaxReplies, MaxToolCalls, MaxPieces, TickPieces}
       \subseteq Nat

Tasks == 1..MaxTasks

VARIABLES
  tasks,           \* per slot: where the task is and what it holds
  sttEvents,       \* _stt_event_queue
  accumulated,     \* _accumulated_transcript
  lastTranscript,  \* _last_transcript_time: none, fresh or utterance_end_ms old
  providerState,   \* _state
  context,         \* _context.messages
  pipelineEvents,  \* the adapter's _event_queue
  agentAudio,      \* agent_audio_chunks, with the left-over of the last tick
  callsMade,       \* tool_calls of the tick
  heardEvents,     \* history: STT events, and
  recognised,      \*   final transcripts among them,
  replies,         \*   replies of the model,
  callCount,       \*   tool calls,
  sent,            \*   pieces synthesised, per answer,
  playedPieces,    \*   the pieces played,
  interrupted      \*   the answers a barge-in has cut

inputVars == <<sttEvents, accumulated, lastTranscript>>
outputVars == <<agentAudio, callsMade, playedPieces, interrupted>>
countVars == <<heardEvents, recognised, replies, callCount, sent>>
cascadeVars == <<tasks, inputVars, providerState, context, pipelineEvents, outputVars,
                 countVars>>

\* batch: the STT events the task has still to handle.  more: whether it then
\* looks after what is left (not after the fallback or a tool result).
FreeTask == [pc |-> "free", batch |-> <<>>, more |-> FALSE, answer |-> 0]
ClientMessage(role, what) == <<role, what>>

CascadeInit ==
  /\ tasks = [t \in Tasks |-> FreeTask]
  /\ sttEvents = <<>> /\ accumulated = <<>> /\ lastTranscript = "none"
  /\ providerState = "listening" /\ context = <<>> /\ pipelineEvents = <<>>
  /\ agentAudio = <<>> /\ callsMade = <<>>
  /\ heardEvents = 0 /\ recognised = 0 /\ replies = 0 /\ callCount = 0
  /\ sent = [a \in 1..MaxReplies |-> 0] /\ playedPieces = <<>> /\ interrupted = {}
-----------------------------------------------------------------------------
(* The tick.                                                               *)

\* A tick ends and the next begins: _cap_audio_chunks; what is too much, and the
\* results of the tick's calls, come with the next tick.  The tasks created run up
\* to their first await: the results join the context and the last one asks the
\* model to go on; process_audio pushes the audio.
NextCascadeTick ==
  LET n == Len(callsMade)
      free == {t \in Tasks : tasks[t].pc = "free"}
      goesOn == IF n > 0 THEN {Min(free)} ELSE {}
  IN  /\ Cardinality(free) > IF n > 0 THEN 1 ELSE 0
      /\ playedPieces' = playedPieces \o SubSeq(agentAudio, 1, Min({TickPieces, Len(agentAudio)}))
      /\ agentAudio' = SubSeq(agentAudio, TickPieces + 1, Len(agentAudio))
      /\ callsMade' = <<>>
      /\ context' = context \o [k \in 1..n |-> ClientMessage("result", callsMade[k])]
      /\ providerState' = IF n > 0 THEN "processing" ELSE providerState
      /\ tasks' = [t \in Tasks |-> IF t \in goesOn THEN [FreeTask EXCEPT !.pc = "llm"]
                                   ELSE IF t = Min(free \ goesOn) THEN [FreeTask EXCEPT !.pc = "wait"]
                                   ELSE tasks[t]]
      /\ UNCHANGED <<inputVars, pipelineEvents, interrupted, countVars>>

\* An event of the pipelines.  Whatever the user says cuts the agent's audio
\* that is there.
HandlePipelineEvent ==
  /\ pipelineEvents # <<>>
  /\ pipelineEvents' = Tail(pipelineEvents)
  /\ LET event == Head(pipelineEvents)
     IN  \/ /\ event[1] = "audio"
            /\ agentAudio' = Append(agentAudio, event[2])
            /\ UNCHANGED <<callsMade, interrupted>>
         \/ /\ event[1] \in {"start", "partial", "final"}
            /\ agentAudio' = <<>>
            /\ interrupted' = interrupted \cup {agentAudio[k][1] : k \in 1..Len(agentAudio)}
            /\ UNCHANGED callsMade
         \/ /\ event[1] = "call"
            /\ callsMade' = Append(callsMade, event[2])
            /\ UNCHANGED <<agentAudio, interrupted>>
  /\ UNCHANGED <<tasks, inputVars, providerState, context, playedPieces, countVars>>
-----------------------------------------------------------------------------
(* The tasks.                                                              *)

\* The STT receiver queues what it hears.
SttHears(kind) ==
  /\ heardEvents < MaxHeard /\ heardEvents' = heardEvents + 1
  /\ recognised' = IF kind = "final" THEN recognised + 1 ELSE recognised
  /\ sttEvents' = Append(sttEvents, <<kind, recognised'>>)
  /\ UNCHANGED <<tasks, accumulated, lastTranscript, providerState, context, pipelineEvents,
                 outputVars, replies, callCount, sent>>

TimePasses ==
  /\ lastTranscript = "fresh" /\ lastTranscript' = "old"
  /\ UNCHANGED <<tasks, sttEvents, accumulated, providerState, context, pipelineEvents,
                 outputVars, countVars>>

FinalsAmong(events) ==
  FlattenSeq([k \in 1..Len(events) |-> IF events[k][1] = "final" THEN <<events[k][2]>> ELSE <<>>])
\* The ends of speech are not passed on.
WithoutEnds(events) ==
  FlattenSeq([k \in 1..Len(events) |-> IF events[k][1] = "end" THEN <<>> ELSE <<events[k]>>])

\* Mutant: the transcript is kept.
KeepTranscript(said) == said
\* What is left of the transcript once the model is asked.
TakeTranscript(said) == <<>>

\* _trigger_llm and _process_llm up to their first await.
TriggerLlm(t, messages, said, rest, more) ==
  /\ accumulated' = TakeTranscript(said) /\ lastTranscript' = "none"
  /\ context' = Append(messages, ClientMessage("user", said))
  /\ providerState' = "processing"
  /\ tasks' = [tasks EXCEPT ![t] = [pc |-> "llm", batch |-> rest, more |-> more, answer |-> 0]]

\* process_audio with a batch of STT events, when the state, the adapter's queue
\* and the context have become these.  The first end of speech with something said asks the model,
\* whatever the state, and the rest of the batch waits for the answer to be
\* spoken.  Speech whose end is never reported is for the fallback.
ProcessBatch(t, batch, state, events, messages) ==
  LET Said(k) == accumulated \o FinalsAmong(SubSeq(batch, 1, k))
      ends == {k \in 1..Len(batch) : batch[k][1] = "end" /\ Said(k) # <<>>}
      last == IF ends = {} THEN Len(batch) ELSE Min(ends)
      seen == WithoutEnds(SubSeq(batch, 1, last))
      heard == \E k \in 1..Len(seen) : seen[k][1] \in {"partial", "final"}
      falls == lastTranscript = "old" /\ ~heard /\ state = "listening"
  IN  /\ pipelineEvents' = events \o seen
      /\ \/ /\ ends # {}
            /\ TriggerLlm(t, messages, Said(last), SubSeq(batch, last + 1, Len(batch)), TRUE)
         \/ /\ ends = {} /\ Said(last) # <<>> /\ falls
            /\ TriggerLlm(t, messages, Said(last), <<>>, FALSE)
         \/ /\ ends = {} /\ (Said(last) = <<>> \/ ~falls)
            /\ accumulated' = Said(last)
            /\ lastTranscript' = IF heard THEN "fresh" ELSE lastTranscript
            /\ providerState' = state /\ context' = messages
            /\ tasks' = [tasks EXCEPT ![t] = FreeTask]

\* _drain_stt_events takes all there is, perhaps nothing in time.
DrainSttEvents(t) ==
  /\ tasks[t].pc = "wait" /\ sttEvents' = <<>>
  /\ ProcessBatch(t, sttEvents, providerState, pipelineEvents, context)
  /\ UNCHANGED <<outputVars, countVars>>

\* Mutant: an error leaves the state as it is.
ListenUnless(failed) == IF failed THEN providerState ELSE "listening"
\* The state after the finally blocks.
BackToListening(failed) == "listening"

\* An answer is over.
ResumeTask(t, failed, events, messages) ==
  IF tasks[t].more
  THEN ProcessBatch(t, tasks[t].batch, BackToListening(failed), events, messages)
  ELSE /\ tasks' = [tasks EXCEPT ![t] = FreeTask]
       /\ providerState' = BackToListening(failed)
       /\ pipelineEvents' = events /\ context' = messages
       /\ UNCHANGED <<accumulated, lastTranscript>>

\* The model's reply: text, tool calls, both or neither.  Text is spoken only if
\* no tool is called.
LlmReplies(t, text, n) ==
  LET calls == [k \in 1..n |-> callCount + k]
      said == IF text THEN <<ClientMessage("assistant", replies + 1)>> ELSE <<>>
      called == [k \in 1..n |-> ClientMessage("call", calls[k])]
  IN  /\ tasks[t].pc = "llm" /\ callCount + n <= MaxToolCalls
      /\ text \/ n > 0 => replies < MaxReplies
      /\ replies' = IF text \/ n > 0 THEN replies + 1 ELSE replies
      /\ callCount' = callCount + n
      /\ \/ /\ text /\ n = 0
            /\ tasks' = [tasks EXCEPT ![t].pc = "tts", ![t].answer = replies']
            /\ providerState' = "speaking" /\ context' = context \o said
            /\ UNCHANGED <<accumulated, lastTranscript, pipelineEvents>>
         \/ /\ ~text \/ n > 0
            /\ ResumeTask(t, FALSE, pipelineEvents \o called, context \o said \o called)
      /\ UNCHANGED <<sttEvents, outputVars, heardEvents, recognised, sent>>

TtsChunk(t) ==
  LET a == tasks[t].answer
  IN  /\ tasks[t].pc = "tts" /\ sent[a] < MaxPieces
      /\ sent' = [sent EXCEPT ![a] = @ + 1]
      /\ pipelineEvents' = Append(pipelineEvents, <<"audio", <<a, sent'[a]>>>>)
      /\ UNCHANGED <<tasks, inputVars, providerState, context, outputVars, heardEvents,
                     recognised, replies, callCount>>

\* The model fails; the speech is over or fails.
AnswerEnds(t, failed) ==
  /\ tasks[t].pc = "tts" \/ (tasks[t].pc = "llm" /\ failed)
  /\ ResumeTask(t, failed, pipelineEvents, context)
  /\ UNCHANGED <<sttEvents, outputVars, countVars>>

TaskStep(t) ==
  \/ DrainSttEvents(t)
  \/ \E text \in BOOLEAN, n \in 0..MaxToolCalls : LlmReplies(t, text, n)
  \/ \E failed \in BOOLEAN : AnswerEnds(t, failed)

CascadeNext ==
  \/ NextCascadeTick \/ HandlePipelineEvent \/ TimePasses
  \/ \E kind \in SttKinds : SttHears(kind)
  \/ \E t \in Tasks : TaskStep(t) \/ TtsChunk(t)

\* Ticks follow each other; the event loop serves its tasks in turn, and the
\* streams of the services end.
CascadeSpec ==
  /\ CascadeInit /\ [][CascadeNext]_cascadeVars
  /\ WF_cascadeVars(NextCascadeTick) /\ WF_cascadeVars(TimePasses)
  /\ \A t \in Tasks : WF_cascadeVars(TaskStep(t))
-----------------------------------------------------------------------------
(* Properties.                                                             *)

\* Where the words of the user are: queued, in a task's batch, accumulated or sent
\* to the model.
Finals(events) == {i \in 1..Len(events) : events[i][1] = "final"}
Asked == {k \in 1..Len(context) : context[k][1] = "user"}
Places ==
  {<<"queue", 0, i>> : i \in Finals(sttEvents)}
  \cup (UNION {{<<"task", t, i>> : i \in Finals(tasks[t].batch)} : t \in Tasks})
  \cup {<<"accumulated", 0, i>> : i \in 1..Len(accumulated)}
  \cup (UNION {{<<"context", k, i>> : i \in 1..Len(context[k][2])} : k \in Asked})
WordAt(place) ==
  CASE place[1] = "queue" -> sttEvents[place[3]][2]
    [] place[1] = "task" -> tasks[place[2]].batch[place[3]][2]
    [] place[1] = "accumulated" -> accumulated[place[3]]
    [] place[1] = "context" -> context[place[2]][2][place[3]]

\* Everything the user is understood to say is put to the model once: tasks that
\* overlap neither lose nor repeat a transcript.  (Its order may change: what is
\* left in the batch of a task that speaks comes after what a later task hears.)
WordsSentOnce ==
  /\ {WordAt(place) : place \in Places} = 1..recognised
  /\ \A p, q \in Places : WordAt(p) = WordAt(q) => p = q

\* The answers' audio on its way: played, in the tick, or queued.
NoPiece == <<0, 0>>
PieceOf(event) == IF event[1] = "audio" THEN event[2] ELSE NoPiece
AudioStream ==
  playedPieces \o agentAudio \o [k \in 1..Len(pipelineEvents) |-> PieceOf(pipelineEvents[k])]

\* An answer nobody interrupts is played whole and in order, although answers
\* of two tasks may be spoken at a time.
AnswersPlayedWhole ==
  LET stream == AudioStream IN
  \A a \in 1..MaxReplies \ interrupted :
    LET at == {i \in 1..Len(stream) : stream[i][1] = a}
    IN  /\ {stream[i][2] : i \in at} = 1..sent[a]
        /\ \A i, j \in at : i < j => stream[i][2] < stream[j][2]

NothingLost == WordsSentOnce /\ AnswersPlayedWhole

\* What the user is understood to say is put to the model in the end, also when
\* the end of the speech is never reported.
WordsAnswered ==
  \A n \in 1..MaxHeard :
    n <= recognised ~> \E k \in 1..Len(context) : /\ context[k][1] = "user"
                                                  /\ n \in Range(context[k][2])
=============================================================================
