---------------------------- MODULE GeminiSession ----------------------------
(***************************************************************************)
(* The session of a Gemini Live agent, which the server ends every ten     *)
(* minutes: GeminiLiveProvider (voice/audio_native/gemini/provider.py) and *)
(* the ticks of DiscreteTimeGeminiAdapter (discrete_time_adapter.py).      *)
(*                                                                         *)
(* One event loop runs two coroutines that interleave where they await:    *)
(* the adapter's tick and the receive loop.  Server responses are numbered *)
(* as the loop reads them; the end of a turn is an event too.  Resumption  *)
(* is as configured: only after a GoAway (resume_only_on_timeout).         *)
(***************************************************************************)
EXTENDS Integers, Sequences

CONSTANTS
  MaxResumptions, \* max_resumptions
  MaxResponses    \* bound: events read in a run

ASSUME SessionAssumption == {MaxResumptions, MaxResponses} \subseteq Nat

VARIABLES
  at,           \* where run_tick is
  session,      \* _session: none, live, or closed by the server
  receiveTask,  \* _receive_task
  goAway,       \* _go_away_received
  atBoundary,   \* _reconnect_at_turn_boundary
  reconnect,    \* _pending_reconnection
  handle,       \* _resumption_handle is known
  resumptions,  \* _resumption_count
  eventQueue,   \* _event_queue
  preserved,    \* _preserved_events
  gathered,     \* the events the tick has received
  toolResults,  \* _pending_tool_results
  eventsRead,   \* history: how many events the loop has read
  toolCalls,    \* history: which of them are tool calls
  processed,    \* history: the events the adapter has processed
  answered      \* history: the tool calls whose results were sent

going == <<goAway, atBoundary, reconnect>>
resuming == <<handle, resumptions>>
toolVars == <<toolResults, answered>>
events == <<eventQueue, preserved, gathered, processed>>
geminiVars == <<at, session, receiveTask, going, resuming, events, eventsRead, toolCalls, toolVars>>

\* connect() has just succeeded; the receive loop starts with the first audio.
GeminiInit ==
  /\ at = "between" /\ session = "live" /\ receiveTask = "none"
  /\ goAway = FALSE /\ atBoundary = FALSE /\ reconnect = FALSE
  /\ handle = FALSE /\ resumptions = 0
  /\ eventQueue = <<>> /\ preserved = <<>> /\ gathered = <<>> /\ processed = <<>>
  /\ toolResults = <<>> /\ answered = <<>>
  /\ eventsRead = 0 /\ toolCalls = {}
-----------------------------------------------------------------------------
(* The receive loop.                                                       *)

\* A response, perhaps the last of its turn, is parsed and queued.  After a
\* GoAway the loop ends with the turn, or with the first response (late) after
\* the deadline, and asks for a reconnection.
Receive(kind, last, late) ==
  LET wanted == atBoundary \/ kind = "goAway"
      turnEnds == last /\ ~late
      n == IF turnEnds THEN 2 ELSE 1
      ends == wanted /\ (last \/ late)
  IN  /\ receiveTask = "running" /\ session = "live"
      /\ kind = "goAway" => ~goAway
      /\ kind = "handle" => ~handle
      /\ late => atBoundary
      /\ eventsRead + n <= MaxResponses
      /\ eventsRead' = eventsRead + n
      /\ eventQueue' = eventQueue \o [k \in 1..n |-> eventsRead + k]
      /\ toolCalls' = IF kind = "call" THEN toolCalls \cup {eventsRead + 1} ELSE toolCalls
      /\ handle' = (handle \/ kind = "handle")
      /\ goAway' = (goAway \/ kind = "goAway")
      /\ atBoundary' = (wanted /\ ~ends)
      /\ reconnect' = (reconnect \/ ends)
      /\ receiveTask' = IF ends THEN "done" ELSE "running"
      /\ UNCHANGED <<at, session, resumptions, preserved, gathered, processed, toolVars>>

\* After a GoAway, and sometimes without one, the server closes the session.
ServerCloses ==
  /\ session = "live" /\ session' = "closed"
  /\ UNCHANGED <<at, receiveTask, going, resuming, events, eventsRead, toolCalls, toolVars>>

CanResume == handle /\ resumptions < MaxResumptions

\* Mutant: the loop resumes the session itself and goes on.
ConnectionClosedResuming ==
  /\ receiveTask = "running" /\ session = "closed"
  /\ IF goAway /\ CanResume
     THEN session' = "none" /\ UNCHANGED <<going, receiveTask>>
     ELSE receiveTask' = "failed" /\ UNCHANGED <<going, session>>
  /\ UNCHANGED <<at, resuming, events, eventsRead, toolCalls, toolVars>>
\* The loop notices: it ends and asks for a reconnection, or it fails.
ConnectionClosed ==
  /\ receiveTask = "running" /\ session = "closed"
  /\ IF goAway /\ CanResume
     THEN receiveTask' = "done" /\ atBoundary' = FALSE /\ reconnect' = TRUE
     ELSE receiveTask' = "failed" /\ UNCHANGED <<atBoundary, reconnect>>
  /\ UNCHANGED <<at, session, goAway, resuming, events, eventsRead, toolCalls, toolVars>>

\* Any other error, of a response that cannot be parsed: nobody awaits the task.
ReceiveFails ==
  /\ receiveTask = "running" /\ receiveTask' = "failed"
  /\ UNCHANGED <<at, session, going, resuming, events, eventsRead, toolCalls, toolVars>>
-----------------------------------------------------------------------------
(* The tick.                                                               *)

Fail == at' = "failed"

StartSessionTick ==
  /\ at = "between" /\ at' = "flush"
  /\ UNCHANGED <<session, receiveTask, going, resuming, events, eventsRead, toolCalls, toolVars>>

\* Step 1 of the tick: all results in one batch; the send raises when the
\* server has closed the session.
FlushPendingToolResults ==
  /\ at = "flush"
  /\ \/ toolResults = <<>> /\ at' = "execute" /\ UNCHANGED toolVars
     \/ /\ toolResults # <<>> /\ session = "live"
        /\ at' = "execute" /\ answered' = answered \o toolResults /\ toolResults' = <<>>
     \/ toolResults # <<>> /\ session = "closed" /\ Fail /\ UNCHANGED toolVars
  /\ UNCHANGED <<session, receiveTask, going, resuming, events, eventsRead, toolCalls>>

\* Mutant: the queue is dropped.
DrainDropping == eventQueue' = <<>> /\ UNCHANGED preserved
\* Events queued before a reconnection are kept for the first tick after it.
Drain == preserved' = preserved \o eventQueue /\ eventQueue' = <<>>

\* Mutant: the loop that has ended is still taken for the receive task.
ForgetTaskLater == UNCHANGED receiveTask
ForgetTask == receiveTask' = "none"

\* perform_pending_reconnection up to the first await: the session is closed,
\* unless it cannot be resumed.
PerformPendingReconnection ==
  /\ at = "execute" /\ reconnect
  /\ reconnect' = FALSE /\ ForgetTask /\ Drain
  /\ IF CanResume
     THEN at' = "reconnecting" /\ resumptions' = resumptions + 1 /\ session' = "none"
     ELSE Fail /\ UNCHANGED <<resumptions, session>>
  /\ UNCHANGED <<goAway, atBoundary, handle, gathered, processed, eventsRead, toolCalls, toolVars>>

\* connect() with the handle: the GoAway state is reset, whether or not it succeeds.
Connect ==
  /\ at = "reconnecting"
  /\ goAway' = FALSE /\ atBoundary' = FALSE /\ reconnect' = FALSE
  /\ \/ session' = "live" /\ at' = "send"
     \/ Fail /\ UNCHANGED session
  /\ UNCHANGED <<receiveTask, resuming, events, eventsRead, toolCalls, toolVars>>

NoReconnection ==
  /\ at = "execute" /\ ~reconnect /\ at' = "send"
  /\ UNCHANGED <<session, receiveTask, going, resuming, events, eventsRead, toolCalls, toolVars>>

\* gather(): send_audio starts the loop if there is none, on a new queue, and
\* sends; meanwhile receive_events_for_duration takes what was preserved.
SendAudio ==
  /\ at = "send"
  /\ \/ session = "live" /\ at' = "gather"
     \/ session = "closed" /\ Fail
  /\ IF receiveTask = "none" THEN receiveTask' = "running" /\ eventQueue' = <<>>
                             ELSE UNCHANGED <<receiveTask, eventQueue>>
  /\ gathered' = preserved /\ preserved' = <<>>
  /\ UNCHANGED <<session, going, resuming, processed, eventsRead, toolCalls, toolVars>>

ReceiveEvent ==
  /\ at = "gather" /\ eventQueue # <<>>
  /\ gathered' = Append(gathered, Head(eventQueue)) /\ eventQueue' = Tail(eventQueue)
  /\ UNCHANGED <<at, session, receiveTask, going, resuming, preserved, processed, eventsRead,
                 toolCalls, toolVars>>

\* The tool calls of a batch of events, in order.
CallsAmong(batch) ==
  LET upTo[n \in 0..Len(batch)] ==
        IF n = 0 THEN <<>>
        ELSE IF batch[n] \in toolCalls THEN Append(upTo[n - 1], batch[n]) ELSE upTo[n - 1]
  IN  upTo[Len(batch)]

\* The time is up: the events are processed, tool calls executed, and their
\* results handed over before the next tick.
EndSessionTick ==
  /\ at = "gather" /\ at' = "between"
  /\ processed' = processed \o gathered /\ gathered' = <<>>
  /\ toolResults' = toolResults \o CallsAmong(gathered)
  /\ UNCHANGED <<session, receiveTask, going, resuming, eventQueue, preserved, eventsRead,
                 toolCalls, answered>>

\* disconnect(), when the run ends or a tick has failed.
Disconnect ==
  /\ at \in {"between", "failed"} /\ at' = "ended"
  /\ receiveTask' = "none" /\ session' = "none"
  /\ goAway' = FALSE /\ atBoundary' = FALSE /\ reconnect' = FALSE
  /\ eventQueue' = <<>>
  /\ UNCHANGED <<resuming, preserved, gathered, processed, eventsRead, toolCalls, toolVars>>

SessionTick ==
  \/ StartSessionTick \/ FlushPendingToolResults
  \/ PerformPendingReconnection \/ Connect \/ NoReconnection
  \/ SendAudio \/ ReceiveEvent \/ EndSessionTick

GeminiNext ==
  \/ \E kind \in {"audio", "call", "goAway", "handle"}, last, late \in BOOLEAN :
       Receive(kind, last, late)
  \/ ServerCloses \/ ConnectionClosed \/ ReceiveFails
  \/ SessionTick \/ Disconnect

\* Ticks follow each other and end when their time is up.
GeminiSpec == GeminiInit /\ [][GeminiNext]_geminiVars /\ WF_geminiVars(SessionTick)
-----------------------------------------------------------------------------
(* Properties.                                                             *)

Numbers(n) == [k \in 1..n |-> k]

\* Whatever the loop has read reaches the adapter once and in order, across
\* reconnections, and tool calls are answered in order, none of them twice.
EventsOnceInOrder ==
  at \notin {"failed", "ended"} =>
    /\ processed \o gathered \o preserved \o eventQueue = Numbers(eventsRead)
    /\ \A j, k \in 1..Len(answered) : j < k => answered[j] < answered[k]

\* While the session is torn down nothing else uses it: no loop receives, and
\* the tick waits for the new one.
TornDownAlone ==
  session = "none" => at \in {"reconnecting", "failed", "ended"} /\ receiveTask # "running"

\* Nothing is lost to a reconnection, which has the session to itself.
ResumesCleanly == EventsOnceInOrder /\ TornDownAlone

\* A receive loop that has ended is replaced, or the run ends.  (One that has
\* failed is not: the agent stays deaf.)
ListensAgain ==
  []<>(receiveTask \in {"running", "failed"} \/ at \in {"failed", "ended"})

\* "BEFORE any session I/O (send_tool_response, send_audio)": no result is sent
\* while a reconnection is pending.
ReconnectBeforeIO == [][answered' # answered => ~reconnect]_geminiVars
=============================================================================
