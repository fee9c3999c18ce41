------------------------------ MODULE AudioTick ------------------------------
(***************************************************************************)
(* The agent's side of a voice run, tick by tick: the tick lifecycle of    *)
(* DiscreteTimeAdapter (voice/audio_native/adapter.py), TickResult         *)
(* (tick_result.py), what DiscreteTimeAudioNativeAgent makes of it, and    *)
(* the event handlers of the adapters of five services, which differ in    *)
(* what an interruption does.                                              *)
(*                                                                         *)
(* Audio comes from the service faster than it is spoken, in chunks of an  *)
(* item (an answer); a tick keeps as much as it can play and buffers the   *)
(* rest.  A piece of audio is an item and a position; a tick plays         *)
(* TickLength of them.  Text comes in pieces too.                          *)
(***************************************************************************)
EXTENDS Integers, Sequences, SequencesExt, FiniteSets

CONSTANTS
  Services,    \* the adapters
  TickLength,  \* bytes_per_tick
  MaxItems,    \* bound: answers
  MaxAudio,    \* bound: pieces of audio of an answer
  MaxText,     \* bound: pieces of text of an answer
  MaxBargeIns  \* bound: interruptions

ASSUME AudioAssumption ==
  /\ Services \subseteq {"openai", "xai", "qwen", "gemini", "nova"}
  /\ TickLength \in Nat \ {0}
  /\ {MaxItems, MaxAudio, MaxText, MaxBargeIns} \subseteq Nat

Items == 1..MaxItems
None == 0

VARIABLES
  service,     \* whose adapter it is
  phase,       \* "between" two run_tick calls, or in a "tick"
  chunks,      \* result.agent_audio_chunks of the tick
  truncated,   \* result.was_truncated
  cut,         \* where in the tick the interruption came; TickLength + 1: unknown
  buffered,    \* _buffered_agent_audio
  skip,        \* _skip_item_id, in a tick result.skip_item_id; Nova: _skip_content_id
  currentItem, \* _current_item_id; Nova: _current_content_id
  finals,      \* Nova: _final_content_ids
  textOf,      \* Nova: _item_id_map, from audio to text
  lastText,    \* Nova: _last_assistant_text_content_id
  utterances,  \* _utterance_transcripts
  item,        \* the service: the item it is sending,
  content,     \*   Nova: the content of the item it is in,
  arrived,     \*   the pieces of each item's audio it has sent,
  bargeIns,    \*   how often it has heard the user interrupt
  playedAudio, \* history: the audio played
  mixed,       \* history: items with audio in the tick of an interruption
  bargedInto,  \* history: items the user has interrupted,
  ignored      \*   those of them whose interruption OpenAI's adapter passed over

adapterVars == <<buffered, skip, currentItem, finals, textOf, lastText, utterances>>
tickVars == <<chunks, truncated, cut>>
historyVars == <<playedAudio, mixed, bargedInto, ignored>>
serviceVars == <<service, item, content, arrived, bargeIns>>
audioVars == <<phase, adapterVars, tickVars, serviceVars, historyVars>>

Unknown == TickLength + 1
\* UtteranceTranscript: audio and text received, audio played, text shown.
Utterance == [audio |-> 0, text |-> 0, played |-> 0, shown |-> 0]

AudioInit ==
  /\ service \in Services
  /\ phase = "between"
  /\ chunks = <<>> /\ truncated = FALSE /\ cut = Unknown
  /\ buffered = <<>> /\ skip = None /\ currentItem = None
  /\ finals = {} /\ textOf = [i \in Items |-> i] /\ lastText = None
  /\ utterances = [i \in Items |-> Utterance]
  /\ item = None /\ content = "none" /\ arrived = [i \in Items |-> 0] /\ bargeIns = 0
  /\ playedAudio = <<>> /\ mixed = {} /\ bargedInto = {} /\ ignored = {}
-----------------------------------------------------------------------------
ItemOf(piece) == piece[1]
ItemsIn(pieces) == {ItemOf(pieces[k]) : k \in 1..Len(pieces)}
CountOf(i, pieces) == Cardinality({k \in 1..Len(pieces) : ItemOf(pieces[k]) = i})
FirstOf(n, pieces) == SubSeq(pieces, 1, n)
AfterFirst(n, pieces) == SubSeq(pieces, n + 1, Len(pieces))

\* Steps 1 to 4: a fresh result, which starts with the audio left over.
StartAudioTick ==
  /\ phase = "between" /\ phase' = "tick"
  /\ chunks' = buffered /\ buffered' = <<>>
  /\ truncated' = FALSE /\ cut' = Unknown
  /\ UNCHANGED <<skip, currentItem, finals, textOf, lastText, utterances, serviceVars,
                 historyVars>>

Pieces(i, n) == [k \in 1..n |-> <<i, arrived[i] + k>>]
\* A chunk is kept, and counted under the name its text goes by.
Keep(i, n, name) ==
  /\ chunks' = chunks \o Pieces(i, n)
  /\ utterances' = [utterances EXCEPT ![name].audio = @ + n]
Discard == UNCHANGED <<chunks, utterances>>

\* The handlers of audio, n pieces more of item i.  The item to skip is
\* forgotten with the first audio of another one.
OpenAIAudioDelta(i, n) ==
  /\ \/ i = skip /\ Discard /\ UNCHANGED skip
     \/ i # skip /\ Keep(i, n, i) /\ skip' = None
  /\ UNCHANGED <<currentItem, finals, textOf, lastText>>

XAIAudioDelta(i, n) ==
  /\ \/ i = skip /\ Discard /\ UNCHANGED currentItem
     \/ i # skip /\ Keep(i, n, i) /\ currentItem' = i
  /\ UNCHANGED <<skip, finals, textOf, lastText>>
\* These two convert the audio, Gemini's after the last event of the tick.
QwenAudioDelta(i, n) == XAIAudioDelta(i, n)
GeminiAudioDelta(i, n) == XAIAudioDelta(i, n)

\* Contents of an item; only final ones, that are not over, are kept.
TextContent(i) == <<"text", i>>
AudioContent(i) == <<"audio", i>>
NovaAudioOutput(i, n) ==
  /\ \/ /\ i # skip
        /\ {AudioContent(i), TextContent(textOf[i])} \cap finals # {}
        /\ Keep(i, n, textOf[i]) /\ currentItem' = i
     \/ /\ i = skip \/ {AudioContent(i), TextContent(textOf[i])} \cap finals = {}
        /\ Discard /\ UNCHANGED currentItem
  /\ UNCHANGED <<skip, finals, textOf, lastText>>

\* The service sends its items one after the other, the text of an item ahead
\* of its audio or with it; it may stop anywhere, and still send what it had on
\* the way when it was interrupted.
SendingItem(i) == IF service = "nova" THEN i = item ELSE i \in {item, item + 1}

AudioDelta(i, n) ==
  /\ phase = "tick" /\ i \in Items /\ SendingItem(i)
  /\ service = "nova" => content = "audio"
  /\ arrived[i] + n <= MaxAudio
  /\ CASE service = "openai" -> OpenAIAudioDelta(i, n)
       [] service = "xai" -> XAIAudioDelta(i, n)
       [] service = "qwen" -> QwenAudioDelta(i, n)
       [] service = "gemini" -> GeminiAudioDelta(i, n)
       [] service = "nova" -> NovaAudioOutput(i, n)
  /\ item' = i /\ arrived' = [arrived EXCEPT ![i] = @ + n]
  /\ UNCHANGED <<service, phase, content, bargeIns, buffered, truncated, cut, historyVars>>

\* Text of item i; Nova's only of a final content.
TranscriptDelta(i) ==
  /\ phase = "tick" /\ i \in Items /\ SendingItem(i)
  /\ service = "nova" => content = "text"
  /\ utterances[i].text < MaxText
  /\ LET kept == service # "nova" \/ TextContent(i) \in finals
     IN  /\ utterances' = [utterances EXCEPT ![i].text = IF kept THEN @ + 1 ELSE @]
         /\ lastText' = IF kept /\ service = "nova" THEN i ELSE lastText
  /\ item' = i
  /\ UNCHANGED <<service, phase, content, arrived, bargeIns, buffered, skip, currentItem, finals,
                 textOf, tickVars, historyVars>>

\* Nova announces the text of the next item, final or speculative, then its
\* audio, which goes by the name of the last text; or what the user said.
NovaContentStart(final) ==
  /\ phase = "tick" /\ service = "nova"
  /\ \/ /\ item + 1 \in Items
        /\ item' = item + 1 /\ content' = "text"
        /\ finals' = IF final THEN finals \cup {TextContent(item + 1)} ELSE finals
        /\ currentItem' = None /\ UNCHANGED textOf
     \/ /\ content = "text"
        /\ content' = "audio" /\ UNCHANGED item
        /\ finals' = IF final THEN finals \cup {AudioContent(item)} ELSE finals
        /\ textOf' = [textOf EXCEPT ![item] = IF lastText = None THEN @ ELSE lastText]
        /\ currentItem' = item
     \/ /\ currentItem' = None /\ UNCHANGED <<item, content, finals, textOf>>
  /\ UNCHANGED <<service, phase, arrived, bargeIns, buffered, skip, lastText, utterances,
                 tickVars, historyVars>>

\* The answers the service has begun to send, which an interruption is about.
Sent == {i \in Items : arrived[i] > 0}
\* The items whose interruption has been acted on.
Hushed == bargedInto \ ignored

\* SpeechStartedEvent: the adapter does nothing in a tick that holds none of the
\* agent's audio (has_agent_audio), even if the answer is not over: it sets no
\* item to skip, and forgets none.  (What truncate_item is told, a whole tick,
\* is left out.)
OpenAISpeechStarted ==
  \/ /\ chunks = <<>>
     /\ ignored' = ignored \cup (Sent \ bargedInto)
     /\ UNCHANGED <<truncated, cut, skip, finals>>
  \/ /\ chunks # <<>>
     /\ truncated' = TRUE /\ cut' \in 0..TickLength
     /\ skip' = ItemOf(Last(chunks)) /\ ignored' = {}
     /\ UNCHANGED finals

\* The others do not know where in the tick it was.
Interrupted ==
  /\ truncated' = TRUE /\ skip' = currentItem /\ ignored' = {}
  /\ UNCHANGED cut
XAISpeechStarted == Interrupted /\ UNCHANGED finals
QwenSpeechStarted == Interrupted /\ UNCHANGED finals
GeminiInterruption == Interrupted /\ UNCHANGED finals
\* Mutant: the contents stay final.
NovaBargeInSkipping == Interrupted /\ UNCHANGED finals
NovaBargeIn == Interrupted /\ finals' = {}

SpeechStarted ==
  /\ phase = "tick" /\ bargeIns < MaxBargeIns
  /\ bargeIns' = bargeIns + 1
  /\ bargedInto' = bargedInto \cup Sent
  /\ CASE service = "openai" -> OpenAISpeechStarted
       [] service = "xai" -> XAISpeechStarted
       [] service = "qwen" -> QwenSpeechStarted
       [] service = "gemini" -> GeminiInterruption
       [] service = "nova" -> NovaBargeIn
  /\ UNCHANGED <<service, phase, item, content, arrived, buffered, currentItem, textOf, lastText,
                 utterances, chunks, playedAudio, mixed>>

\* buffer_excess_audio: what the tick cannot play waits, unless the user
\* interrupted in it.
Kept == FirstOf(IF Len(chunks) < TickLength THEN Len(chunks) ELSE TickLength, chunks)
\* Mutant: what the end of the tick cuts off a chunk is lost.
ExcessUncut == IF truncated THEN <<>> ELSE AfterFirst(Len(Kept) + 1, chunks)
Excess == IF truncated THEN <<>> ELSE AfterFirst(Len(Kept), chunks)

\* get_played_agent_audio.
Played == IF truncated /\ cut < Len(Kept) THEN FirstOf(cut, Kept) ELSE Kept

\* get_proportional_text never goes back, though the share may.
Shown(u) ==
  LET share == (u.played * u.text + u.audio - 1) \div u.audio
      end == IF share > u.text THEN u.text ELSE share
  IN  IF u.audio = 0 \/ u.text = 0 \/ end < u.shown THEN u.shown ELSE end
\* Mutant: the share of what was played before this tick.
ProportionalTranscriptLate(i) ==
  LET n == Cardinality({k \in 1..Len(Kept) : textOf[ItemOf(Kept[k])] = i})
      u == [utterances[i] EXCEPT !.played = @ + n]
  IN  IF n = 0 THEN utterances[i] ELSE [u EXCEPT !.shown = Shown(utterances[i])]
\* get_proportional_transcript.
ProportionalTranscript(i) ==
  LET n == Cardinality({k \in 1..Len(Kept) : textOf[ItemOf(Kept[k])] = i})
      u == [utterances[i] EXCEPT !.played = @ + n]
  IN  IF n = 0 THEN utterances[i] ELSE [u EXCEPT !.shown = Shown(u)]

\* Steps 7 to 10, and what the agent makes of the result.
EndAudioTick ==
  /\ phase = "tick" /\ phase' = "between"
  /\ buffered' = Excess
  /\ utterances' = [i \in Items |-> ProportionalTranscript(i)]
  /\ playedAudio' = playedAudio \o Played
  /\ mixed' = IF truncated THEN mixed \cup ItemsIn(chunks) ELSE mixed
  /\ chunks' = <<>> /\ truncated' = FALSE /\ cut' = Unknown
  /\ UNCHANGED <<skip, currentItem, finals, textOf, lastText, serviceVars, bargedInto, ignored>>

AudioNext ==
  \/ StartAudioTick \/ EndAudioTick
  \/ \E i \in Items, n \in 1..MaxAudio : AudioDelta(i, n)
  \/ \E i \in Items : TranscriptDelta(i)
  \/ \E final \in BOOLEAN : NovaContentStart(final)
  \/ SpeechStarted

AudioSpec == AudioInit /\ [][AudioNext]_audioVars
-----------------------------------------------------------------------------
(* Properties.                                                             *)

Before(p, q) == p[1] < q[1] \/ (p[1] = q[1] /\ p[2] < q[2])
OnTheWay == playedAudio \o (IF phase = "tick" THEN chunks ELSE buffered)

\* The user hears every answer in order, nothing twice, and an answer that no
\* one interrupted, or whose interruption OpenAI's adapter passed over, without
\* a gap, however it was cut into chunks and ticks (of Nova's answers the
\* speculative ones not at all).  Exempt is an answer that began in the tick of
\* an interruption: what is too much for that tick is thrown away with the rest.
AnswersHeardWhole ==
  /\ \A k \in 1..(Len(OnTheWay) - 1) : Before(OnTheWay[k], OnTheWay[k + 1])
  /\ \A i \in Items \ (Hushed \cup mixed) :
       \/ CountOf(i, OnTheWay) = arrived[i]
       \/ service = "nova" /\ CountOf(i, OnTheWay) = 0

\* Once the user has interrupted, no more of the answer is played than its tick
\* already held, although the service may still be sending it.  Exempt, against
\* DiscreteTimeAdapter's "Set result.was_truncated and result.skip_item_id on
\* barge-in", is what OpenAI's adapter lets pass: an interruption in a tick that
\* holds no audio of the agent, as when the service pauses within an answer.
\* The rest of the answer is then played, until an interruption that is heeded.
SilentAfterBargeIn ==
  [][\A i \in Hushed :
       CountOf(i, chunks') <= IF phase = "tick" THEN CountOf(i, chunks) ELSE 0]_audioVars

\* An answer played to its end has all of its text shown that came before.
HeardInFull(i) == arrived[i] > 0 /\ arrived[i] = CountOf(i, playedAudio')
TextFollowsAudio ==
  [][phase = "tick" /\ phase' = "between" =>
       \A i \in ItemsIn(Kept) :
         (\A j \in Items : textOf[j] = textOf[i] /\ arrived[j] > 0 => HeardInFull(j))
         => utterances'[textOf[i]].shown = utterances[textOf[i]].text]_audioVars
=============================================================================
