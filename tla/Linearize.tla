------------------------------ MODULE Linearize ------------------------------
(***************************************************************************)
(* What the LLM of a simulated voice user is shown: the history of ticks,  *)
(* in which both sides may speak at once, made one sequence of messages    *)
(* (StreamingState.get_linearized_messages and linearize_ticks of          *)
(* agent/base/streaming.py, strategy CONTAINMENT_AWARE).                   *)
(*                                                                         *)
(* A chunk is known by its speaker and its tick on the timeline; that the  *)
(* chunks of a segment become one message is left out.  A call stands for  *)
(* all calls of its chunk, whose ids are distinct and whose results come   *)
(* together with the next chunk.                                           *)
(***************************************************************************)
EXTENDS Integers, Sequences, FiniteSets, SequencesExt, FiniteSetsExt

CONSTANTS
  IntegrationTicks,  \* the values of integration_ticks
  SilenceTicks,      \* silence_annotation_threshold_ticks
  MaxHistory         \* bound: ticks recorded

ASSUME HistoryAssumption ==
  /\ IntegrationTicks \subseteq Nat \ {0}
  /\ SilenceTicks \in Nat \ {0}
  /\ MaxHistory \in Nat

VARIABLES
  history,      \* StreamingState.ticks
  integration,  \* integration_ticks
  offered       \* what the LLM is asked about; "unasked" between two ticks

contextVars == <<history, integration, offered>>

RecordedTicks ==
  [self : {"none", "speech", "call"}, other : {"none", "speech"}, env : BOOLEAN]

HistoryInit == history = <<>> /\ integration \in IntegrationTicks /\ offered = "unasked"

ResultsOwed == history # <<>> /\ Last(history).self = "call"

\* A decision or an answer is asked for: about the results, when they are there,
\* else about what the agent is saying.
AskLlm ==
  /\ offered = "unasked"
  /\ offered' \in IF ResultsOwed THEN {"result"} ELSE {"none", "speech"}
  /\ UNCHANGED <<history, integration>>

\* The tick is recorded with what was said, heard and returned in it.
RecordTick ==
  /\ offered # "unasked"
  /\ Len(history) < MaxHistory
  /\ \E t \in RecordedTicks :
       /\ t.env = ResultsOwed
       /\ t.other = offered \/ offered = "result"
       /\ history' = Append(history, t)
  /\ offered' = "unasked"
  /\ UNCHANGED integration

HistoryNext == AskLlm \/ RecordTick
-----------------------------------------------------------------------------
(* The timeline: a tick with results becomes two, the results first.       *)

ExpandTick(t) ==
  IF ~t.env THEN <<[self |-> t.self, other |-> t.other]>>
  ELSE <<[self |-> t.self, other |-> "result"]>>
       \o (IF t.other = "none" THEN <<>> ELSE <<[self |-> "none", other |-> t.other]>>)

\* The chunk just heard is in no tick yet and gets a temporary one.
Pending == IF offered \in {"unasked", "none"} THEN <<>>
           ELSE <<[self |-> "none", other |-> offered]>>

Timeline == FlattenSeq([i \in 1..Len(history) |-> ExpandTick(history[i])]) \o Pending

Spoken(T, who) == {i \in 1..Len(T) : T[i][who] = "speech"}
Calls(T) == {i \in 1..Len(T) : T[i].self = "call"}
Results(T) == {i \in 1..Len(T) : T[i].other = "result"}

\* Speech with less than integration_ticks of silence in between is one segment.
Segments(T, who) ==
  LET at == Spoken(T, who)
      starts == {i \in at : \A j \in at : j >= i \/ i - j > integration}
      From(i) == {j \in at : j >= i /\ \A k \in starts : k <= i \/ k > j}
  IN  {[who |-> who, start |-> i, end |-> Max(From(i)), chunks |-> From(i)] : i \in starts}

\* Ticks in which neither speaks, as maximal runs of at least SilenceTicks: where
\* each begins.
Silences(T) ==
  LET Silent(i) == T[i].self # "speech" /\ T[i].other # "speech"
  IN  {i \in 1..(Len(T) - SilenceTicks + 1) :
         /\ \A j \in i..(i + SilenceTicks - 1) : Silent(j)
         /\ i > 1 => ~Silent(i - 1)}
-----------------------------------------------------------------------------
(* The rules, which give every part of a segment a place: a tick and a     *)
(* priority.  No two parts have the same one, and the chunks of a part     *)
(* keep their order, so the order of the output is that of place and then  *)
(* of the chunk's own tick.                                                *)

Silence == -1
OtherSpeech == 0
SelfSpeech == 1
Tool == 2
Continuation == 3

Placed(tick, priority, chunks) == {<<tick, priority, x>> : x \in chunks}
Chunks(who, at) == {<<who, i>> : i \in at}

Inside(x, y) == x.start >= y.start /\ x.end <= y.end

\* Mutant: last_split stays where it begins.
SpliceFromStart(host, guests, own, guest, tail) ==
  (UNION {Placed(g.end, own, Chunks(host.who, {i \in host.chunks : i <= g.end})) : g \in guests})
  \cup (UNION {Placed(g.end, guest, Chunks(g.who, g.chunks)) : g \in guests})
  \cup Placed(host.start, tail, Chunks(host.who, host.chunks))
\* A segment is cut where each segment within it ends, which is put there.
Splice(host, guests, own, guest, tail) ==
  LET ends == {g.end : g \in guests}
      last == Max(ends)
      Since(e) == Max({host.start - 1} \cup {d \in ends : d < e})
      Kept(from, to) == Chunks(host.who, {i \in host.chunks : from < i /\ i <= to})
  IN  (UNION {Placed(e, own, Kept(Since(e), e)) : e \in ends})
      \cup (UNION {Placed(g.end, guest, Chunks(g.who, g.chunks)) : g \in guests})
      \cup Placed(last + 1, tail, Kept(last, host.end))

SpeechPlaces(T) ==
  LET selfs == Segments(T, "self")
      others == Segments(T, "other")
      WithinOther(o) == {s \in selfs : Inside(s, o)}
      WithinSelf(s) == {o \in others : Inside(o, s) /\ ~Inside(s, o)}
      otherHosts == {o \in others : WithinOther(o) # {}}
      selfGuests == UNION {WithinOther(o) : o \in others}
      selfHosts == {s \in selfs \ selfGuests : WithinSelf(s) # {}}
      otherGuests == UNION {WithinSelf(s) : s \in selfHosts}
  IN  (UNION {Splice(o, WithinOther(o), OtherSpeech, SelfSpeech, Continuation) : o \in otherHosts})
      \cup (UNION {Splice(s, WithinSelf(s), SelfSpeech, Continuation, SelfSpeech) : s \in selfHosts})
      \cup (UNION {Placed(s.start, SelfSpeech, Chunks("self", s.chunks)) :
                      s \in selfs \ (selfGuests \cup selfHosts)})
      \cup (UNION {Placed(o.start, OtherSpeech, Chunks("other", o.chunks)) :
                      o \in others \ (otherGuests \cup otherHosts)})

\* A call is shown where it was made, its results, if they are there, behind it.
ResultsOf(T, c) == {r \in Results(T) : r > c /\ \A d \in Calls(T) : d <= c \/ d >= r}
ToolPlaces(T) ==
  UNION {Placed(c, Tool, {<<"call", c>>} \cup Chunks("result", ResultsOf(T, c))) : c \in Calls(T)}

SilencePlaces(T) == UNION {Placed(i, Silence, {<<"silence", i>>}) : i \in Silences(T)}

AllPlaces(T) == SpeechPlaces(T) \cup ToolPlaces(T) \cup SilencePlaces(T)
Sooner(p, q) == \/ p[1] < q[1]
                \/ p[1] = q[1] /\ p[2] < q[2]
                \/ p[1] = q[1] /\ p[2] = q[2] /\ p[3][2] < q[3][2]

\* The n-th message has n - 1 before it.
Linearized(T) ==
  LET placed == AllPlaces(T)
      Nth(n) == CHOOSE q \in placed : Cardinality({p \in placed : Sooner(p, q)}) = n - 1
  IN  [n \in 1..Cardinality(placed) |-> Nth(n)[3]]
-----------------------------------------------------------------------------
(* Properties.                                                             *)

Speech(x) == x[1] \in {"self", "other"}

\* What is said without a break of integration_ticks, as first and last tick.
Span(T, x) ==
  LET Broken(i, j) == \E k \in (i + 1)..(j - integration) :
                        \A n \in k..(k + integration - 1) : T[n][x[1]] # "speech"
      whole == {i \in Spoken(T, x[1]) : ~Broken(i, x[2]) /\ ~Broken(x[2], i)}
  IN  IF Speech(x) THEN <<Min(whole), Max(whole)>> ELSE <<x[2], x[2]>>

\* The rules as the docstring of _linearize_with_containment_awareness puts
\* them: "If you speak entirely during someone else's turn, you get inserted
\* where you stopped. Otherwise, whoever started first goes first."
Precedes(T, x, y) ==
  LET a == Span(T, x)
      b == Span(T, y)
      During(u, v) == v[1] <= u[1] /\ u[2] <= v[2]
  IN  IF "result" \in {x[1], y[1]} THEN FALSE \* they go with their calls
      ELSE IF x[1] = y[1] THEN x[2] < y[2]
      ELSE IF ~Speech(x) \/ ~Speech(y) THEN a[2] < b[1]
      ELSE IF a = b THEN x[1] = "other"
      ELSE IF During(a, b) THEN y[2] > a[2]
      ELSE IF During(b, a) THEN x[2] <= b[2]
      ELSE a[1] < b[1]

Listed(T) == {<<"self", i>> : i \in Spoken(T, "self")} \cup {<<"other", i>> : i \in Spoken(T, "other")}
            \cup {<<"call", i>> : i \in Calls(T)} \cup {<<"result", i>> : i \in Results(T)}

\* Whatever the history, the LLM is shown every chunk, call and result once,
\* each where the rules put it, and results right behind their calls; a long
\* silence of both is mentioned between what came before and after it.
HistoryShownWhole ==
  offered # "unasked" =>
    LET T == Timeline
        shown == Linearized(T)
        at == 1..Len(shown)
    IN  /\ IsInjective(shown)
        /\ Range(shown) = Listed(T) \cup {<<"silence", i>> : i \in Silences(T)}
        /\ \A i, j \in at : i < j => ~Precedes(T, shown[j], shown[i])
        /\ \A i \in at : shown[i][1] = "result" => i > 1 /\ shown[i - 1][1] = "call"
                                                   /\ shown[i - 1][2] < shown[i][2]
=============================================================================
