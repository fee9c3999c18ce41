-------------------------- MODULE HalfDuplexProofs --------------------------
(***************************************************************************)
(* Theorems about HalfDuplex, for every limit, every setting and every     *)
(* set of histories tasks may start from, whatever the participants and    *)
(* the tools answer.                                                       *)
(***************************************************************************)
EXTENDS HalfDuplex, SequenceLemmas

-----------------------------------------------------------------------------
(* The inductive invariant.                                                *)

\* run() has a message in hand from the moment initialize() has one: the last
\* elements of the trajectory, all routed alike, and only one unless they are
\* the results of one message's calls.
MessageInHand ==
  /\ pc = "init" => trajectory = <<>>
  /\ pc \notin {"init", "aborted"} => trajectory # <<>>
  /\ trajectory = <<>> => message = <<>> /\ to_role = "USER"
  /\ trajectory # <<>> =>
       /\ Len(message) \in 1..Len(trajectory)
       /\ \A k \in 1..Len(message) :
            /\ message[k] = Len(trajectory) - Len(message) + k
            /\ trajectory[message[k]].from = from_role
            /\ trajectory[message[k]].to = to_role
       /\ from_role \in Participants => Len(message) = 1

\* A message goes to the environment exactly when it calls a tool, except for a
\* stop with tool calls that opens a solo run, which ends at once.  Results call
\* nothing.
RoutedByKind ==
  /\ from_role # to_role
  /\ to_role = "ENV" => from_role \in Participants
  /\ \A i \in 1..Len(trajectory) : trajectory[i].from = "ENV" => ~IsToolCall(trajectory[i])
  /\ trajectory # <<>> =>
       \/ to_role = "ENV" <=> IsToolCall(Last(trajectory))
       \/ /\ Len(trajectory) = 1 /\ IsStop(trajectory[1])
          /\ to_role = "USER" /\ pc \notin {"loop", "check"}

\* The loop goes on only while no reason to end is known.
NotDoneYet ==
  /\ pc \in {"init", "loop"} => ~done
  /\ pc \in {"finalize", "returned"} => done

RoutingInv == MessageInHand /\ RoutedByKind /\ NotDoneYet

\* The reason known so far is one the conversation bears out.
ReasonKept ==
  /\ pc \in {"init", "loop", "check", "finalize", "returned"} =>
       IF done THEN Borne(termination_reason) ELSE termination_reason = "NONE"
  /\ pc = "check" /\ ~done => ~IsStop(Last(trajectory))

\* How far the counters are where run() looks at them: in the loop no limit is
\* reached, but for the environment's step.
LimitsKept ==
  /\ pc = "init" => step_count = 0 /\ num_errors = 0
  /\ pc = "loop" => /\ num_errors < AtLeastOne(MaxErrors)
                    /\ to_role # "ENV" => step_count < AtLeastOne(MaxSteps)
                    /\ step_count <= AtLeastOne(MaxSteps)
  /\ pc = "check" /\ to_role = "ENV" => /\ num_errors < AtLeastOne(MaxErrors)
                                        /\ step_count <= AtLeastOne(MaxSteps)

StopsKept ==
  /\ StoppedAtEnd
  /\ pc = "cleanup" => stops["AGENT"] \in 0..1

EndInv == ReasonKept /\ LimitsKept /\ StopsKept /\ LimitsHold

\* What p has not been handed yet.
UnderWay(p) == IF to_role = p THEN message ELSE <<>>

\* A participant has everything addressed to it but the message under way, until
\* the run ends with stop() handing that over.
HandedOver ==
  \A p \in Participants :
    \/ /\ pc # "returned"
       /\ inbox[p] \o UnderWay(p) = AddressedTo(trajectory, p)
    \/ /\ pc \in {"returned", "cleanup", "raised"}
       /\ inbox[p] = AddressedTo(trajectory, p)

-----------------------------------------------------------------------------
(* Sequences.                                                              *)

\* The recursive function behind AddressedTo exists: g[n] lists the positions
\* up to n of the messages for r.
Lists(g, traj, r, n) ==
  /\ g \in [0..n -> Seq(Nat \ {0})]
  /\ g[0] = <<>>
  /\ \A i \in 1..n : g[i] = IF traj[i].to = r THEN Append(g[i - 1], i) ELSE g[i - 1]

LEMMA ListsExist ==
  ASSUME NEW traj, NEW r
  PROVE  \A n \in Nat : \E g : Lists(g, traj, r, n)
<1> DEFINE Positions == Seq(Nat \ {0})
           step == [p \in (Nat \ {0}) \X Positions |->
                      IF traj[p[1]].to = r THEN Append(p[2], p[1]) ELSE p[2]]
<1>1. step \in [(Nat \ {0}) \X Positions -> Positions]
  OBVIOUS
<1>2. <<>> \in Positions
  BY EmptySeq
<1>3. SUFFICES ASSUME NEW n \in Nat PROVE \E g : Lists(g, traj, r, n)
  OBVIOUS
<1>4. PICK g : Steps(g, Positions, <<>>, step, n)
  <2> HIDE DEF step, Positions
  <2> QED
    BY <1>1, <1>2, StepsExist
<1>5. ASSUME NEW i \in 1..n
      PROVE  g[i] = IF traj[i].to = r THEN Append(g[i - 1], i) ELSE g[i - 1]
  <2>1. i \in Nat \ {0} /\ g[i - 1] \in Positions
    BY <1>4 DEF Steps
  <2>2. g[i] = step[<<i, g[i - 1]>>]
    BY <1>4 DEF Steps
  <2> QED
    BY <2>1, <2>2
<1>6. g \in [0..n -> Positions] /\ g[0] = <<>>
  BY <1>4 DEF Steps
<1>7. Lists(g, traj, r, n)
  BY <1>5, <1>6 DEF Lists
<1> QED
  BY <1>7

\* Two such functions agree as far as the trajectories do.
LEMMA ListsAgree ==
  ASSUME NEW t1, NEW t2, NEW r, NEW n1 \in Nat, NEW n2 \in Nat, n1 <= n2,
         \A i \in 1..n1 : t1[i] = t2[i],
         NEW g1, Lists(g1, t1, r, n1),
         NEW g2, Lists(g2, t2, r, n2)
  PROVE  g1[n1] = g2[n1]
<1> DEFINE S == {n \in Nat : n <= n1 => g1[n] = g2[n]}
<1>1. 0 \in S
  BY DEF Lists
<1>2. ASSUME NEW n \in Nat, n \in S
      PROVE  n + 1 \in S
  <2>1. SUFFICES ASSUME n + 1 <= n1 PROVE g1[n + 1] = g2[n + 1]
    OBVIOUS
  <2>2. n + 1 \in 1..n1 /\ n + 1 \in 1..n2 /\ n + 1 - 1 = n /\ g1[n] = g2[n]
    BY <1>2, <2>1
  <2> HIDE DEF S
  <2>3. g1[n + 1] = IF t1[n + 1].to = r THEN Append(g1[n], n + 1) ELSE g1[n]
    BY <2>2 DEF Lists
  <2>4. g2[n + 1] = IF t2[n + 1].to = r THEN Append(g2[n], n + 1) ELSE g2[n]
    <3>1. \A i \in 1..n2 : g2[i] = IF t2[i].to = r THEN Append(g2[i - 1], i) ELSE g2[i - 1]
      BY DEF Lists
    <3> QED
      BY <2>2, <3>1
  <2> QED
    BY <2>2, <2>3, <2>4
<1>3. \A n \in Nat : n \in S
  <2> HIDE DEF S
  <2> QED
    BY <1>1, <1>2, SetInduction
<1> QED
  BY <1>3

\* What AddressedTo computes.
LEMMA AddressedToLists ==
  ASSUME NEW traj \in Seq(Message), NEW r
  PROVE  \E g : Lists(g, traj, r, Len(traj)) /\ AddressedTo(traj, r) = g[Len(traj)]
<1> DEFINE Rule(f) == [n \in 0..Len(traj) |->
                         IF n = 0 THEN <<>>
                         ELSE IF traj[n].to = r THEN Append(f[n - 1], n) ELSE f[n - 1]]
           upTo == CHOOSE f : f = Rule(f)
<1>1. Len(traj) \in Nat
  OBVIOUS
<1>2. \E f : f = Rule(f)
  <2>1. PICK g : Lists(g, traj, r, Len(traj))
    BY <1>1, ListsExist
  <2>2. \A n \in 0..Len(traj) :
          g[n] = IF n = 0 THEN <<>>
                 ELSE IF traj[n].to = r THEN Append(g[n - 1], n) ELSE g[n - 1]
    <3> SUFFICES ASSUME NEW n \in 0..Len(traj)
                 PROVE  g[n] = IF n = 0 THEN <<>>
                               ELSE IF traj[n].to = r THEN Append(g[n - 1], n) ELSE g[n - 1]
      OBVIOUS
    <3>1. n # 0 => n \in 1..Len(traj)
      BY <1>1
    <3> QED
      BY <2>1, <3>1 DEF Lists
  <2>3. g = [n \in 0..Len(traj) |-> g[n]]
    BY <2>1 DEF Lists
  <2>4. g = Rule(g)
    BY <2>2, <2>3
  <2> QED
    BY <2>4
<1>3. upTo = Rule(upTo)
  BY <1>2
<1>4. \A n \in 0..Len(traj) :
        upTo[n] = IF n = 0 THEN <<>>
                  ELSE IF traj[n].to = r THEN Append(upTo[n - 1], n) ELSE upTo[n - 1]
  <2> HIDE DEF upTo
  <2> QED
    BY <1>3
<1> DEFINE T == {n \in Nat : n <= Len(traj) => upTo[n] \in Seq(Nat \ {0})}
<1>5. 0 \in T
  <2> HIDE DEF upTo
  <2>1. upTo[0] = <<>>
    BY <1>1, <1>4
  <2> QED
    BY <2>1, EmptySeq
<1>6. ASSUME NEW n \in Nat, n \in T
      PROVE  n + 1 \in T
  <2> HIDE DEF upTo
  <2>1. SUFFICES ASSUME n + 1 <= Len(traj) PROVE upTo[n + 1] \in Seq(Nat \ {0})
    OBVIOUS
  <2>2. n + 1 \in 0..Len(traj) /\ n + 1 # 0 /\ n + 1 - 1 = n /\ n + 1 \in Nat \ {0}
    BY <1>1, <2>1
  <2>3. upTo[n + 1] = IF traj[n + 1].to = r THEN Append(upTo[n], n + 1) ELSE upTo[n]
    BY <1>4, <2>2
  <2>4. upTo[n] \in Seq(Nat \ {0})
    BY <1>1, <1>6, <2>1
  <2> QED
    BY <2>2, <2>3, <2>4
<1>7. \A n \in Nat : n \in T
  <2> HIDE DEF T
  <2> QED
    BY <1>5, <1>6, SetInduction
<1>8. Lists(upTo, traj, r, Len(traj))
  <2>1. upTo \in [0..Len(traj) -> Seq(Nat \ {0})]
    <3>1. upTo = [n \in 0..Len(traj) |-> upTo[n]]
      <4> HIDE DEF upTo
      <4> QED
        BY <1>3
    <3>2. \A n \in 0..Len(traj) : upTo[n] \in Seq(Nat \ {0})
      <4> HIDE DEF upTo
      <4> QED
        BY <1>1, <1>7
    <3> HIDE DEF upTo
    <3> QED
      BY <3>1, <3>2
  <2> HIDE DEF upTo
  <2>2. upTo[0] = <<>>
    BY <1>1, <1>4
  <2>3. ASSUME NEW i \in 1..Len(traj)
        PROVE  upTo[i] = IF traj[i].to = r THEN Append(upTo[i - 1], i) ELSE upTo[i - 1]
    <3>1. i \in 0..Len(traj) /\ i # 0
      BY <1>1
    <3> QED
      BY <1>4, <3>1
  <2> QED
    BY <2>1, <2>2, <2>3 DEF Lists
<1>9. AddressedTo(traj, r) = upTo[Len(traj)]
  BY DEF AddressedTo
<1> QED
  BY <1>8, <1>9

\* AddressedTo lists positions.
LEMMA AddressedToType ==
  ASSUME NEW traj \in Seq(Message), NEW r
  PROVE  AddressedTo(traj, r) \in Seq(Nat \ {0})
<1>1. PICK g : Lists(g, traj, r, Len(traj)) /\ AddressedTo(traj, r) = g[Len(traj)]
  BY AddressedToLists
<1> QED
  BY <1>1 DEF Lists

\* One more message adds its position if it is for r.
LEMMA AddressedToAppend ==
  ASSUME NEW traj \in Seq(Message), NEW m \in Message, NEW r
  PROVE  AddressedTo(Append(traj, m), r) =
           IF m.to = r THEN AddressedTo(traj, r) \o <<Len(traj) + 1>>
           ELSE AddressedTo(traj, r)
<1> DEFINE longer == Append(traj, m)
           L == Len(traj)
<1>1. /\ longer \in Seq(Message) /\ Len(longer) = L + 1 /\ L \in Nat
      /\ longer[L + 1] = m
      /\ \A i \in 1..L : traj[i] = longer[i]
  BY AppendProperties
<1>2. PICK g : Lists(g, traj, r, L) /\ AddressedTo(traj, r) = g[L]
  BY AddressedToLists
<1>3. PICK f : Lists(f, longer, r, L + 1) /\ AddressedTo(longer, r) = f[L + 1]
  BY <1>1, AddressedToLists
<1>4. g[L] = f[L]
  <2> HIDE DEF longer
  <2> QED
    BY <1>1, <1>2, <1>3, ListsAgree
<1>5. f[L + 1] = IF m.to = r THEN Append(f[L], L + 1) ELSE f[L]
  BY <1>1, <1>3 DEF Lists
<1>6. g[L] \in Seq(Nat \ {0}) /\ L + 1 \in Nat \ {0}
  BY <1>1, <1>2 DEF Lists
<1>7. Append(g[L], L + 1) = g[L] \o <<L + 1>>
  BY <1>6, AppendIsConcat
<1> QED
  BY <1>2, <1>3, <1>4, <1>5, <1>7

-----------------------------------------------------------------------------
(* Types.                                                                  *)

\* What a participant answers is a message of its own, routed by its kind.
LEMMA AnswersFacts ==
  ASSUME NEW p \in Participants, NEW m \in Answers(p)
  PROVE  /\ m \in Message
         /\ m.from = p /\ m.to # p
         /\ m.to = IF IsToolCall(m) THEN "ENV" ELSE Other(p)
BY DEF Answers, Message, Addressed, Role, Participants, Other, IsToolCall

\* The verdict of a turn is typed, and is no error of the environment.
LEMMA ConcludeType ==
  ASSUME NEW m, NEW isDone \in BOOLEAN, NEW reason \in Reasons \cup {"NONE"},
         Conclude(m, isDone, reason)
  PROVE  done' \in BOOLEAN /\ termination_reason' \in Reasons \cup {"NONE"}
BY DEF Conclude, ErrorReason, Reasons, ErrorReasons, CommunicationError, ValidateCommunication

\* Every variable keeps to its type: the environment's turn finds a message.
LEMMA TypeStep == TypeOK /\ RoutingInv /\ [Next]_vars => TypeOK'
<1> SUFFICES ASSUME TypeOK, RoutingInv, [Next]_vars PROVE TypeOK'
  OBVIOUS
<1> USE LimitsAssumption DEF TypeOK
<1>1. CASE InitializeFresh
  <2> DEFINE first == [from |-> "AGENT", to |-> "USER", text |-> "plain", calls |-> 0]
  <2>1. first \in Message
    BY DEF Message, Role, Participants, Texts
  <2>2. Conclude(first, FALSE, "NONE") /\ Send(first)
    BY <1>1 DEF InitializeFresh
  <2>3. done' \in BOOLEAN /\ termination_reason' \in Reasons \cup {"NONE"}
    BY <2>2, ConcludeType
  <2> QED
    BY <1>1, <2>1, <2>2, <2>3 DEF InitializeFresh, AfterInitialize, Send, Role, Participants
<1>2. CASE InitializeSolo
  <2>1. PICK a \in Answers("AGENT") :
          LET m == IF IsStop(a) THEN [a EXCEPT !.to = "USER"] ELSE a
          IN  /\ Send(m)
              /\ Conclude(m, IsStop(m) \/ SoloTalk(m),
                          IF IsStop(m) THEN "AGENT_STOP"
                          ELSE IF SoloTalk(m) THEN "AGENT_ERROR" ELSE "NONE")
    BY <1>2 DEF InitializeSolo
  <2> DEFINE m == IF IsStop(a) THEN [a EXCEPT !.to = "USER"] ELSE a
             reason == IF IsStop(m) THEN "AGENT_STOP"
                       ELSE IF SoloTalk(m) THEN "AGENT_ERROR" ELSE "NONE"
  <2>2. m \in Message
    BY AnswersFacts DEF Participants, Role, Message
  <2>3. reason \in Reasons \cup {"NONE"} /\ (IsStop(m) \/ SoloTalk(m)) \in BOOLEAN
    BY DEF Reasons, ErrorReasons, IsStop, SoloTalk
  <2>4. done' \in BOOLEAN /\ termination_reason' \in Reasons \cup {"NONE"}
    <3> HIDE DEF m, reason
    <3> QED BY <2>1, <2>3, ConcludeType DEF m, reason
  <2>5. Send(m)
    BY <2>1
  <2> QED
    <3> HIDE DEF m
    <3> QED BY <1>2, <2>2, <2>4, <2>5 DEF InitializeSolo, AfterInitialize, Send, Message
<1>3. CASE InitializeHistory
  <2>1. PICK h \in Histories[SoloMode] \ {<<>>} :
          /\ trajectory' = h
          /\ message' = <<Len(h)>>
          /\ from_role' = h[Len(h)].from /\ to_role' = h[Len(h)].to
          /\ inbox' = [p \in Participants |-> AddressedTo(SubSeq(h, 1, Len(h) - 1), p)]
          /\ Conclude(h[Len(h)], IsStop(h[Len(h)]) /\ h[Len(h)].from \in Participants,
                      IF IsStop(h[Len(h)]) /\ h[Len(h)].from \in Participants
                      THEN StopReason(h[Len(h)].from) ELSE "NONE")
    BY <1>3 DEF InitializeHistory
  <2>2. h \in Seq(Message) /\ Len(h) \in Nat \ {0} /\ h[Len(h)] \in Message
    BY HistoryAssumption, ModeAssumption DEF SoloMode
  <2>3. inbox' \in [Participants -> Seq(Nat \ {0})]
    <3>1. SubSeq(h, 1, Len(h) - 1) \in Seq(Message)
      BY <2>2
    <3> QED
      BY <2>1, <3>1, AddressedToType
  <2>4. done' \in BOOLEAN /\ termination_reason' \in Reasons \cup {"NONE"}
    BY <2>1, ConcludeType DEF StopReason, Reasons, IsStop
  <2> QED
    BY <1>3, <2>1, <2>2, <2>3, <2>4 DEF InitializeHistory, AfterInitialize, Message
<1>4. CASE InitializeRaises
  BY <1>4 DEF InitializeRaises, control, route
<1>5. ASSUME NEW p \in Participants, ParticipantTurn(p) PROVE TypeOK'
  <2>1. PICK m \in Answers(p) :
          /\ Send(m)
          /\ LET talk == p = "AGENT" /\ SoloTalk(m)
             IN  Conclude(m, done \/ IsStop(m) \/ talk,
                          IF talk THEN "AGENT_ERROR"
                          ELSE IF IsStop(m) THEN StopReason(p) ELSE termination_reason)
    BY <1>5 DEF ParticipantTurn
  <2>2. done' \in BOOLEAN /\ termination_reason' \in Reasons \cup {"NONE"}
    BY <2>1, ConcludeType DEF StopReason, Reasons, ErrorReasons, IsStop, SoloTalk
  <2>3. inbox' \in [Participants -> Seq(Nat \ {0})]
    BY <1>5 DEF ParticipantTurn, Deliver
  <2> QED
    BY <1>5, <2>1, <2>2, <2>3, AnswersFacts
       DEF ParticipantTurn, EndOfStep, Send, Message
<1>6. CASE ParticipantRaises
  BY <1>6 DEF ParticipantRaises, control, route
<1>7. CASE EnvironmentTurn
  <2> DEFINE call == trajectory[message[1]]
             answer == [from |-> "ENV", to |-> from_role, text |-> "plain", calls |-> 0]
  <2>1. answer \in Message /\ call.calls \in 0..MaxCalls
    <3>1. message[1] = Len(trajectory) /\ Len(trajectory) \in 1..Len(trajectory)
      <4>1. trajectory # <<>> /\ from_role \in Participants
        BY <1>7 DEF EnvironmentTurn, RoutingInv, MessageInHand
      <4>2. Len(trajectory) \in Nat \ {0}
        BY <4>1, EmptySeq
      <4>3. Len(message) = 1 /\ 1 \in 1..Len(message)
        BY <4>1 DEF RoutingInv, MessageInHand
      <4>4. message[1] = Len(trajectory) - 1 + 1
        BY <4>1, <4>3 DEF RoutingInv, MessageInHand
      <4> QED
        BY <4>2, <4>4
    <3>2. call \in Message
      BY <3>1
    <3> QED
      BY <1>7, <3>2 DEF EnvironmentTurn, Message, Texts, Role
  <2>2. trajectory' \in Seq(Message) /\ message' \in Seq(Nat \ {0})
    <3>1. [k \in 1..call.calls |-> answer] \in Seq(Message)
      BY <2>1, FunctionIsSeq
    <3>2. [k \in 1..call.calls |-> Len(trajectory) + k] \in Seq(Nat \ {0})
      <4>1. call.calls \in Nat /\ Len(trajectory) \in Nat
        BY <2>1
      <4> HIDE DEF call
      <4> QED
        BY <4>1, PositionsSeq
    <3> QED
      BY <1>7, <3>1, <3>2, ConcatProperties DEF EnvironmentTurn
  <2>3. num_errors' \in Nat
    BY <1>7, <2>1 DEF EnvironmentTurn
  <2> QED
    BY <1>7, <2>2, <2>3 DEF EnvironmentTurn, EndOfStep, Role
<1>8. CASE CheckTermination
  BY <1>8 DEF CheckTermination, route, Reasons, OutOfSteps, OutOfErrors
<1>9. CASE Finalize
  <2>1. \A p \in Participants : inbox[p] \o message \in Seq(Nat \ {0})
    BY ConcatProperties
  <2>3. inbox' \in [Participants -> Seq(Nat \ {0})]
    BY <1>9, <2>1 DEF Finalize, Deliver
  <2>2. stops' \in [Participants -> Nat]
    BY <1>9 DEF Finalize, StopBoth
  <2> QED
    BY <1>9, <2>2, <2>3 DEF Finalize, control, route
<1>10. CASE Cleanup
  BY <1>10 DEF Cleanup, StopBoth, control, route
<1>11. CASE UNCHANGED vars
  BY <1>11 DEF vars, control, route
<1> QED
  BY <1>1, <1>2, <1>3, <1>4, <1>5, <1>6, <1>7, <1>8, <1>9, <1>10, <1>11
     DEF Next, Initialize, Step, Ended

-----------------------------------------------------------------------------
(* What the steps that change the trajectory do to it.                     *)

\* A message sent is the last of the trajectory, and the one in hand.
LEMMA SendEffect ==
  ASSUME TypeOK, NEW m \in Message, Send(m)
  PROVE  /\ Len(trajectory) \in Nat /\ Len(trajectory') = Len(trajectory) + 1
         /\ \A i \in 1..Len(trajectory) : trajectory'[i] = trajectory[i]
         /\ trajectory'[Len(trajectory) + 1] = m /\ Last(trajectory') = m
         /\ trajectory' # <<>> /\ trajectory' = Append(trajectory, m)
         /\ message' = <<Len(trajectory) + 1>>
         /\ Len(message') = 1 /\ message'[1] = Len(trajectory) + 1
         /\ from_role' = m.from /\ to_role' = m.to
<1>1. trajectory \in Seq(Message) /\ trajectory' = Append(trajectory, m)
  BY DEF TypeOK, Send
<1>2. /\ Len(trajectory) \in Nat /\ Len(trajectory') = Len(trajectory) + 1
      /\ \A i \in 1..Len(trajectory) : trajectory'[i] = trajectory[i]
      /\ trajectory'[Len(trajectory) + 1] = m /\ trajectory' # <<>>
  BY <1>1, AppendProperties
<1>3. message' = <<Len(trajectory) + 1>> /\ from_role' = m.from /\ to_role' = m.to
  BY DEF Send
<1> QED
  BY <1>1, <1>2, <1>3 DEF Last

\* The environment answers the call at the end of the trajectory.
LEMMA EnvironmentEffect ==
  ASSUME TypeOK, RoutingInv, EnvironmentTurn
  PROVE  LET L == Len(trajectory)
             call == Last(trajectory)
             n == call.calls
             answer == [from |-> "ENV", to |-> from_role, text |-> "plain", calls |-> 0]
         IN  /\ L \in Nat \ {0} /\ call \in Message /\ n \in 1..MaxCalls
             /\ call.from = from_role /\ call.to = "ENV" /\ from_role \in Participants
             /\ answer \in Message
             /\ [k \in 1..n |-> answer] \in Seq(Message)
             /\ Len([k \in 1..n |-> answer]) = n
             /\ trajectory' = trajectory \o [k \in 1..n |-> answer]
             /\ Len(trajectory') = L + n
             /\ \A i \in 1..L : trajectory'[i] = trajectory[i]
             /\ \A i \in (L + 1)..(L + n) : trajectory'[i] = answer
             /\ message' = [k \in 1..n |-> L + k] /\ Len(message') = n
             /\ num_errors' \in num_errors..(num_errors + n)
             /\ from_role' = "ENV" /\ to_role' = from_role
<1> DEFINE L == Len(trajectory)
           call == Last(trajectory)
           n == call.calls
           answer == [from |-> "ENV", to |-> from_role, text |-> "plain", calls |-> 0]
<1>1. trajectory \in Seq(Message) /\ L \in Nat \ {0} /\ from_role \in Participants
  <2>1. trajectory # <<>> /\ from_role \in Participants /\ trajectory \in Seq(Message)
    BY DEF EnvironmentTurn, RoutingInv, MessageInHand, TypeOK
  <2> QED
    BY <2>1, EmptySeq
<1>2. message[1] = L /\ call.from = from_role /\ call.to = "ENV"
  <2>1. Len(message) = 1 /\ 1 \in 1..Len(message) /\ trajectory # <<>>
    BY <1>1 DEF RoutingInv, MessageInHand
  <2>2. /\ message[1] = L - 1 + 1
        /\ trajectory[message[1]].from = from_role /\ trajectory[message[1]].to = to_role
    BY <2>1 DEF RoutingInv, MessageInHand
  <2> QED
    BY <1>1, <2>2 DEF EnvironmentTurn, Last
<1>3. trajectory[message[1]] = call
  BY <1>2 DEF Last
<1>4. call \in Message
  BY <1>1 DEF Last
<1>5. n \in 1..MaxCalls /\ n \in Nat
  BY <1>3, <1>4, LimitsAssumption DEF EnvironmentTurn, IsToolCall, Message
<1>6. answer \in Message
  BY <1>1, LimitsAssumption DEF Message, Role, Participants, Texts
<1>7. [k \in 1..n |-> answer] \in Seq(Message) /\ Len([k \in 1..n |-> answer]) = n
  <2> HIDE DEF n, answer
  <2>1. [k \in 1..n |-> answer] \in [1..n -> Message]
    BY <1>6
  <2> QED
    BY <1>5, <2>1, FunctionIsSeq
<1>8. /\ trajectory' = trajectory \o [k \in 1..n |-> answer]
      /\ message' = [k \in 1..n |-> L + k]
      /\ num_errors' \in num_errors..(num_errors + n)
      /\ from_role' = "ENV" /\ to_role' = from_role
  <2>1. PICK failed \in 0..n : num_errors' = num_errors + failed
    BY <1>3 DEF EnvironmentTurn
  <2>2. num_errors' \in num_errors..(num_errors + n)
    BY <1>5, <2>1 DEF TypeOK
  <2> QED
    BY <1>3, <2>2 DEF EnvironmentTurn
<1>9. Len(message') = n
  <2> HIDE DEF n
  <2> QED
    BY <1>1, <1>5, <1>8, PositionsSeq
<1>10. /\ Len(trajectory') = L + n
       /\ \A i \in 1..L : trajectory'[i] = trajectory[i]
       /\ \A i \in (L + 1)..(L + n) : trajectory'[i] = answer
  <2> DEFINE answers == [k \in 1..n |-> answer]
  <2>1. /\ Len(trajectory \o answers) = L + Len(answers)
        /\ \A i \in 1..(L + Len(answers)) : (trajectory \o answers)[i] =
               IF i <= L THEN trajectory[i] ELSE answers[i - L]
    <3> HIDE DEF answers, L
    <3>1. answers \in Seq(Message)
      BY <1>7 DEF answers
    <3> QED
      BY <1>1, <3>1, ConcatProperties DEF L
  <2>2. \A j \in 1..n : answers[j] = answer
    OBVIOUS
  <2>3. Len(answers) = n
    BY <1>7
  <2> HIDE DEF answers, n, L, answer
  <2>4. trajectory' = trajectory \o answers
    BY <1>8 DEF answers
  <2>5. \A i \in (L + 1)..(L + n) : i - L \in 1..n /\ i \in 1..(L + n) /\ ~(i <= L)
    BY <1>1, <1>5
  <2>6. \A i \in 1..L : i <= L /\ i \in 1..(L + n)
    BY <1>1, <1>5
  <2> QED
    BY <2>1, <2>2, <2>3, <2>4, <2>5, <2>6
<1> QED
  BY <1>1, <1>2, <1>4, <1>5, <1>6, <1>7, <1>8, <1>9, <1>10

\* A run that continues a history continues one that calls nothing at its end,
\* whose results all belong to calls.
HistoryTaken(h) ==
  LET last == Last(h)
  IN  /\ h \in Seq(Message) /\ Len(h) \in Nat \ {0} /\ h # <<>> /\ last \in Message
      /\ Replayable(h, SoloMode)
      /\ \A i \in 1..Len(h) : Addressed(h[i])
      /\ ~IsToolCall(last) /\ last.to # last.from /\ last.to \in Participants
      /\ trajectory' = h /\ message' = <<Len(h)>>
      /\ from_role' = last.from /\ to_role' = last.to
      /\ inbox' = [p \in Participants |-> AddressedTo(SubSeq(h, 1, Len(h) - 1), p)]
      /\ Conclude(last, IsStop(last) /\ last.from \in Participants,
                  IF IsStop(last) /\ last.from \in Participants
                  THEN StopReason(last.from) ELSE "NONE")

LEMMA HistoryEffect ==
  ASSUME TypeOK, InitializeHistory
  PROVE  \E h : HistoryTaken(h)
<1>1. PICK h \in Histories[SoloMode] \ {<<>>} :
        /\ Replayable(h, SoloMode)
        /\ trajectory' = h /\ message' = <<Len(h)>>
        /\ from_role' = h[Len(h)].from /\ to_role' = h[Len(h)].to
        /\ inbox' = [p \in Participants |-> AddressedTo(SubSeq(h, 1, Len(h) - 1), p)]
        /\ Conclude(h[Len(h)], IsStop(h[Len(h)]) /\ h[Len(h)].from \in Participants,
                    IF IsStop(h[Len(h)]) /\ h[Len(h)].from \in Participants
                    THEN StopReason(h[Len(h)].from) ELSE "NONE")
  BY DEF InitializeHistory
<1>2. /\ h \in Seq(Message) /\ h # <<>>
      /\ \A i \in 1..Len(h) : Addressed(h[i])
  BY HistoryAssumption, ModeAssumption DEF TypeOK, SoloMode
<1>3. Len(h) \in Nat \ {0}
  BY <1>2, EmptySeq
<1>4. h[Len(h)] \in Message /\ Addressed(h[Len(h)])
  BY <1>2, <1>3
<1>5. ~IsToolCall(h[Len(h)])
  <2>1. SUFFICES ASSUME h[Len(h)].calls > 0, h[Len(h)].from \in Participants PROVE FALSE
    BY <1>4 DEF Addressed, IsToolCall, Message, Role
  <2>2. Answered(h, Len(h)) /\ 1 \in 1..h[Len(h)].calls
    BY <1>1, <1>3, <1>4, <2>1, LimitsAssumption DEF Replayable, Message
  <2> QED
    BY <1>3, <2>2 DEF Answered
<1>6. h[Len(h)].to # h[Len(h)].from /\ h[Len(h)].to \in Participants
  BY <1>4, <1>5 DEF Addressed, Other, Message, Role, Participants
<1> QED
  BY <1>1, <1>2, <1>3, <1>4, <1>5, <1>6 DEF HistoryTaken, Last

\* The message that opens a fresh run: the orchestrator's greeting, or in solo
\* mode the agent's own, sent to the user if it is a stop with tool calls.
Opens(m) ==
  /\ m \in Message /\ m.from = "AGENT" /\ m.to \in {"USER", "ENV"}
  /\ Send(m)
  /\ \/ m.to = "ENV" <=> IsToolCall(m)
     \/ m.to = "USER" /\ IsStop(m) /\ done'
  /\ Conclude(m, IsStop(m) \/ SoloTalk(m),
              IF IsStop(m) THEN "AGENT_STOP"
              ELSE IF SoloTalk(m) THEN "AGENT_ERROR" ELSE "NONE")

LEMMA OpeningEffect ==
  ASSUME TypeOK, InitializeFresh \/ InitializeSolo
  PROVE  \E m : Opens(m)
<1>1. CASE InitializeFresh
  <2> DEFINE first == [from |-> "AGENT", to |-> "USER", text |-> "plain", calls |-> 0]
  <2>1. Send(first) /\ Conclude(first, FALSE, "NONE") /\ ~SoloMode
    BY <1>1 DEF InitializeFresh
  <2>2. first \in Message
    BY LimitsAssumption DEF Message, Role, Participants, Texts
  <2>3. ~IsStop(first) /\ ~SoloTalk(first) /\ ~IsToolCall(first)
    BY <2>1 DEF IsStop, SoloTalk, IsToolCall
  <2> QED
    BY <2>1, <2>2, <2>3 DEF Opens
<1>2. CASE InitializeSolo
  <2>1. PICK a \in Answers("AGENT") :
          LET m == IF IsStop(a) THEN [a EXCEPT !.to = "USER"] ELSE a
          IN  /\ Send(m)
              /\ Conclude(m, IsStop(m) \/ SoloTalk(m),
                          IF IsStop(m) THEN "AGENT_STOP"
                          ELSE IF SoloTalk(m) THEN "AGENT_ERROR" ELSE "NONE")
    BY <1>2 DEF InitializeSolo
  <2> DEFINE m == IF IsStop(a) THEN [a EXCEPT !.to = "USER"] ELSE a
  <2>2. /\ a \in Message /\ a.from = "AGENT"
        /\ a.to = IF IsToolCall(a) THEN "ENV" ELSE "USER"
    BY AnswersFacts DEF Participants, Other
  <2>3. /\ m \in Message /\ m.from = "AGENT" /\ m.text = a.text /\ m.calls = a.calls
        /\ m.to = IF IsStop(a) THEN "USER" ELSE a.to
    BY <2>2 DEF Message, Role, Participants
  <2>4. (IsStop(m) <=> IsStop(a)) /\ (IsToolCall(m) <=> IsToolCall(a))
    BY <2>2, <2>3 DEF IsStop, IsToolCall
  <2>5. /\ Send(m)
        /\ Conclude(m, IsStop(m) \/ SoloTalk(m),
                    IF IsStop(m) THEN "AGENT_STOP"
                    ELSE IF SoloTalk(m) THEN "AGENT_ERROR" ELSE "NONE")
    BY <2>1
  <2>6. IsStop(m) => done'
    BY <2>5 DEF Conclude
  <2> HIDE DEF m
  <2> QED
    BY <2>2, <2>3, <2>4, <2>5, <2>6 DEF Opens
<1> QED
  BY <1>1, <1>2

-----------------------------------------------------------------------------
(* Routing.                                                                *)

\* Sending a message keeps the routing, if it was routed by its kind and the
\* results before it call nothing.
LEMMA SendKeepsRouting ==
  ASSUME TypeOK, RoutedByKind, NEW m \in Message, Send(m), m.from \in Participants, m.to # m.from,
         pc' # "init",
         \/ m.to = "ENV" <=> IsToolCall(m)
         \/ /\ trajectory = <<>> /\ m.to = "USER" /\ IsStop(m)
            /\ pc' \notin {"loop", "check"}
  PROVE  MessageInHand' /\ RoutedByKind'
<1> DEFINE L == Len(trajectory)
<1>1. /\ L \in Nat /\ Len(trajectory') = L + 1
      /\ \A i \in 1..L : trajectory'[i] = trajectory[i]
      /\ trajectory'[L + 1] = m /\ Last(trajectory') = m
      /\ trajectory' # <<>>
      /\ Len(message') = 1 /\ message'[1] = L + 1
      /\ from_role' = m.from /\ to_role' = m.to
  BY SendEffect
<1>2. MessageInHand'
  BY <1>1 DEF MessageInHand
<1>3. \A i \in 1..Len(trajectory') : trajectory'[i].from = "ENV" => ~IsToolCall(trajectory'[i])
  <2>1. ASSUME NEW i \in 1..(L + 1), trajectory'[i].from = "ENV"
        PROVE  ~IsToolCall(trajectory'[i])
    BY <1>1, <2>1 DEF RoutedByKind, Participants
  <2> QED
    BY <1>1, <2>1
<1>4. trajectory = <<>> => L = 0
  BY EmptySeq
<1>5. RoutedByKind'
  BY <1>1, <1>3, <1>4 DEF RoutedByKind, Participants
<1> QED
  BY <1>2, <1>5

\* Every step leaves a message in hand that is routed by its kind.
LEMMA RoutingStep == TypeOK /\ RoutingInv /\ [Next]_vars => RoutingInv'
<1> SUFFICES ASSUME TypeOK, RoutingInv, [Next]_vars PROVE RoutingInv'
  OBVIOUS
<1> USE DEF RoutingInv
<1>1. CASE InitializeFresh \/ InitializeSolo
  <2>1. PICK m : Opens(m)
    BY <1>1, OpeningEffect
  <2>2. /\ pc = "init" /\ trajectory = <<>>
        /\ pc' \in {"aborted", IF done' THEN "finalize" ELSE "loop"}
    BY <1>1 DEF InitializeFresh, InitializeSolo, AfterInitialize, MessageInHand
  <2>3. MessageInHand' /\ RoutedByKind'
    BY <2>1, <2>2, SendKeepsRouting DEF Opens, Participants
  <2> QED
    BY <2>2, <2>3 DEF NotDoneYet
<1>2. CASE InitializeHistory
  <2>1. PICK h : HistoryTaken(h)
    BY <1>2, HistoryEffect
  <2>2. pc' \in {"aborted", IF done' THEN "finalize" ELSE "loop"}
    BY <1>2 DEF InitializeHistory, AfterInitialize
  <2>3. MessageInHand'
    BY <2>1, <2>2 DEF HistoryTaken, MessageInHand, Last
  <2>4. RoutedByKind'
    <3>1. ASSUME NEW i \in 1..Len(h), h[i].from = "ENV" PROVE ~IsToolCall(h[i])
      BY <2>1, <3>1 DEF HistoryTaken, Addressed
    <3> QED
      BY <2>1, <3>1 DEF HistoryTaken, RoutedByKind, Participants
  <2> QED
    BY <2>2, <2>3, <2>4 DEF NotDoneYet
<1>3. CASE InitializeRaises
  BY <1>3 DEF InitializeRaises, control, route, MessageInHand, RoutedByKind, NotDoneYet
<1>4. ASSUME NEW p \in Participants, ParticipantTurn(p) PROVE RoutingInv'
  <2>1. PICK m \in Answers(p) : Send(m)
    BY <1>4 DEF ParticipantTurn
  <2>2. pc' \in {"check", "cleanup"}
    BY <1>4 DEF ParticipantTurn, EndOfStep
  <2>3. m \in Message /\ m.from \in Participants /\ m.to # m.from
        /\ (m.to = "ENV" <=> IsToolCall(m))
    BY AnswersFacts DEF Participants, Other
  <2>4. MessageInHand' /\ RoutedByKind'
    BY <2>1, <2>2, <2>3, SendKeepsRouting
  <2> QED
    BY <2>2, <2>4 DEF NotDoneYet
<1>5. CASE ParticipantRaises
  BY <1>5 DEF ParticipantRaises, control, route, MessageInHand, RoutedByKind, NotDoneYet
<1>6. CASE EnvironmentTurn
  <2> DEFINE L == Len(trajectory)
             n == Last(trajectory).calls
             answer == [from |-> "ENV", to |-> from_role, text |-> "plain", calls |-> 0]
  <2>1. /\ L \in Nat \ {0} /\ n \in Nat \ {0} /\ from_role \in Participants
        /\ Len(trajectory') = L + n
        /\ \A i \in 1..L : trajectory'[i] = trajectory[i]
        /\ \A i \in (L + 1)..(L + n) : trajectory'[i] = answer
        /\ message' = [k \in 1..n |-> L + k] /\ Len(message') = n
        /\ from_role' = "ENV" /\ to_role' = from_role
    BY <1>6, EnvironmentEffect, LimitsAssumption
  <2>2. pc' \in {"check", "cleanup"}
    BY <1>6 DEF EnvironmentTurn, EndOfStep
  <2>3. answer.from = "ENV" /\ answer.to = from_role /\ ~IsToolCall(answer)
    BY DEF IsToolCall
  <2> HIDE DEF L, n, answer
  <2>4. trajectory' # <<>>
    <3>1. Len(<<>>) = 0
      OBVIOUS
    <3> QED
      BY <2>1, <3>1
  <2>5. Last(trajectory') = answer
    BY <2>1 DEF Last
  <2>6. \A k \in 1..n : message'[k] = L + k /\ trajectory'[message'[k]] = answer
    BY <2>1
  <2>7. MessageInHand'
    BY <2>1, <2>2, <2>3, <2>4, <2>6 DEF MessageInHand, Participants
  <2>8. ASSUME NEW i \in 1..(L + n), trajectory'[i].from = "ENV"
        PROVE  ~IsToolCall(trajectory'[i])
    BY <2>1, <2>3, <2>8 DEF RoutedByKind, L
  <2>9. RoutedByKind'
    BY <2>1, <2>3, <2>4, <2>5, <2>8 DEF RoutedByKind, Participants
  <2> QED
    BY <2>2, <2>7, <2>9 DEF NotDoneYet
<1>7. CASE CheckTermination
  BY <1>7 DEF CheckTermination, route, MessageInHand, RoutedByKind, NotDoneYet
<1>8. CASE Finalize
  BY <1>8 DEF Finalize, control, route, MessageInHand, RoutedByKind, NotDoneYet
<1>9. CASE Cleanup
  BY <1>9 DEF Cleanup, control, route, MessageInHand, RoutedByKind, NotDoneYet
<1>10. CASE UNCHANGED vars
  BY <1>10 DEF vars, control, route, MessageInHand, RoutedByKind, NotDoneYet
<1> QED
  BY <1>1, <1>2, <1>3, <1>4, <1>5, <1>6, <1>7, <1>8, <1>9, <1>10
     DEF Next, Initialize, Step, Ended

\* The loop's invariant holds from the start.
LEMMA RoutingInit == Init => TypeOK /\ RoutingInv
<1> SUFFICES ASSUME Init PROVE TypeOK /\ RoutingInv
  OBVIOUS
<1>1. TypeOK
  <2>1. <<>> \in Seq(Nat \ {0}) /\ <<>> \in Seq(Message)
    BY EmptySeq
  <2> QED
    BY <2>1 DEF Init, TypeOK, Role, Participants
<1>2. RoutingInv
  BY DEF Init, RoutingInv, MessageInHand, RoutedByKind, NotDoneYet, Participants
<1> QED
  BY <1>1, <1>2

LEMMA RoutingCorrect == Spec => [](TypeOK /\ RoutingInv)
<1>1. Init => TypeOK /\ RoutingInv
  BY RoutingInit
<1>2. TypeOK /\ RoutingInv /\ [Next]_vars => (TypeOK /\ RoutingInv)'
  BY TypeStep, RoutingStep
<1> QED
  BY <1>1, <1>2, PTL DEF Spec

\* Every variable of the orchestrator keeps to its type: no step of run() reads
\* a message that is not there.
THEOREM TypeCorrect == Spec => []TypeOK
BY RoutingCorrect, PTL

\* The branches of step() that raise on an invalid combination of roles and on a
\* turn of the environment without a tool call are dead, from every history that
\* set_state lets through.
THEOREM Routing == Spec => []RoutingSound
<1>1. TypeOK /\ RoutingInv => RoutingSound
  <2> SUFFICES ASSUME TypeOK, RoutingInv, pc \in {"loop", "check"}
               PROVE  /\ from_role # to_role
                      /\ message # <<>>
                      /\ message[Len(message)] = Len(trajectory)
                      /\ \A k \in 1..Len(message) : trajectory[message[k]].to = to_role
                      /\ \A k \in 1..Len(message) : trajectory[message[k]].from = from_role
                      /\ to_role = "ENV" <=> IsToolCall(trajectory[message[1]])
    BY DEF RoutingSound
  <2>1. trajectory # <<>> /\ from_role # to_role
    BY DEF RoutingInv, MessageInHand, RoutedByKind
  <2>2. Len(message) \in 1..Len(trajectory) /\ Len(message) \in Nat /\ Len(trajectory) \in Nat
    BY <2>1 DEF RoutingInv, MessageInHand, TypeOK
  <2>3. \A k \in 1..Len(message) :
          /\ message[k] = Len(trajectory) - Len(message) + k
          /\ trajectory[message[k]].to = to_role /\ trajectory[message[k]].from = from_role
    BY <2>1 DEF RoutingInv, MessageInHand
  <2>4. message[Len(message)] = Len(trajectory) /\ message # <<>>
    BY <2>2, <2>3
  <2>5. to_role = "ENV" <=> IsToolCall(trajectory[message[1]])
    <3>1. to_role = "ENV" <=> IsToolCall(Last(trajectory))
      BY <2>1 DEF RoutingInv, RoutedByKind
    <3>2. CASE to_role = "ENV"
      BY <2>1, <2>4, <3>1, <3>2 DEF RoutingInv, MessageInHand, RoutedByKind, Last
    <3>3. CASE to_role # "ENV"
      <4>1. CASE from_role = "ENV"
        <5>1. 1 \in 1..Len(message) /\ message[1] = Len(trajectory) - Len(message) + 1
          BY <2>2, <2>3
        <5>2. message[1] \in 1..Len(trajectory) /\ trajectory[message[1]].from = "ENV"
          BY <2>2, <2>3, <4>1, <5>1
        <5> QED
          BY <3>3, <5>2 DEF RoutingInv, RoutedByKind
      <4>2. CASE from_role # "ENV"
        <5>1. Len(message) = 1
          BY <2>1, <4>2 DEF RoutingInv, MessageInHand, TypeOK, Role
        <5> QED
          BY <2>4, <3>1, <3>3, <5>1 DEF Last
      <4> QED
        BY <4>1, <4>2
    <3> QED
      BY <3>2, <3>3
  <2> QED
    BY <2>1, <2>3, <2>4, <2>5
<1> QED
  BY <1>1, RoutingCorrect, PTL

-----------------------------------------------------------------------------
(* The orchestrator implements the dialogue.                               *)

\* A step of the orchestrator is a step of the dialogue or leaves it alone.
LEMMA DialogueStep ==
  TypeOK /\ RoutingInv /\ RoutingInv' /\ [Next]_vars => [Abstract!Next]_(Abstract!vars)
<1> SUFFICES ASSUME TypeOK, RoutingInv, RoutingInv', [Next]_vars
             PROVE  Abstract!Next \/ UNCHANGED Abstract!vars
  OBVIOUS
<1> USE DEF Abstract!Next, Abstract!vars, Participants
<1>1. CASE InitializeFresh \/ InitializeSolo
  <2>1. PICK m : Opens(m)
    BY <1>1, OpeningEffect
  <2>2. pc = "init" /\ pc' \in {"aborted", IF done' THEN "finalize" ELSE "loop"}
    BY <1>1 DEF InitializeFresh, InitializeSolo, AfterInitialize
  <2>3. from_role' = "AGENT" /\ to_role' \in {"USER", "ENV"}
    BY <2>1 DEF Opens, Send
  <2>4. Abstract!Open
    BY <2>2, <2>3 DEF Abstract!Open
  <2> QED
    BY <2>4
<1>2. CASE InitializeHistory
  <2>1. PICK h : HistoryTaken(h)
    BY <1>2, HistoryEffect
  <2>2. pc = "init" /\ pc' \in {"aborted", IF done' THEN "finalize" ELSE "loop"}
    BY <1>2 DEF InitializeHistory, AfterInitialize
  <2>3. to_role' \in Participants
    BY <2>1 DEF HistoryTaken
  <2>4. Abstract!Open
    BY <2>2, <2>3 DEF Abstract!Open
  <2> QED
    BY <2>4
<1>3. CASE InitializeRaises
  <2>1. Abstract!Close
    BY <1>3 DEF InitializeRaises, control, route, Abstract!Close
  <2> QED
    BY <2>1
<1>4. ASSUME NEW p \in Participants, ParticipantTurn(p) PROVE Abstract!Next
  <2>1. PICK m \in Answers(p) : Send(m)
    BY <1>4 DEF ParticipantTurn
  <2>2. pc = "loop" /\ ~done /\ to_role = p /\ pc' \in {"check", "cleanup"}
    BY <1>4 DEF ParticipantTurn, EndOfStep, RoutingInv, NotDoneYet
  <2>3. from_role' = p /\ to_role' = m.to /\ m.to \in {"ENV", Other(p)}
    BY <2>1, AnswersFacts DEF Send
  <2>4. Other(p) \in Participants \ {p}
    BY DEF Other
  <2>5. Abstract!Speak(p)
    BY <2>2, <2>3, <2>4 DEF Abstract!Speak
  <2> QED
    BY <2>5
<1>5. CASE ParticipantRaises
  <2>1. Abstract!Close
    BY <1>5 DEF ParticipantRaises, control, route, Abstract!Close, RoutingInv, NotDoneYet
  <2> QED
    BY <2>1
<1>6. CASE EnvironmentTurn
  <2>1. Abstract!Answer
    BY <1>6 DEF EnvironmentTurn, EndOfStep, Abstract!Answer, RoutingInv, NotDoneYet
  <2> QED
    BY <2>1
<1>7. CASE CheckTermination
  <2>1. CASE ~done /\ done'
    <3>1. Abstract!Close
      BY <1>7, <2>1 DEF CheckTermination, route, Abstract!Close
    <3> QED
      BY <3>1
  <2>2. CASE done \/ ~done'
    BY <1>7, <2>2 DEF CheckTermination, route, TypeOK
  <2> QED
    BY <2>1, <2>2
<1>8. CASE Finalize
  BY <1>8 DEF Finalize, control, route, RoutingInv, NotDoneYet
<1>9. CASE Cleanup
  BY <1>9 DEF Cleanup, control, route
<1>10. CASE UNCHANGED vars
  BY <1>10 DEF vars, control, route
<1> QED
  BY <1>1, <1>2, <1>3, <1>4, <1>5, <1>6, <1>7, <1>8, <1>9, <1>10
     DEF Next, Initialize, Step, Ended

\* Only the holder of the floor speaks; text passes the floor on, tool calls pass
\* it to the environment, which hands it back to its caller; and a dialogue once
\* closed stays as it is.
THEOREM Implementation == Spec => Abstract!Safety
<1>1. Init => Abstract!Init
  BY DEF Init, Abstract!Init, Participants
<1>2. TypeOK /\ RoutingInv /\ (TypeOK /\ RoutingInv)' /\ [Next]_vars
        => [Abstract!Next]_(Abstract!vars)
  BY DialogueStep
<1> QED
  BY <1>1, <1>2, RoutingCorrect, PTL DEF Spec, Abstract!Safety

-----------------------------------------------------------------------------
(* Tool calls and their results.                                           *)

\* What ToolResultsPaired says of one position of a trajectory.
CallSettled(traj, i) ==
  IsToolCall(traj[i]) /\ i < Len(traj) =>
    /\ Answered(traj, i)
    /\ i + traj[i].calls < Len(traj) => traj[i + traj[i].calls + 1].from # "ENV"

\* Where a longer trajectory agrees with a shorter one, what was settled stays
\* so, as long as no result follows the last one.
LEMMA SettledStays ==
  ASSUME NEW t \in Seq(Message), NEW u \in Seq(Message), Len(t) < Len(u),
         \A i \in 1..Len(t) : u[i] = t[i],
         NEW i \in 1..Len(t), i < Len(t), CallSettled(t, i),
         i + t[i].calls = Len(t) => u[Len(t) + 1].from # "ENV"
  PROVE  CallSettled(u, i)
<1> DEFINE n == t[i].calls
<1>1. SUFFICES ASSUME IsToolCall(t[i]) PROVE CallSettled(u, i)
  BY DEF CallSettled
<1>2. /\ n \in 1..MaxCalls /\ i \in Nat /\ Len(t) \in Nat /\ Len(u) \in Nat
      /\ u[i] = t[i]
  <2>1. t[i] \in Message
    BY ElementOfSeq
  <2>2. n \in 0..MaxCalls
    BY <2>1 DEF Message
  <2> QED
    BY <1>1, <2>2, LimitsAssumption DEF IsToolCall
<1>3. \A k \in 1..n : i + k <= Len(t) /\ t[i + k].from = "ENV" /\ t[i + k].to = t[i].from
  BY <1>1 DEF CallSettled, Answered
<1>4. ASSUME NEW k \in 1..n
      PROVE  i + k \in 1..Len(t) /\ u[i + k] = t[i + k]
  <2>1. i + k \in 1..Len(t)
    <3> HIDE DEF n
    <3> QED
      BY <1>2, <1>3
  <2> QED
    BY <2>1
<1>5. i + n <= Len(t)
  BY <1>2, <1>3, LimitsAssumption
<1>6. Answered(u, i)
  <2>1. \A k \in 1..n : i + k <= Len(u)
    BY <1>2, <1>3
  <2> QED
    BY <1>2, <1>3, <1>4, <2>1 DEF Answered
<1>7. u[i + n + 1].from # "ENV"
  <2>1. CASE i + n < Len(t)
    <3>1. i + n + 1 \in 1..Len(t) /\ t[i + n + 1].from # "ENV"
      BY <1>1, <1>2, <2>1 DEF CallSettled
    <3> QED
      BY <3>1
  <2>2. CASE i + n = Len(t)
    BY <2>2
  <2> QED
    BY <1>2, <1>5, <2>1, <2>2
<1> QED
  BY <1>2, <1>6, <1>7 DEF CallSettled

\* Results that answer a call go on doing so.
LEMMA AnswersStay ==
  ASSUME NEW t \in Seq(Message), NEW u \in Seq(Message),
         \A i \in 1..Len(t) : u[i] = t[i],
         NEW i \in 1..Len(t), AnswersCall(t, i)
  PROVE  AnswersCall(u, i)
<1>1. PICK j \in 1..(i - 1) : i \in (j + 1)..(j + t[j].calls)
  BY DEF AnswersCall
<1>2. j \in 1..Len(t)
  BY <1>1
<1> QED
  BY <1>1, <1>2 DEF AnswersCall

\* A message of a participant settles nothing and breaks nothing, if no call is
\* pending.
LEMMA SendKeepsPairs ==
  ASSUME TypeOK, ToolResultsPaired, NEW m \in Message, Send(m), m.from \in Participants,
         trajectory # <<>> => ~IsToolCall(Last(trajectory)),
         trajectory' \in Seq(Message)
  PROVE  ToolResultsPaired'
<1> DEFINE L == Len(trajectory)
<1>1. /\ L \in Nat /\ Len(trajectory') = L + 1
      /\ \A i \in 1..L : trajectory'[i] = trajectory[i]
      /\ trajectory'[L + 1] = m
      /\ trajectory \in Seq(Message)
  BY SendEffect DEF TypeOK
<1>2. ASSUME NEW i \in 1..L PROVE CallSettled(trajectory', i)
  <2>1. CASE i = L
    <3>1. trajectory # <<>> /\ trajectory[i] = Last(trajectory)
      BY <2>1, EmptySeq DEF Last
    <3>2. ~IsToolCall(trajectory'[i])
      BY <1>1, <3>1
    <3> QED
      BY <3>2 DEF CallSettled
  <2>2. CASE i # L
    <3>1. i < L
      BY <1>1, <2>2
    <3>2. CallSettled(trajectory, i)
      BY DEF ToolResultsPaired, CallSettled
    <3>3. trajectory'[L + 1].from # "ENV"
      BY <1>1 DEF Participants
    <3> QED
      BY <1>1, <3>1, <3>2, <3>3, SettledStays
  <2> QED
    BY <2>1, <2>2
<1>3. ASSUME NEW i \in 1..L, trajectory'[i].from = "ENV" PROVE AnswersCall(trajectory', i)
  <2>1. AnswersCall(trajectory, i)
    BY <1>1, <1>3 DEF ToolResultsPaired
  <2> QED
    BY <1>1, <2>1, AnswersStay
<1>4. ASSUME NEW i \in 1..(L + 1)
      PROVE  /\ CallSettled(trajectory', i)
             /\ trajectory'[i].from = "ENV" => AnswersCall(trajectory', i)
  <2>1. CASE i = L + 1
    BY <1>1, <2>1 DEF CallSettled, Participants
  <2>2. CASE i \in 1..L
    BY <1>2, <1>3, <2>2
  <2> QED
    BY <1>1, <2>1, <2>2
<1> QED
  BY <1>1, <1>4 DEF ToolResultsPaired, CallSettled

\* A history that is let through has its calls paired: behind the results of one
\* stands no result, since it would answer a call made by a result.
LEMMA HistoryPaired ==
  ASSUME NEW h \in Seq(Message), NEW solo, Replayable(h, solo),
         \A i \in 1..Len(h) : Addressed(h[i]),
         NEW i \in 1..Len(h)
  PROVE  /\ CallSettled(h, i)
         /\ h[i].from = "ENV" => AnswersCall(h, i)
<1>1. ASSUME NEW k \in 1..Len(h) PROVE h[k] \in Message /\ h[k].calls \in Nat
  <2>1. h[k] \in Message
    BY ElementOfSeq
  <2> QED
    BY <2>1, LimitsAssumption DEF Message
<1>2. h[i].from = "ENV" => AnswersCall(h, i)
  BY DEF Replayable
<1>3. SUFFICES ASSUME IsToolCall(h[i]) PROVE CallSettled(h, i)
  BY <1>2 DEF CallSettled
<1> DEFINE n == h[i].calls
           next == i + n + 1
<1>4. h[i].from \in Participants /\ Answered(h, i) /\ n \in Nat \ {0}
  BY <1>1, <1>3 DEF Addressed, Replayable, IsToolCall, Message, Role
<1>5. ASSUME i + n < Len(h), h[next].from = "ENV" PROVE FALSE
  <2>1. next \in 1..Len(h) /\ i < next
    BY <1>4, <1>5
  <2>2. PICK j \in 1..(next - 1) : next \in (j + 1)..(j + h[j].calls)
    BY <1>5, <2>1 DEF Replayable, AnswersCall
  <2>3. j \in 1..Len(h) /\ h[j].calls \in Nat \ {0} /\ j < next /\ next <= j + h[j].calls
    <3>1. j \in 1..Len(h)
      BY <2>1, <2>2
    <3>2. h[j].calls \in Nat
      BY <1>1, <3>1
    <3>3. next \in Nat /\ j \in Nat
      BY <2>1, <3>1
    <3> HIDE DEF next
    <3> QED
      BY <2>2, <3>1, <3>2, <3>3
  <2>4. h[j].from \in Participants /\ Answered(h, j)
    BY <1>1, <2>3 DEF Addressed, Replayable, IsToolCall, Message, Role
  <2>5. CASE j < i
    <3>1. i - j \in 1..h[j].calls /\ j + (i - j) = i
      <4> DEFINE n1 == next
                 c == h[j].calls
      <4>1. /\ n1 \in Nat /\ i \in Nat /\ j \in Nat /\ c \in Nat
            /\ i < n1 /\ n1 <= j + c /\ j < i
        BY <2>1, <2>3, <2>5
      <4> HIDE DEF n1, c
      <4>2. i - j \in 1..c /\ j + (i - j) = i
        BY <4>1
      <4> QED
        BY <4>2 DEF c
    <3>2. h[i].from = "ENV"
      BY <2>4, <3>1 DEF Answered
    <3> QED
      BY <1>4, <3>2 DEF Participants
  <2>6. CASE j = i
    BY <1>4, <2>3, <2>6
  <2>7. CASE j > i
    <3>1. j - i \in 1..n /\ i + (j - i) = j
      BY <1>4, <2>3, <2>7
    <3>2. h[j].from = "ENV"
      BY <1>4, <3>1 DEF Answered
    <3> QED
      BY <2>4, <3>2 DEF Participants
  <2> QED
    BY <2>3, <2>5, <2>6, <2>7
<1> QED
  BY <1>4, <1>5 DEF CallSettled

\* Every step leaves the calls before the pending one with their results.
LEMMA PairedStep ==
  TypeOK /\ TypeOK' /\ RoutingInv /\ ToolResultsPaired /\ [Next]_vars => ToolResultsPaired'
<1> SUFFICES ASSUME TypeOK, TypeOK', RoutingInv, ToolResultsPaired, [Next]_vars
             PROVE  ToolResultsPaired'
  OBVIOUS
<1>1. trajectory \in Seq(Message) /\ trajectory' \in Seq(Message)
  BY DEF TypeOK
<1>2. trajectory' = trajectory => ToolResultsPaired'
  BY DEF ToolResultsPaired
<1>3. CASE InitializeFresh \/ InitializeSolo
  <2>1. PICK m : Opens(m)
    BY <1>3, OpeningEffect
  <2>2. trajectory = <<>>
    BY <1>3 DEF InitializeFresh, InitializeSolo, RoutingInv, MessageInHand
  <2> QED
    BY <1>1, <2>1, <2>2, SendKeepsPairs DEF Opens, Participants
<1>4. CASE InitializeHistory
  <2>1. PICK h : HistoryTaken(h)
    BY <1>4, HistoryEffect
  <2>2. ASSUME NEW i \in 1..Len(h)
        PROVE  CallSettled(h, i) /\ (h[i].from = "ENV" => AnswersCall(h, i))
    BY <2>1, HistoryPaired DEF HistoryTaken
  <2>3. trajectory' = h
    BY <2>1 DEF HistoryTaken
  <2> QED
    BY <2>2, <2>3 DEF ToolResultsPaired, CallSettled
<1>5. ASSUME NEW p \in Participants, ParticipantTurn(p) PROVE ToolResultsPaired'
  <2>1. PICK m \in Answers(p) : Send(m)
    BY <1>5 DEF ParticipantTurn
  <2>2. m \in Message /\ m.from \in Participants
    BY AnswersFacts
  <2>3. ~IsToolCall(Last(trajectory))
    <3>1. pc = "loop" /\ to_role # "ENV" /\ trajectory # <<>>
      BY <1>5 DEF ParticipantTurn, Participants, RoutingInv, MessageInHand
    <3> QED
      BY <3>1 DEF RoutingInv, RoutedByKind
  <2> QED
    BY <1>1, <2>1, <2>2, <2>3, SendKeepsPairs
<1>6. CASE EnvironmentTurn
  <2> DEFINE L == Len(trajectory)
             n == Last(trajectory).calls
             answer == [from |-> "ENV", to |-> from_role, text |-> "plain", calls |-> 0]
  <2>1. /\ L \in Nat \ {0} /\ n \in Nat \ {0} /\ trajectory[L].from \in Participants
        /\ trajectory[L].from = from_role
        /\ Len(trajectory') = L + n
        /\ \A i \in 1..L : trajectory'[i] = trajectory[i]
        /\ \A i \in (L + 1)..(L + n) : trajectory'[i] = answer
    BY <1>6, EnvironmentEffect, LimitsAssumption DEF Last
  <2>2. n = trajectory[L].calls
    BY DEF Last
  <2>3. answer.from = "ENV" /\ answer.to = from_role /\ ~IsToolCall(answer)
    BY DEF IsToolCall
  <2> HIDE DEF n, answer
  <2>4. ASSUME NEW i \in 1..L, i < L
        PROVE  CallSettled(trajectory', i)
    <3>1. CallSettled(trajectory, i)
      BY DEF ToolResultsPaired, CallSettled
    <3>2. SUFFICES ASSUME IsToolCall(trajectory[i]) PROVE CallSettled(trajectory', i)
      BY <2>1 DEF CallSettled
    <3>3. trajectory[i].calls \in Nat \ {0}
      <4>1. trajectory[i] \in Message
        BY <1>1, ElementOfSeq
      <4>2. trajectory[i].calls \in 0..MaxCalls
        BY <4>1 DEF Message
      <4> QED
        BY <3>2, <4>2, LimitsAssumption DEF IsToolCall
    <3>4. i + trajectory[i].calls # L
      <4>1. SUFFICES ASSUME i + trajectory[i].calls = L PROVE FALSE
        OBVIOUS
      <4>2. trajectory[L].from = "ENV"
        <5>1. trajectory[i].calls \in 1..trajectory[i].calls
          BY <3>3
        <5>2. trajectory[i + trajectory[i].calls].from = "ENV"
          BY <2>4, <3>1, <3>2, <5>1 DEF CallSettled, Answered
        <5> QED
          BY <4>1, <5>2
      <4> QED
        BY <2>1, <4>2 DEF Participants
    <3> QED
      BY <1>1, <2>1, <2>4, <3>1, <3>4, SettledStays
  <2>5. CallSettled(trajectory', L)
    <3>1. trajectory'[L] = trajectory[L] /\ trajectory'[L].calls = n
      <4>1. L \in 1..L
        BY <2>1
      <4> QED
        BY <2>1, <2>2, <4>1
    <3>2. \A k \in 1..n : L + k <= L + n /\ trajectory'[L + k] = answer
      BY <2>1
    <3>3. Answered(trajectory', L)
      BY <2>1, <2>3, <3>1, <3>2 DEF Answered
    <3> QED
      BY <2>1, <3>1, <3>3 DEF CallSettled
  <2>6. ASSUME NEW i \in (L + 1)..(L + n)
        PROVE  CallSettled(trajectory', i) /\ AnswersCall(trajectory', i)
    <3>1. L \in 1..(i - 1) /\ i \in (L + 1)..(L + trajectory'[L].calls)
      <4>1. L \in 1..L /\ L \in 1..(i - 1)
        BY <2>1
      <4> QED
        BY <2>1, <2>2, <4>1
    <3> QED
      BY <2>1, <2>3, <3>1 DEF CallSettled, AnswersCall
  <2>7. ASSUME NEW i \in 1..L, trajectory'[i].from = "ENV"
        PROVE  AnswersCall(trajectory', i)
    <3>1. AnswersCall(trajectory, i)
      BY <2>1, <2>7 DEF ToolResultsPaired
    <3> QED
      BY <1>1, <2>1, <3>1, AnswersStay
  <2>8. ASSUME NEW i \in 1..(L + n)
        PROVE  /\ CallSettled(trajectory', i)
               /\ trajectory'[i].from = "ENV" => AnswersCall(trajectory', i)
    BY <2>1, <2>4, <2>5, <2>6, <2>7
  <2> QED
    BY <2>1, <2>8 DEF ToolResultsPaired, CallSettled
<1>7. CASE InitializeRaises \/ ParticipantRaises \/ CheckTermination \/ Finalize \/ Cleanup
           \/ UNCHANGED vars
  <2>1. trajectory' = trajectory
    BY <1>7 DEF InitializeRaises, ParticipantRaises, CheckTermination, Finalize, Cleanup,
                vars, route
  <2> QED
    BY <1>2, <2>1
<1> QED
  BY <1>3, <1>4, <1>5, <1>6, <1>7 DEF Next, Initialize, Step, Ended

\* A tool call nobody executed is never part of a result that reports success.
LEMMA UnexecutedStep ==
  TypeOK /\ RoutingInv /\ NoUnexecutedCall /\ [Next]_vars => NoUnexecutedCall'
<1> SUFFICES ASSUME TypeOK, RoutingInv, NoUnexecutedCall, [Next]_vars,
                    pc' = "returned", IsToolCall(Last(trajectory'))
             PROVE  \/ termination_reason' \in ErrorReasons
                    \/ Len(trajectory') = 1 /\ IsStop(trajectory'[1])
  BY DEF NoUnexecutedCall, Last
<1>1. CASE Finalize
  <2>1. trajectory' = trajectory /\ termination_reason' = termination_reason
    BY <1>1 DEF Finalize, control, route
  <2>2. CASE to_role = "ENV"
    BY <1>1, <2>1, <2>2 DEF Finalize, Participants
  <2>3. CASE to_role # "ENV"
    <3>1. trajectory # <<>>
      BY <1>1 DEF Finalize, RoutingInv, MessageInHand
    <3> QED
      BY <2>1, <2>3, <3>1 DEF RoutingInv, RoutedByKind
  <2> QED
    BY <2>2, <2>3
<1>2. CASE UNCHANGED vars
  BY <1>2 DEF vars, control, route, NoUnexecutedCall, Last
<1>3. CASE Initialize \/ Step \/ CheckTermination \/ Cleanup
  <2>1. pc' # "returned"
    BY <1>3 DEF Initialize, InitializeFresh, InitializeSolo, InitializeHistory, InitializeRaises,
                AfterInitialize, Step, ParticipantTurn, ParticipantRaises, EnvironmentTurn,
                EndOfStep, CheckTermination, Cleanup
  <2> QED
    BY <2>1
<1> QED
  BY <1>1, <1>2, <1>3 DEF Next, Ended

\* Every tool call of a trajectory but a pending last one is followed at once by
\* exactly its own results, which stand nowhere else; and no simulation is
\* returned with a call nobody executed unless it is reported as an error.
THEOREM CallsSettled == Spec => []ToolCallsSettled
<1>1. Init => ToolCallsSettled
  BY DEF Init, ToolCallsSettled, ToolResultsPaired, NoUnexecutedCall
<1>2. (TypeOK /\ RoutingInv) /\ (TypeOK /\ RoutingInv)' /\ ToolCallsSettled /\ [Next]_vars
        => ToolCallsSettled'
  BY PairedStep, UnexecutedStep DEF ToolCallsSettled
<1> QED
  BY <1>1, <1>2, RoutingCorrect, PTL DEF Spec

-----------------------------------------------------------------------------
(* How a run ends.                                                         *)

\* A turn's verdict is borne out by the message it is about, whether the turn
\* reaches it or the communication check does.
LEMMA VerdictBorne ==
  ASSUME NEW m \in Message, NEW isDone \in BOOLEAN, NEW reason,
         Conclude(m, isDone, reason), Last(trajectory') = m, mode' = mode,
         ~isDone => reason = "NONE",
         isDone => \/ reason = "AGENT_STOP" /\ m.from = "AGENT" /\ IsStop(m)
                   \/ reason = "USER_STOP" /\ m.from = "USER" /\ IsStop(m)
                   \/ reason = "AGENT_ERROR" /\ m.from = "AGENT" /\ CommunicationError(m)
  PROVE  /\ IF done' THEN Borne(termination_reason)' ELSE termination_reason' = "NONE"
         /\ ~done' => ~isDone
<1>1. CommunicationError(m)' <=> CommunicationError(m)
  BY DEF CommunicationError, SoloMode
<1>2. CASE ValidateCommunication /\ CommunicationError(m)
  <2>1. done' /\ termination_reason' = ErrorReason(m.from) /\ m.from \in Participants
    BY <1>2 DEF Conclude, CommunicationError
  <2> QED
    BY <1>1, <1>2, <2>1 DEF Borne, ErrorReason, ErrorReasons, Participants, Last
<1>3. CASE ~(ValidateCommunication /\ CommunicationError(m))
  <2>1. done' = isDone /\ termination_reason' = reason
    BY <1>3 DEF Conclude
  <2> QED
    BY <1>1, <2>1 DEF Borne, ErrorReasons, Last
<1> QED
  BY <1>2, <1>3

\* A message that is not a tool call nor a stop is an error of a solo agent.
LEMMA TalkIsError ==
  ASSUME NEW m \in Message, m.from = "AGENT", SoloTalk(m)
  PROVE  CommunicationError(m) /\ ~IsStop(m)
BY DEF SoloTalk, CommunicationError, Participants

\* The reason stays one the conversation bears out.
LEMMA ReasonStep ==
  TypeOK /\ RoutingInv /\ RoutingInv' /\ ReasonKept /\ [Next]_vars => ReasonKept'
<1> SUFFICES ASSUME TypeOK, RoutingInv, RoutingInv', ReasonKept, [Next]_vars
             PROVE  ReasonKept'
  OBVIOUS
<1>1. CASE InitializeFresh \/ InitializeSolo
  <2>1. PICK m : Opens(m)
    BY <1>1, OpeningEffect
  <2>2. mode' = mode /\ pc' # "check"
    BY <1>1 DEF InitializeFresh, InitializeSolo, AfterInitialize
  <2>3. Last(trajectory') = m /\ m \in Message /\ m.from = "AGENT"
    BY <2>1, SendEffect DEF Opens
  <2>4. (IsStop(m) \/ SoloTalk(m)) \in BOOLEAN
    BY DEF IsStop, SoloTalk
  <2>5. IF done' THEN Borne(termination_reason)' ELSE termination_reason' = "NONE"
    BY <2>1, <2>2, <2>3, <2>4, VerdictBorne, TalkIsError DEF Opens
  <2> QED
    BY <2>2, <2>5 DEF ReasonKept
<1>2. CASE InitializeHistory
  <2>1. PICK h : HistoryTaken(h)
    BY <1>2, HistoryEffect
  <2>2. mode' = mode /\ pc' # "check"
    BY <1>2 DEF InitializeHistory, AfterInitialize
  <2> DEFINE last == Last(h)
             stopped == IsStop(last) /\ last.from \in Participants
  <2>3. /\ last \in Message /\ trajectory' = h /\ Last(trajectory') = last
        /\ Conclude(last, stopped, IF stopped THEN StopReason(last.from) ELSE "NONE")
    BY <2>1 DEF HistoryTaken
  <2>4. stopped \in BOOLEAN
    BY DEF IsStop
  <2>5. stopped => \/ StopReason(last.from) = "AGENT_STOP" /\ last.from = "AGENT" /\ IsStop(last)
                   \/ StopReason(last.from) = "USER_STOP" /\ last.from = "USER" /\ IsStop(last)
    BY DEF StopReason, Participants
  <2> HIDE DEF last, stopped
  <2>6. IF done' THEN Borne(termination_reason)' ELSE termination_reason' = "NONE"
    BY <2>2, <2>3, <2>4, <2>5, VerdictBorne
  <2> QED
    BY <2>2, <2>6 DEF ReasonKept
<1>3. ASSUME NEW p \in Participants, ParticipantTurn(p) PROVE ReasonKept'
  <2>1. PICK m \in Answers(p) :
          /\ Send(m)
          /\ LET talk == p = "AGENT" /\ SoloTalk(m)
             IN  Conclude(m, done \/ IsStop(m) \/ talk,
                          IF talk THEN "AGENT_ERROR"
                          ELSE IF IsStop(m) THEN StopReason(p) ELSE termination_reason)
    BY <1>3 DEF ParticipantTurn
  <2>2. /\ m \in Message /\ m.from = p /\ mode' = mode /\ ~done
        /\ termination_reason = "NONE" /\ pc' \in {"check", "cleanup"}
    BY <1>3, AnswersFacts DEF ParticipantTurn, EndOfStep, RoutingInv, NotDoneYet, ReasonKept
  <2>3. Last(trajectory') = m
    BY <2>1, <2>2, SendEffect
  <2> DEFINE talk == p = "AGENT" /\ SoloTalk(m)
             over == IsStop(m) \/ talk
             reason == IF talk THEN "AGENT_ERROR" ELSE IF IsStop(m) THEN StopReason(p) ELSE "NONE"
  <2>4. over \in BOOLEAN /\ (done \/ over) = over
    BY <2>2 DEF IsStop, SoloTalk
  <2>5. Conclude(m, over, reason)
    <3>1. (done \/ IsStop(m) \/ talk) = over
      BY <2>4
    <3> QED
      BY <2>1, <2>2, <3>1
  <2>6. over => \/ reason = "AGENT_STOP" /\ m.from = "AGENT" /\ IsStop(m)
                \/ reason = "USER_STOP" /\ m.from = "USER" /\ IsStop(m)
                \/ reason = "AGENT_ERROR" /\ m.from = "AGENT" /\ CommunicationError(m)
    BY <2>2, TalkIsError DEF StopReason, Participants
  <2>7. ~over => reason = "NONE"
    OBVIOUS
  <2>8. over <=> (IsStop(m) \/ talk)
    OBVIOUS
  <2> HIDE DEF over, reason, talk
  <2>9. /\ IF done' THEN Borne(termination_reason)' ELSE termination_reason' = "NONE"
        /\ ~done' => ~IsStop(m)
    BY <2>2, <2>3, <2>4, <2>5, <2>6, <2>7, <2>8, VerdictBorne
  <2> QED
    BY <2>2, <2>3, <2>9 DEF ReasonKept, Last
<1>4. CASE EnvironmentTurn
  <2> DEFINE n == Last(trajectory).calls
             answer == [from |-> "ENV", to |-> from_role, text |-> "plain", calls |-> 0]
  <2>1. /\ Len(trajectory) \in Nat \ {0} /\ n \in Nat \ {0}
        /\ Len(trajectory') = Len(trajectory) + n
        /\ \A i \in (Len(trajectory) + 1)..(Len(trajectory) + n) : trajectory'[i] = answer
    BY <1>4, EnvironmentEffect, LimitsAssumption
  <2>2. ~IsStop(answer)
    BY DEF IsStop
  <2> HIDE DEF n, answer
  <2>3. Last(trajectory') = answer
    BY <2>1 DEF Last
  <2>4. /\ ~done' /\ termination_reason' = "NONE" /\ pc' \in {"check", "cleanup"}
    BY <1>4 DEF EnvironmentTurn, EndOfStep, RoutingInv, NotDoneYet, ReasonKept
  <2> QED
    BY <2>2, <2>3, <2>4 DEF ReasonKept, Last
<1>5. CASE CheckTermination
  <2>1. /\ UNCHANGED <<mode, step_count, num_errors, trajectory>>
        /\ pc' = IF done' THEN "finalize" ELSE "loop"
    BY <1>5 DEF CheckTermination, route
  <2>2. IF done THEN Borne(termination_reason)
        ELSE termination_reason = "NONE" /\ ~IsStop(Last(trajectory))
    BY <1>5 DEF CheckTermination, ReasonKept
  <2>3. Borne(termination_reason)' <=> Borne(termination_reason')
    BY <2>1 DEF Borne, OutOfSteps, OutOfErrors, CommunicationError, SoloMode
  <2>4. IF done' THEN Borne(termination_reason') ELSE termination_reason' = "NONE"
    <3>1. CASE to_role = "ENV"
      BY <1>5, <2>2, <3>1 DEF CheckTermination
    <3>2. CASE to_role # "ENV"
      <4>1. PICK late \in BOOLEAN :
              LET limit == OutOfSteps \/ OutOfErrors
              IN  /\ late => MayTimeOut(limit)
                  /\ done' = (done \/ limit \/ late)
                  /\ termination_reason' =
                       IF OutOfErrors THEN "TOO_MANY_ERRORS"
                       ELSE IF OutOfSteps THEN "MAX_STEPS"
                       ELSE IF late THEN "TIMEOUT" ELSE termination_reason
        BY <1>5, <3>2 DEF CheckTermination
      <4>2. CASE OutOfErrors
        BY <4>1, <4>2 DEF Borne, ErrorReasons
      <4>3. CASE ~OutOfErrors /\ OutOfSteps
        BY <4>1, <4>3 DEF Borne, ErrorReasons
      <4>4. CASE ~OutOfErrors /\ ~OutOfSteps /\ late
        BY <2>2, <4>1, <4>4 DEF Borne, ErrorReasons, MayTimeOut, Last
      <4>5. CASE ~OutOfErrors /\ ~OutOfSteps /\ ~late
        BY <2>2, <4>1, <4>5 DEF TypeOK
      <4> QED
        BY <4>2, <4>3, <4>4, <4>5
    <3> QED
      BY <3>1, <3>2
  <2> QED
    BY <2>1, <2>3, <2>4 DEF ReasonKept
<1>6. CASE InitializeRaises \/ ParticipantRaises \/ Finalize \/ Cleanup \/ UNCHANGED vars
  <2>1. /\ UNCHANGED <<mode, done, termination_reason, step_count, num_errors, trajectory>>
        /\ \/ pc' \in {"aborted", "cleanup", "raised"}
           \/ pc = "finalize" /\ pc' = "returned"
           \/ pc' = pc
    BY <1>6 DEF InitializeRaises, ParticipantRaises, Finalize, Cleanup, vars, control, route
  <2>2. Borne(termination_reason)' <=> Borne(termination_reason)
    BY <2>1 DEF Borne, OutOfSteps, OutOfErrors, CommunicationError, SoloMode
  <2>3. pc' = pc => (IsStop(Last(trajectory))' <=> IsStop(Last(trajectory)))
    BY <2>1
  <2> QED
    BY <2>1, <2>2, <2>3 DEF ReasonKept
<1> QED
  BY <1>1, <1>2, <1>3, <1>4, <1>5, <1>6 DEF Next, Initialize, Step, Ended

\* No counter runs past where run() would have noticed.
LEMMA LimitsStep ==
  TypeOK /\ TypeOK' /\ RoutingInv /\ LimitsKept /\ LimitsHold /\ [Next]_vars
    => LimitsKept' /\ LimitsHold'
<1> SUFFICES ASSUME TypeOK, TypeOK', RoutingInv, LimitsKept, LimitsHold, [Next]_vars
             PROVE  LimitsKept' /\ LimitsHold'
  OBVIOUS
<1> USE LimitsAssumption DEF LimitsKept, LimitsHold, AtLeastOne
<1>1. /\ step_count \in Nat /\ num_errors \in Nat
      /\ AtLeastOne(MaxSteps) \in Nat \ {0} /\ AtLeastOne(MaxErrors) \in Nat \ {0}
  BY DEF TypeOK
<1>2. CASE InitializeFresh \/ InitializeSolo \/ InitializeHistory
  <2>1. /\ pc = "init" /\ pc' \in {"aborted", "finalize", "loop"}
        /\ UNCHANGED <<step_count, num_errors>>
    BY <1>2 DEF InitializeFresh, InitializeSolo, InitializeHistory, AfterInitialize
  <2> QED
    BY <1>1, <2>1
<1>3. ASSUME NEW p \in Participants, ParticipantTurn(p) PROVE LimitsKept' /\ LimitsHold'
  <2>1. /\ pc = "loop" /\ to_role # "ENV" /\ pc' \in {"check", "cleanup"}
        /\ step_count' = step_count + 1 /\ num_errors' = num_errors
    BY <1>3 DEF ParticipantTurn, EndOfStep, Participants
  <2> QED
    BY <1>1, <2>1
<1>4. CASE EnvironmentTurn
  <2>1. /\ pc = "loop" /\ to_role' # "ENV" /\ pc' \in {"check", "cleanup"}
        /\ step_count' = step_count + 1
    BY <1>4 DEF EnvironmentTurn, EndOfStep, Participants
  <2>2. num_errors' \in Nat /\ num_errors' <= num_errors + MaxCalls
    <3>1. /\ Last(trajectory).calls \in 1..MaxCalls
          /\ num_errors' \in num_errors..(num_errors + Last(trajectory).calls)
      BY <1>4, EnvironmentEffect
    <3> QED
      BY <1>1, <3>1
  <2> QED
    BY <1>1, <2>1, <2>2
<1>5. CASE CheckTermination
  <2>1. /\ UNCHANGED <<step_count, num_errors, to_role>> /\ pc = "check"
        /\ pc' = IF done' THEN "finalize" ELSE "loop"
    BY <1>5 DEF CheckTermination, route
  <2>2. CASE to_role = "ENV"
    BY <1>1, <2>1, <2>2
  <2>3. CASE to_role # "ENV"
    <3>1. ~done' => ~OutOfSteps /\ ~OutOfErrors
      BY <1>5, <2>3 DEF CheckTermination
    <3> QED
      BY <1>1, <2>1, <2>3, <3>1 DEF OutOfSteps, OutOfErrors
  <2> QED
    BY <2>2, <2>3
<1>6. CASE InitializeRaises \/ ParticipantRaises \/ Finalize \/ Cleanup \/ UNCHANGED vars
  <2>1. /\ UNCHANGED <<step_count, num_errors, to_role>>
        /\ pc' \in {"aborted", "cleanup", "raised", "returned"} \/ pc' = pc
    BY <1>6 DEF InitializeRaises, ParticipantRaises, Finalize, Cleanup, vars, control, route
  <2> QED
    BY <1>1, <2>1
<1> QED
  BY <1>2, <1>3, <1>4, <1>5, <1>6 DEF Next, Initialize, Step, Ended

\* stop() is called on both participants, when a run ends and not before.
LEMMA StopsStep == TypeOK /\ StopsKept /\ [Next]_vars => StopsKept'
<1> SUFFICES ASSUME TypeOK, StopsKept, [Next]_vars PROVE StopsKept'
  OBVIOUS
<1> USE DEF StopsKept, StoppedAtEnd
<1>1. CASE StopBoth
  <2>1. /\ stops'["AGENT"] = stops["AGENT"] + 1 /\ stops'["USER"] = stops["USER"] + 1
        /\ stops["AGENT"] \in Nat
    BY <1>1 DEF StopBoth, Participants, TypeOK
  <2>2. CASE Finalize
    BY <2>1, <2>2, <1>1 DEF Finalize
  <2>3. CASE Cleanup
    BY <2>1, <2>3 DEF Cleanup
  <2>4. CASE stops' = stops
    BY <2>1, <2>4
  <2>5. CASE Initialize \/ Step \/ CheckTermination \/ UNCHANGED vars
    <3>1. stops' = stops
      BY <2>5 DEF Initialize, InitializeFresh, InitializeSolo, InitializeHistory,
                  InitializeRaises, Step, ParticipantTurn, ParticipantRaises, EnvironmentTurn,
                  CheckTermination, vars
    <3> QED
      BY <2>4, <3>1
  <2> QED
    BY <2>2, <2>3, <2>5 DEF Next, Ended
<1>2. CASE ~StopBoth
  <2>1. stops' = stops /\ \/ pc' \in {"loop", "check", "finalize", "cleanup", "aborted"}
                             /\ pc \in {"init", "loop", "check"}
                          \/ pc = "finalize" /\ pc' = "cleanup"
                          \/ pc' = pc
    <3>1. CASE Initialize
      BY <3>1 DEF Initialize, InitializeFresh, InitializeSolo, InitializeHistory,
                  InitializeRaises, AfterInitialize
    <3>2. CASE Step
      BY <3>2 DEF Step, ParticipantTurn, ParticipantRaises, EnvironmentTurn, EndOfStep
    <3>3. CASE CheckTermination \/ Finalize \/ Cleanup \/ UNCHANGED vars
      BY <1>2, <3>3 DEF CheckTermination, Finalize, Cleanup, vars
    <3> QED
      BY <3>1, <3>2, <3>3 DEF Next, Ended
  <2> QED
    BY <2>1
<1> QED
  BY <1>1, <1>2

LEMMA EndCorrect == Spec => []EndInv
<1>1. Init => EndInv
  BY LimitsAssumption
     DEF Init, EndInv, ReasonKept, LimitsKept, StopsKept, StoppedAtEnd, LimitsHold, AtLeastOne,
         Participants
<1>2. (TypeOK /\ RoutingInv) /\ (TypeOK /\ RoutingInv)' /\ EndInv /\ [Next]_vars => EndInv'
  BY ReasonStep, LimitsStep, StopsStep DEF EndInv
<1> QED
  BY <1>1, <1>2, RoutingCorrect, PTL DEF Spec

\* A run that returns has stopped both participants exactly once and reports a
\* reason its conversation bears out; one that raises stops them at most twice;
\* and the limits are overrun by no more than one step of the environment.
THEOREM EndsSoundly == Spec => []RunEndsSoundly
<1>1. RoutingInv /\ EndInv => RunEndsSoundly
  BY DEF RoutingInv, NotDoneYet, EndInv, ReasonKept, StopsKept, RunEndsSoundly, ReasonBorneOut
<1> QED
  BY <1>1, RoutingCorrect, EndCorrect, PTL

-----------------------------------------------------------------------------
(* Delivery.                                                               *)

\* n equal elements, and one more.
LEMMA RepeatOnce ==
  ASSUME NEW S, NEW n \in Nat, NEW f \in [1..(n + 1) -> S]
  PROVE  /\ [k \in 1..n |-> f[k]] \in Seq(S)
         /\ f = Append([k \in 1..n |-> f[k]], f[n + 1])
<1> DEFINE first == [k \in 1..n |-> f[k]]
<1>1. first \in [1..n -> S] /\ f[n + 1] \in S
  OBVIOUS
<1>2. first \in Seq(S) /\ Len(first) = n /\ f \in Seq(S) /\ Len(f) = n + 1
  <2> HIDE DEF first
  <2> QED
    BY <1>1, FunctionIsSeq
<1>3. \A k \in 1..n : first[k] = f[k]
  OBVIOUS
<1>4. f = Append(first, f[n + 1])
  <2> HIDE DEF first
  <2> DEFINE longer == Append(first, f[n + 1])
  <2>1. /\ longer \in Seq(S) /\ Len(longer) = n + 1
        /\ \A k \in 1..n : longer[k] = first[k]
        /\ longer[n + 1] = f[n + 1]
    BY <1>1, <1>2, AppendProperties
  <2>2. \A k \in 1..Len(f) : f[k] = longer[k]
    BY <1>2, <1>3, <2>1
  <2> HIDE DEF longer
  <2>3. f = longer
    BY <1>2, <2>1, <2>2, SeqEqual
  <2> QED
    BY <2>3 DEF longer
<1> QED
  BY <1>2, <1>4

\* n equal results add their n positions for the one they are for.
LEMMA AddressedToResults ==
  ASSUME NEW traj \in Seq(Message), NEW a \in Message, NEW r
  PROVE  \A n \in Nat :
           AddressedTo(traj \o [k \in 1..n |-> a], r) =
             IF a.to = r THEN AddressedTo(traj, r) \o [k \in 1..n |-> Len(traj) + k]
             ELSE AddressedTo(traj, r)
<1> DEFINE L == Len(traj)
           results(n) == [k \in 1..n |-> a]
           positions(n) == [k \in 1..n |-> L + k]
           S == {n \in Nat : AddressedTo(traj \o results(n), r) =
                               IF a.to = r THEN AddressedTo(traj, r) \o positions(n)
                               ELSE AddressedTo(traj, r)}
<1>1. L \in Nat /\ AddressedTo(traj, r) \in Seq(Nat \ {0})
  BY AddressedToType
<1>2. 0 \in S
  <2>1. results(0) = <<>> /\ positions(0) = <<>>
    OBVIOUS
  <2>2. traj \o <<>> = traj /\ AddressedTo(traj, r) \o <<>> = AddressedTo(traj, r)
    BY <1>1, ConcatEmptySeq
  <2> QED
    BY <2>1, <2>2
<1>3. ASSUME NEW n \in Nat, n \in S
      PROVE  n + 1 \in S
  <2>1. /\ results(n) \in Seq(Message) /\ Len(results(n)) = n
        /\ results(n + 1) = Append(results(n), a)
    <3>1. results(n + 1) \in [1..(n + 1) -> Message] /\ results(n) \in [1..n -> Message]
      OBVIOUS
    <3>2. /\ results(n + 1)[n + 1] = a
          /\ results(n) = [k \in 1..n |-> results(n + 1)[k]]
      OBVIOUS
    <3> HIDE DEF results
    <3>3. results(n + 1) = Append([k \in 1..n |-> results(n + 1)[k]], results(n + 1)[n + 1])
      BY <3>1, RepeatOnce
    <3>4. results(n) \in Seq(Message) /\ Len(results(n)) = n
      BY <3>1, FunctionIsSeq
    <3> QED
      BY <3>2, <3>3, <3>4
  <2>2. /\ positions(n) \in Seq(Nat \ {0})
        /\ positions(n + 1) = Append(positions(n), L + n + 1)
    <3>1. positions(n + 1) \in [1..(n + 1) -> Nat \ {0}] /\ positions(n) \in [1..n -> Nat \ {0}]
      BY <1>1
    <3>2. /\ positions(n + 1)[n + 1] = L + n + 1
          /\ positions(n) = [k \in 1..n |-> positions(n + 1)[k]]
      BY <1>1
    <3> HIDE DEF positions, L
    <3>3. positions(n + 1) =
            Append([k \in 1..n |-> positions(n + 1)[k]], positions(n + 1)[n + 1])
      BY <3>1, RepeatOnce
    <3>4. positions(n) \in Seq(Nat \ {0})
      BY <3>1, FunctionIsSeq
    <3> QED
      BY <3>2, <3>3, <3>4
  <2>3. AddressedTo(traj \o results(n), r) =
          IF a.to = r THEN AddressedTo(traj, r) \o positions(n) ELSE AddressedTo(traj, r)
    BY <1>3
  <2> HIDE DEF results, positions, S
  <2> DEFINE longer == traj \o results(n)
  <2>4. longer \in Seq(Message) /\ Len(longer) = L + n
    BY <2>1, ConcatProperties
  <2>5. traj \o results(n + 1) = Append(longer, a)
    <3>1. Append(results(n), a) = results(n) \o <<a>> /\ Append(longer, a) = longer \o <<a>>
      BY <2>1, <2>4, AppendIsConcat
    <3>2. <<a>> \in Seq(Message)
      OBVIOUS
    <3>3. (traj \o results(n)) \o <<a>> = traj \o (results(n) \o <<a>>)
      BY <2>1, <3>2, ConcatAssociative
    <3> QED
      BY <2>1, <3>1, <3>3
  <2>6. AddressedTo(Append(longer, a), r) =
          IF a.to = r THEN AddressedTo(longer, r) \o <<L + n + 1>> ELSE AddressedTo(longer, r)
    <3> HIDE DEF longer
    <3> QED
      BY <2>4, AddressedToAppend
  <2>7. (AddressedTo(traj, r) \o positions(n)) \o <<L + n + 1>> =
          AddressedTo(traj, r) \o positions(n + 1)
    <3>1. L + n + 1 \in Nat \ {0} /\ <<L + n + 1>> \in Seq(Nat \ {0})
      BY <1>1
    <3>2. positions(n + 1) = positions(n) \o <<L + n + 1>>
      BY <2>2, <3>1, AppendIsConcat
    <3> DEFINE before == AddressedTo(traj, r)
               mine == positions(n)
               new == <<L + n + 1>>
               Positions == Seq(Nat \ {0})
    <3>3. before \in Positions /\ mine \in Positions /\ new \in Positions
      BY <1>1, <2>2, <3>1
    <3> HIDE DEF before, mine, new, Positions
    <3>4. (before \o mine) \o new = before \o (mine \o new)
      BY <3>3, ConcatAssociative
    <3> QED
      BY <3>2, <3>4 DEF before, mine, new
  <2>8. AddressedTo(traj \o results(n + 1), r) =
          IF a.to = r THEN AddressedTo(traj, r) \o positions(n + 1) ELSE AddressedTo(traj, r)
    BY <2>3, <2>5, <2>6, <2>7
  <2>9. n + 1 \in Nat
    OBVIOUS
  <2> QED
    BY <2>8, <2>9 DEF S
<1>4. \A n \in Nat : n \in S
  <2> HIDE DEF S
  <2> QED
    BY <1>2, <1>3, SetInduction
<1> QED
  BY <1>4

\* A message just sent is all that is under way, if the one before was handed over.
LEMMA SendKeepsOrder ==
  ASSUME TypeOK, NEW m \in Message, Send(m),
         \A p \in Participants : inbox'[p] = AddressedTo(trajectory, p),
         NEW p \in Participants
  PROVE  inbox'[p] \o UnderWay(p)' = AddressedTo(trajectory', p)
<1>1. /\ trajectory \in Seq(Message) /\ trajectory' = Append(trajectory, m)
      /\ message' = <<Len(trajectory) + 1>> /\ to_role' = m.to
  BY SendEffect DEF TypeOK
<1>2. AddressedTo(trajectory', p) =
        IF m.to = p THEN AddressedTo(trajectory, p) \o <<Len(trajectory) + 1>>
        ELSE AddressedTo(trajectory, p)
  BY <1>1, AddressedToAppend
<1>3. AddressedTo(trajectory, p) \o <<>> = AddressedTo(trajectory, p)
  BY <1>1, AddressedToType, ConcatEmptySeq
<1> QED
  BY <1>1, <1>2, <1>3 DEF UnderWay

\* Where nothing is under way for a participant it has everything.
LEMMA NothingUnderWay ==
  ASSUME TypeOK, NEW p \in Participants, UnderWay(p) = <<>>
  PROVE  inbox[p] \o UnderWay(p) = inbox[p]
<1>1. inbox[p] \in Seq(Nat \ {0})
  BY DEF TypeOK
<1> QED
  BY <1>1, ConcatEmptySeq

\* Every step hands over what is under way, or leaves it under way.
LEMMA OrderStep == TypeOK /\ RoutingInv /\ HandedOver /\ [Next]_vars => HandedOver'
<1> SUFFICES ASSUME TypeOK, RoutingInv, HandedOver, [Next]_vars PROVE HandedOver'
  OBVIOUS
<1>1. CASE InitializeFresh \/ InitializeSolo
  <2>1. PICK m : Opens(m)
    BY <1>1, OpeningEffect
  <2>2. /\ trajectory = <<>> /\ message = <<>> /\ inbox' = inbox
        /\ pc = "init" /\ pc' # "returned"
    BY <1>1 DEF InitializeFresh, InitializeSolo, AfterInitialize, RoutingInv, MessageInHand
  <2>3. \A p \in Participants : inbox'[p] = AddressedTo(trajectory, p)
    BY <2>2, NothingUnderWay DEF HandedOver, UnderWay
  <2> QED
    BY <2>1, <2>2, <2>3, SendKeepsOrder DEF HandedOver, Opens
<1>2. CASE InitializeHistory
  <2>1. PICK h : HistoryTaken(h)
    BY <1>2, HistoryEffect
  <2> DEFINE front == SubSeq(h, 1, Len(h) - 1)
  <2>2. /\ h \in Seq(Message) /\ Len(h) \in Nat \ {0} /\ Last(h) \in Message
        /\ trajectory' = h /\ message' = <<Len(h)>> /\ to_role' = Last(h).to
        /\ \A p \in Participants : inbox'[p] = AddressedTo(front, p)
    BY <2>1 DEF HistoryTaken
  <2>3. front \in Seq(Message) /\ Len(front) = Len(h) - 1 /\ h = Append(front, Last(h))
    <3>1. front \in Seq(Message) /\ Len(front) = Len(h) - 1
      BY <2>2, SubSeqProperties
    <3>2. \A i \in 1..Len(front) : front[i] = h[i]
      BY <2>2, SubSeqProperties
    <3> HIDE DEF front
    <3> DEFINE again == Append(front, Last(h))
    <3>3. /\ again \in Seq(Message) /\ Len(again) = Len(h)
          /\ \A i \in 1..Len(front) : again[i] = front[i]
          /\ again[Len(front) + 1] = Last(h)
      BY <2>2, <3>1, AppendProperties
    <3>4. \A i \in 1..Len(h) : h[i] = again[i]
      BY <2>2, <3>1, <3>2, <3>3 DEF Last
    <3> HIDE DEF again
    <3>5. h = again
      BY <2>2, <3>3, <3>4, SeqEqual
    <3> QED
      BY <3>1, <3>5 DEF again
  <2> HIDE DEF front
  <2>4. ASSUME NEW p \in Participants
        PROVE  inbox'[p] \o UnderWay(p)' = AddressedTo(trajectory', p)
    <3>1. AddressedTo(h, p) = IF Last(h).to = p THEN AddressedTo(front, p) \o <<Len(h)>>
                              ELSE AddressedTo(front, p)
      <4>1. AddressedTo(Append(front, Last(h)), p) =
              IF Last(h).to = p THEN AddressedTo(front, p) \o <<Len(front) + 1>>
              ELSE AddressedTo(front, p)
        BY <2>2, <2>3, AddressedToAppend
      <4>2. Len(front) + 1 = Len(h)
        BY <2>2, <2>3
      <4> QED
        BY <2>3, <4>1, <4>2
    <3>2. AddressedTo(front, p) \o <<>> = AddressedTo(front, p)
      BY <2>3, AddressedToType, ConcatEmptySeq
    <3> QED
      BY <2>2, <3>1, <3>2 DEF UnderWay
  <2>5. pc' # "returned"
    BY <1>2 DEF InitializeHistory, AfterInitialize
  <2> QED
    BY <2>4, <2>5 DEF HandedOver
<1>3. ASSUME NEW q \in Participants, ParticipantTurn(q) PROVE HandedOver'
  <2>1. PICK m \in Answers(q) : Send(m)
    BY <1>3 DEF ParticipantTurn
  <2>2. pc = "loop" /\ to_role = q /\ pc' \in {"check", "cleanup"} /\ m \in Message
    BY <1>3, AnswersFacts DEF ParticipantTurn, EndOfStep
  <2>3. \A p \in Participants : inbox'[p] = inbox[p] \o UnderWay(p)
    <3>1. ASSUME NEW p \in Participants PROVE inbox'[p] = inbox[p] \o UnderWay(p)
      <4>1. inbox'[p] = IF p = q THEN inbox[p] \o message ELSE inbox[p]
        BY <1>3 DEF ParticipantTurn, Deliver, TypeOK
      <4>2. CASE p = q
        BY <2>2, <4>1, <4>2 DEF UnderWay
      <4>3. CASE p # q
        BY <2>2, <4>1, <4>3, NothingUnderWay DEF UnderWay
      <4> QED
        BY <4>2, <4>3
    <3> QED
      BY <3>1
  <2>4. \A p \in Participants : inbox'[p] = AddressedTo(trajectory, p)
    BY <2>2, <2>3 DEF HandedOver
  <2> QED
    BY <2>1, <2>2, <2>4, SendKeepsOrder DEF HandedOver
<1>4. CASE EnvironmentTurn
  <2> DEFINE L == Len(trajectory)
             n == Last(trajectory).calls
             answer == [from |-> "ENV", to |-> from_role, text |-> "plain", calls |-> 0]
  <2>1. /\ n \in Nat /\ answer \in Message /\ trajectory \in Seq(Message)
        /\ trajectory' = trajectory \o [k \in 1..n |-> answer]
        /\ message' = [k \in 1..n |-> L + k] /\ to_role' = from_role
    <3>1. n \in 1..MaxCalls
      BY <1>4, EnvironmentEffect
    <3>2. n \in Nat
      BY <3>1, LimitsAssumption
    <3> QED
      BY <1>4, <3>2, EnvironmentEffect DEF TypeOK
  <2>2. pc = "loop" /\ to_role = "ENV" /\ inbox' = inbox /\ pc' \in {"check", "cleanup"}
    BY <1>4 DEF EnvironmentTurn, EndOfStep
  <2>3. answer.to = from_role
    OBVIOUS
  <2> HIDE DEF n, answer, L
  <2>4. ASSUME NEW p \in Participants
        PROVE  inbox'[p] \o UnderWay(p)' = AddressedTo(trajectory', p)
    <3>1. UnderWay(p) = <<>>
      BY <2>2 DEF UnderWay, Participants
    <3>2. inbox[p] = AddressedTo(trajectory, p) /\ inbox[p] \o <<>> = inbox[p]
      BY <2>2, <3>1, NothingUnderWay DEF HandedOver
    <3>3. AddressedTo(trajectory', p) =
            IF from_role = p THEN AddressedTo(trajectory, p) \o message'
            ELSE AddressedTo(trajectory, p)
      <4>1. AddressedTo(trajectory \o [k \in 1..n |-> answer], p) =
              IF answer.to = p
              THEN AddressedTo(trajectory, p) \o [k \in 1..n |-> Len(trajectory) + k]
              ELSE AddressedTo(trajectory, p)
        BY <2>1, AddressedToResults
      <4>2. message' = [k \in 1..n |-> Len(trajectory) + k]
        BY <2>1 DEF L
      <4> QED
        BY <2>1, <2>3, <4>1, <4>2
    <3> QED
      BY <2>1, <2>2, <3>2, <3>3 DEF UnderWay
  <2> QED
    BY <2>2, <2>4 DEF HandedOver
<1>5. CASE Finalize
  <2>1. /\ pc = "finalize" /\ pc' \in {"returned", "cleanup"}
        /\ UNCHANGED <<trajectory, message, to_role>>
    BY <1>5 DEF Finalize, control, route
  <2>2. ASSUME NEW p \in Participants PROVE inbox'[p] = AddressedTo(trajectory, p)
    <3>1. inbox[p] \o UnderWay(p) = AddressedTo(trajectory, p)
      BY <2>1 DEF HandedOver
    <3>2. CASE to_role = "ENV"
      <4>1. inbox' = inbox /\ UnderWay(p) = <<>>
        BY <1>5, <3>2 DEF Finalize, UnderWay, Participants
      <4> QED
        BY <3>1, <4>1, NothingUnderWay
    <3>3. CASE to_role # "ENV"
      <4>1. inbox'[p] = IF p = to_role THEN inbox[p] \o message ELSE inbox[p]
        BY <1>5, <3>3 DEF Finalize, Deliver, TypeOK
      <4> QED
        BY <3>1, <4>1, NothingUnderWay DEF UnderWay
    <3> QED
      BY <3>2, <3>3
  <2> QED
    BY <2>1, <2>2 DEF HandedOver
<1>6. CASE InitializeRaises \/ ParticipantRaises \/ CheckTermination \/ Cleanup \/ UNCHANGED vars
  <2>1. /\ UNCHANGED <<trajectory, message, to_role, inbox>>
        /\ \/ pc' \in {"aborted", "finalize", "loop"} /\ pc \in {"init", "check"}
           \/ pc' \in {"cleanup", "raised"}
           \/ pc' = pc
    BY <1>6 DEF InitializeRaises, ParticipantRaises, CheckTermination, Cleanup, vars, control, route
  <2>2. \A p \in Participants : UnderWay(p)' = UnderWay(p)
    BY <2>1 DEF UnderWay
  <2> QED
    BY <2>1, <2>2 DEF HandedOver
<1> QED
  BY <1>1, <1>2, <1>3, <1>4, <1>5, <1>6 DEF Next, Initialize, Step, Ended

\* Each participant is handed the messages addressed to it in order, none twice and
\* none skipped, and a run that returns has handed over all of them.
THEOREM InOrder == Spec => []DeliveredInOrder
<1>1. Init => HandedOver
  <2> SUFFICES ASSUME Init, NEW p \in Participants
               PROVE  pc # "returned" /\ inbox[p] \o UnderWay(p) = AddressedTo(trajectory, p)
    BY DEF HandedOver
  <2>1. trajectory = <<>> /\ message = <<>> /\ inbox[p] = <<>> /\ pc = "init"
    BY DEF Init
  <2>2. <<>> \in Seq(Message) /\ Len(<<>>) = 0
    BY EmptySeq
  <2>3. PICK g : Lists(g, <<>>, p, 0) /\ AddressedTo(<<>>, p) = g[0]
    BY <2>2, AddressedToLists
  <2>4. AddressedTo(<<>>, p) = <<>>
    BY <2>3 DEF Lists
  <2>5. inbox[p] \o UnderWay(p) = <<>>
    BY <2>1 DEF UnderWay
  <2> QED
    BY <2>1, <2>4, <2>5
<1>2. TypeOK /\ RoutingInv /\ HandedOver /\ [Next]_vars => HandedOver'
  BY OrderStep
<1>3. TypeOK /\ HandedOver => DeliveredInOrder
  <2> SUFFICES ASSUME TypeOK, HandedOver, NEW p \in Participants
               PROVE  /\ IsPrefix(inbox[p], AddressedTo(trajectory, p))
                      /\ pc = "returned" => inbox[p] = AddressedTo(trajectory, p)
    BY DEF DeliveredInOrder
  <2>1. /\ inbox[p] \in Seq(Nat \ {0}) /\ UnderWay(p) \in Seq(Nat \ {0})
        /\ <<>> \in Seq(Nat \ {0}) /\ inbox[p] \o <<>> = inbox[p]
    BY ConcatEmptySeq, EmptySeq DEF TypeOK, UnderWay
  <2>2. /\ IsPrefix(inbox[p], inbox[p] \o UnderWay(p))
        /\ IsPrefix(inbox[p], inbox[p] \o <<>>)
    BY <2>1, PrefixOfConcat
  <2> QED
    BY <2>1, <2>2 DEF HandedOver
<1> QED
  BY <1>1, <1>2, <1>3, RoutingCorrect, PTL DEF Spec
=============================================================================
