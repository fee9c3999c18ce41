----------------------------- MODULE GymEnvProofs -----------------------------
(***************************************************************************)
(* Theorems about GymEnv, for every number of episodes and turns: types,   *)
(* that each action is taken once, and that episodes keep apart.           *)
(***************************************************************************)
EXTENDS GymEnv, TLAPS

-----------------------------------------------------------------------------
(* The inductive invariant.                                                *)

\* Between step() and the thread that waits for it there is one action at most;
\* anywhere else all that was sent is taken.
HandedOn(e) ==
  IF thread[e] = "waiting" /\ finished[e]
  THEN action[e] = sent[e] /\ sent[e] = taken[e] + 1
  ELSE action[e] = 0 /\ taken[e] = sent[e]

\* It is the agent's turn only while its thread hears or waits, all through the
\* hearing; the last message is heard by a thread that has not yet ended.
Turns == \A e \in Episodes :
  /\ HandedOn(e)
  /\ ~finished[e] => thread[e] \in {"hearing", "waiting"}
  /\ thread[e] = "hearing" => ~finished[e]
  /\ thread[e] \in {"none", "working", "hearing", "waiting"} => heard[e] <= MaxTurns

\* A thread that has ended, or waits for an action nobody can send any more.
Silent(e) == \/ thread[e] = "ended"
             \/ thread[e] \in {"hearing", "waiting"} /\ ~finished[e]

\* Which episodes there are, and what is left of them when another is started.
Numbered ==
  /\ \A e \in Episodes : thread[e] = "none" <=> e > episode
  /\ \A e \in Episodes : e < episode => Silent(e)
  /\ episode = 0 => api \in {"idle", "joining"} /\ ~done /\ run = 0
  /\ api = "joining" => /\ episode < MaxEpisodes /\ ~done /\ run = 0
                        /\ \A e \in Episodes : e <= episode => Silent(e)

\* A call that has polled, or returned, leaves the agent its turn or the end; the
\* end is that of the current thread, and so is the run it has left.
Current ==
  /\ api \in {"idle", "observing_reset", "observing_step"} /\ episode > 0 =>
       done \/ ~finished[episode]
  /\ run \in {0, episode}
  /\ done => thread[episode] = "ended"
  /\ answer.of = "step" /\ answer.terminated /\ api = "idle" => done /\ answer.run = run

GymInv == Turns /\ Numbered /\ Current
-----------------------------------------------------------------------------
(* Types.                                                                  *)

LEMMA TypeStep == TypeOK /\ GymInv /\ [Next]_vars => TypeOK'
<1> SUFFICES ASSUME TypeOK, GymInv, [Next]_vars PROVE TypeOK'
  OBVIOUS
<1>1. CASE BeginReset
  <2>1. run' \in 0..MaxEpisodes /\ api' \in Busy
    BY <1>1, GymAssumption DEF BeginReset, Busy
  <2>2. done' = FALSE /\ UNCHANGED <<episode, answer, sent, thread, finished, action, heard, seen, taken>>
    BY <1>1 DEF BeginReset, agent
  <2> QED
    BY <2>1, <2>2 DEF TypeOK
<1>2. CASE StartEpisode
  <2>1. episode' \in Episodes
    BY <1>2, GymAssumption DEF StartEpisode, TypeOK, GymInv, Numbered, Episodes
  <2> QED
    <3>1. episode' \in 0..MaxEpisodes /\ api' \in Busy
      BY <1>2, <2>1, GymAssumption DEF StartEpisode, Busy, Episodes
    <3>2. thread' \in [Episodes -> {"none", "working", "hearing", "waiting", "returned",
                                   "raised", "published", "ended"}]
      BY <1>2 DEF StartEpisode, TypeOK
    <3> QED
      BY <1>2, <3>1, <3>2 DEF TypeOK, StartEpisode, agent
<1>3. CASE Poll("resetting", "observing_reset") \/ Poll("stepping", "observing_step")
  BY <1>3 DEF TypeOK, Poll, Busy, agent
<1>4. CASE EndReset \/ StepWhenDone \/ StepUnparsed \/ EndStep
  <2>1. /\ api' = "idle"
        /\ \E of \in {"reset", "over", "rejected", "step"}, t \in BOOLEAN, e \in Episodes :
             \E obs \in {0, seen[e]} : Answer(of, t, obs, run)
    <3>1. api = "observing_reset" \/ api = "observing_step" => episode > 0
      BY DEF GymInv, Numbered, TypeOK
    <3>2. 1 \in Episodes /\ (episode > 0 => episode \in Episodes)
      BY GymAssumption DEF TypeOK, Episodes
    <3> QED
      BY <1>4, <3>1, <3>2 DEF EndReset, StepWhenDone, StepUnparsed, EndStep, TypeOK
  <2>2. PICK of \in {"reset", "over", "rejected", "step"}, t \in BOOLEAN, e \in Episodes :
          \E obs \in {0, seen[e]} : Answer(of, t, obs, run)
    BY <2>1
  <2>3. 0 \in 0..(MaxTurns + 1) /\ seen[e] \in 0..(MaxTurns + 1)
    BY GymAssumption DEF TypeOK
  <2>4. answer' \in Answers
    BY <2>2, <2>3 DEF Answer, Answers, TypeOK
  <2> QED
    BY <1>4, <2>1, <2>4 DEF EndReset, StepWhenDone, StepUnparsed, EndStep, TypeOK, agent
<1>5. CASE BeginStep
  <2>1. episode \in Episodes
    BY <1>5 DEF BeginStep, TypeOK, Episodes
  <2>2. CASE finished[episode]
    <3>1. answer' \in Answers
      <4>1. answer' = [of |-> "raised", terminated |-> FALSE, seen |-> 0, run |-> run]
        BY <1>5, <2>2 DEF BeginStep, Answer
      <4>2. 0 \in 0..(MaxTurns + 1) /\ run \in 0..MaxEpisodes
        BY GymAssumption DEF TypeOK
      <4> QED
        BY <4>1, <4>2 DEF Answers
    <3> QED
      BY <1>5, <2>2, <3>1 DEF BeginStep, TypeOK
  <2>3. CASE ~finished[episode]
    <3>1. sent' \in [Episodes -> Nat]
      BY <1>5, <2>1, <2>3 DEF BeginStep, TypeOK
    <3>4. finished' \in [Episodes -> BOOLEAN]
      <4>1. finished' = [finished EXCEPT ![episode] = TRUE] /\ finished \in [Episodes -> BOOLEAN]
        BY <1>5, <2>3 DEF BeginStep, TypeOK
      <4> QED
        BY <4>1
    <3>2. sent'[episode] \in Nat
      BY <2>1, <3>1
    <3>3. action' \in [Episodes -> Nat] /\ api' \in Busy
      BY <1>5, <2>3, <3>2 DEF BeginStep, TypeOK, Busy
    <3> QED
      BY <1>5, <2>3, <3>1, <3>3, <3>4 DEF BeginStep, TypeOK
  <2> QED
    BY <2>2, <2>3
<1>6. ASSUME NEW e \in Episodes, Hear(e) \/ Observe(e) \/ Take(e) PROVE TypeOK'
  <2>1. CASE Hear(e)
    <3>1. heard[e] + 1 \in 0..(MaxTurns + 1)
      BY <2>1, GymAssumption DEF Hear, TypeOK
    <3> QED
      BY <2>1, <3>1 DEF Hear, TypeOK, caller
  <2>2. CASE Observe(e)
    BY <2>2 DEF Observe, TypeOK, caller
  <2>3. CASE Take(e)
    BY <2>3 DEF Take, TypeOK, caller
  <2> QED
    BY <1>6, <2>1, <2>2, <2>3
<1>7. ASSUME NEW e \in Episodes, Stop(e) PROVE TypeOK'
  <2>1. heard[e] + 1 \in 0..(MaxTurns + 1) /\ 0 \in 0..(MaxTurns + 1)
    BY <1>7, GymAssumption DEF Stop, GymInv, Turns, TypeOK
  <2>2. heard' \in [Episodes -> 0..(MaxTurns + 1)] /\ seen' \in [Episodes -> 0..(MaxTurns + 1)]
    BY <1>7, <2>1 DEF Stop, TypeOK
  <2> QED
    BY <1>7, <2>2 DEF Stop, TypeOK, caller
<1>8. ASSUME NEW e \in Episodes, InitializeRaises(e) \/ Publish(e) \/ SetDone(e) PROVE TypeOK'
  <2>1. run' \in 0..MaxEpisodes
    <3>1. run' \in {run, e, 0}
      BY <1>8 DEF InitializeRaises, Publish, SetDone
    <3>2. run \in 0..MaxEpisodes
      BY DEF TypeOK
    <3> QED
      BY <3>1, <3>2, GymAssumption DEF Episodes
  <2>4. done' \in BOOLEAN
    BY <1>8 DEF InitializeRaises, Publish, SetDone, TypeOK
  <2>2. thread' \in [Episodes -> {"none", "working", "hearing", "waiting", "returned",
                                 "raised", "published", "ended"}]
    BY <1>8 DEF InitializeRaises, Publish, SetDone, TypeOK
  <2>3. UNCHANGED <<caller, agent, taken>>
    BY <1>8 DEF InitializeRaises, Publish, SetDone
  <2> QED
    BY <2>1, <2>2, <2>3, <2>4 DEF TypeOK, caller, agent
<1>9. CASE UNCHANGED vars
  BY <1>9 DEF TypeOK, vars, caller, agent
<1> QED
  BY <1>1, <1>2, <1>3, <1>4, <1>5, <1>6, <1>7, <1>8, <1>9 DEF Next, Caller, Thread

\* The thread of an episode writes its own entries only.
LEMMA ThreadsApart ==
  ASSUME TypeOK, NEW e \in Episodes, Thread(e)
  PROVE  /\ UNCHANGED <<api, episode, answer, sent>>
         /\ thread[e] # "none" /\ thread'[e] # "none"
         /\ \A d \in Episodes \ {e} :
              /\ thread'[d] = thread[d] /\ finished'[d] = finished[d]
              /\ action'[d] = action[d] /\ taken'[d] = taken[d]
              /\ heard'[d] = heard[d] /\ seen'[d] = seen[d]
<1>1. UNCHANGED <<api, episode, answer, sent>>
  BY DEF Thread, Hear, Observe, Take, Stop, InitializeRaises, Publish, SetDone, caller
<1>2. CASE Hear(e)
  BY <1>1, <1>2 DEF Hear, TypeOK
<1>3. CASE Observe(e)
  BY <1>1, <1>3 DEF Observe, TypeOK
<1>4. CASE Take(e)
  BY <1>1, <1>4 DEF Take, TypeOK
<1>5. CASE Stop(e)
  BY <1>1, <1>5 DEF Stop, TypeOK
<1>6. CASE InitializeRaises(e) \/ Publish(e) \/ SetDone(e)
  BY <1>1, <1>6 DEF InitializeRaises, Publish, SetDone, TypeOK, agent
<1> QED
  BY <1>2, <1>3, <1>4, <1>5, <1>6 DEF Thread
-----------------------------------------------------------------------------
(* Actions.                                                                *)

LEMMA TurnsStep == TypeOK /\ GymInv /\ [Next]_vars => Turns'
<1> SUFFICES ASSUME TypeOK, GymInv, [Next]_vars PROVE Turns'
  OBVIOUS
<1> DEFINE Mine(d) == /\ HandedOn(d)
                      /\ ~finished[d] => thread[d] \in {"hearing", "waiting"}
                      /\ thread[d] = "hearing" => ~finished[d]
                      /\ thread[d] \in {"none", "working", "hearing", "waiting"}
                           => heard[d] <= MaxTurns
<1>1. SUFFICES ASSUME NEW d \in Episodes PROVE Mine(d)'
  BY DEF Turns
<1>2. Mine(d)
  BY DEF GymInv, Turns
<1>3. CASE StartEpisode
  <2>1. episode' = episode + 1 /\ episode \in Nat /\ thread' = [thread EXCEPT ![episode'] = "working"]
    BY <1>3 DEF StartEpisode, TypeOK
  <2>2. d = episode' => thread[d] = "none"
    BY <2>1 DEF GymInv, Numbered, Episodes
  <2>3. UNCHANGED <<finished, action, heard, seen, sent, taken>>
    BY <1>3 DEF StartEpisode, agent
  <2>4. thread'[d] = IF d = episode' THEN "working" ELSE thread[d]
    BY <2>1 DEF TypeOK
  <2> QED
    BY <1>2, <2>2, <2>3, <2>4 DEF HandedOn
<1>4. CASE BeginStep
  <2>1. episode \in Episodes
    BY <1>4 DEF BeginStep, TypeOK, Episodes
  <2>2. CASE finished[episode]
    BY <1>2, <1>4, <2>2 DEF BeginStep, HandedOn
  <2>3. CASE ~finished[episode]
    <3>1. thread[episode] = "waiting" /\ action[episode] = 0 /\ taken[episode] = sent[episode]
      BY <1>4, <2>1, <2>3 DEF BeginStep, GymInv, Turns, HandedOn
    <3>2. /\ sent' = [sent EXCEPT ![episode] = sent[episode] + 1]
          /\ action' = [action EXCEPT ![episode] = sent'[episode]]
          /\ finished' = [finished EXCEPT ![episode] = TRUE]
          /\ UNCHANGED <<thread, heard, taken>>
      BY <1>4, <2>3 DEF BeginStep
    <3>3. CASE d = episode
      <4>1. sent'[d] = sent[d] + 1 /\ action'[d] = sent'[d] /\ finished'[d] = TRUE
        BY <3>2, <3>3 DEF TypeOK
      <4> QED
        BY <1>2, <3>1, <3>2, <3>3, <4>1 DEF HandedOn
    <3>4. CASE d # episode
      <4>1. sent'[d] = sent[d] /\ action'[d] = action[d] /\ finished'[d] = finished[d]
        BY <3>2, <3>4 DEF TypeOK
      <4> QED
        BY <1>2, <3>2, <4>1 DEF HandedOn
    <3> QED
      BY <3>3, <3>4
  <2> QED
    BY <2>2, <2>3
<1>5. CASE \/ BeginReset \/ Poll("resetting", "observing_reset") \/ EndReset \/ StepWhenDone
           \/ StepUnparsed \/ Poll("stepping", "observing_step") \/ EndStep \/ UNCHANGED vars
  <2>1. UNCHANGED <<thread, finished, action, heard, sent, taken>>
    BY <1>5 DEF BeginReset, Poll, EndReset, StepWhenDone, StepUnparsed, EndStep, vars, caller, agent
  <2> QED
    BY <1>2, <2>1 DEF HandedOn
<1>6. ASSUME NEW e \in Episodes, Thread(e) PROVE Mine(d)'
  <2>1. CASE d # e
    <3>1. /\ thread'[d] = thread[d] /\ finished'[d] = finished[d] /\ sent' = sent
          /\ action'[d] = action[d] /\ taken'[d] = taken[d] /\ heard'[d] = heard[d]
      BY <1>6, <2>1, ThreadsApart
    <3> QED
      BY <1>2, <3>1 DEF HandedOn
  <2>2. CASE d = e
    <3>1. CASE Hear(d)
      <4>1. /\ finished'[d] = FALSE /\ thread'[d] = "hearing" /\ heard'[d] = heard[d] + 1
            /\ thread[d] = "working" /\ heard[d] < MaxTurns /\ UNCHANGED <<action, taken, sent>>
        BY <3>1 DEF Hear, TypeOK, caller
      <4>2. heard[d] \in Nat
        BY GymAssumption DEF TypeOK
      <4> QED
        BY <1>2, <4>1, <4>2, GymAssumption DEF HandedOn
    <3>2. CASE Observe(d)
      <4>1. /\ thread'[d] = "waiting" /\ thread[d] = "hearing"
            /\ UNCHANGED <<action, taken, sent, finished, heard>>
        BY <3>2 DEF Observe, TypeOK, caller
      <4> QED
        BY <1>2, <4>1 DEF HandedOn
    <3>3. CASE Take(d)
      <4>1. /\ thread'[d] = "working" /\ thread[d] = "waiting" /\ finished[d]
            /\ action'[d] = 0 /\ taken'[d] = action[d] /\ UNCHANGED <<sent, finished, heard>>
        BY <3>3 DEF Take, TypeOK, caller
      <4> QED
        BY <1>2, <4>1 DEF HandedOn
    <3>4. CASE Stop(d)
      <4>1. /\ thread'[d] \in {"returned", "raised"} /\ thread[d] = "working"
            /\ finished'[d] = TRUE /\ UNCHANGED <<sent, action, taken>>
        BY <3>4 DEF Stop, TypeOK, caller
      <4> QED
        BY <1>2, <4>1 DEF HandedOn
    <3>5. CASE InitializeRaises(d) \/ Publish(d) \/ SetDone(d)
      <4>1. /\ thread'[d] \in {"raised", "published", "ended"}
            /\ thread[d] \in {"working", "returned", "raised", "published"}
            /\ UNCHANGED <<sent, finished, action, taken>>
        BY <3>5 DEF InitializeRaises, Publish, SetDone, TypeOK, caller, agent
      <4> QED
        BY <1>2, <4>1 DEF HandedOn
    <3> QED
      BY <1>6, <2>2, <3>1, <3>2, <3>3, <3>4, <3>5 DEF Thread
  <2> QED
    BY <2>1, <2>2
<1> QED
  BY <1>3, <1>4, <1>5, <1>6 DEF Next, Caller
-----------------------------------------------------------------------------
(* Episodes.                                                               *)

\* Only the thread of the current episode can be on its way to publish.
LEMMA EndsCurrent ==
  ASSUME TypeOK, GymInv, NEW e \in Episodes, Thread(e), ~Silent(e)
  PROVE  e = episode /\ api # "joining"
<1>1. e <= episode
  BY ThreadsApart DEF GymInv, Numbered, TypeOK, Episodes
<1>2. ~(e < episode)
  BY DEF GymInv, Numbered
<1> QED
  BY <1>1, <1>2 DEF GymInv, Numbered, TypeOK, Episodes

\* A thread that is silent stays so as long as nobody sends it an action.
LEMMA SilentStays ==
  ASSUME TypeOK, NEW e \in Episodes, Thread(e), NEW d \in Episodes, Silent(d)
  PROVE  Silent(d)'
<1>1. CASE d # e
  BY <1>1, ThreadsApart DEF Silent
<1>2. CASE d = e
  <2>1. Observe(d)
    BY <1>2 DEF Silent, Thread, Hear, Take, Stop, InitializeRaises, Publish, SetDone
  <2> QED
    BY <2>1 DEF Observe, Silent, TypeOK
<1> QED
  BY <1>1, <1>2

LEMMA NumberedStep == TypeOK /\ GymInv /\ [Next]_vars => Numbered'
<1> SUFFICES ASSUME TypeOK, GymInv, [Next]_vars PROVE Numbered'
  OBVIOUS
<1>1. CASE BeginReset
  <2>1. \A e \in Episodes : e <= episode => Silent(e)
    <3>1. ASSUME NEW e \in Episodes, e = episode PROVE Silent(e)
      BY <1>1, <3>1 DEF BeginReset, GymInv, Current, Turns, Silent, Episodes
    <3> QED
      BY <3>1 DEF GymInv, Numbered, Episodes, TypeOK
  <2>2. /\ api' = "joining" /\ done' = FALSE /\ run' = 0 /\ episode < MaxEpisodes
        /\ UNCHANGED <<episode, thread, finished>>
    BY <1>1 DEF BeginReset, agent
  <2> QED
    BY <2>1, <2>2 DEF GymInv, Numbered, Silent
<1>2. CASE StartEpisode
  <2>1. /\ episode' = episode + 1 /\ episode \in Nat /\ api' = "resetting"
        /\ UNCHANGED <<finished, done, run>>
        /\ \A e \in Episodes : thread'[e] = IF e = episode' THEN "working" ELSE thread[e]
    BY <1>2 DEF StartEpisode, TypeOK, agent
  <2>2. \A e \in Episodes : e < episode' => Silent(e)'
    BY <1>2, <2>1 DEF StartEpisode, GymInv, Numbered, Silent, Episodes
  <2>3. \A e \in Episodes : (thread'[e] = "none") <=> e > episode'
    BY <2>1 DEF GymInv, Numbered, Episodes
  <2> QED
    BY <2>1, <2>2, <2>3 DEF Numbered
<1>3. CASE BeginStep
  <2>1. /\ episode > 0 /\ episode \in Nat /\ api' \in {"idle", "stepping"}
        /\ UNCHANGED <<episode, thread, done, run>>
    <3>1. episode \in Nat
      BY DEF TypeOK
    <3>2. episode > 0 /\ api' \in {"idle", "stepping"}
      BY <1>3 DEF BeginStep
    <3>3. UNCHANGED <<episode, thread, done, run>>
      BY <1>3 DEF BeginStep
    <3> QED
      BY <3>1, <3>2, <3>3
  <2>2. ASSUME NEW e \in Episodes, e < episode PROVE finished'[e] = finished[e]
    <3>1. finished' = finished \/ finished' = [finished EXCEPT ![episode] = TRUE]
      BY <1>3 DEF BeginStep
    <3>2. e # episode
      BY <2>1, <2>2 DEF Episodes
    <3> QED
      BY <3>1, <3>2 DEF TypeOK
  <2> QED
    BY <2>1, <2>2 DEF GymInv, Numbered, Silent
<1>4. CASE \/ Poll("resetting", "observing_reset") \/ EndReset \/ StepWhenDone
           \/ StepUnparsed \/ Poll("stepping", "observing_step") \/ EndStep \/ UNCHANGED vars
  <2>1. /\ UNCHANGED <<episode, thread, done, run, finished>>
        /\ api' = api \/ (api' # "joining" /\ (episode = 0 => api' \in {"idle", "joining"}))
    BY <1>4 DEF Poll, EndReset, StepWhenDone, StepUnparsed, EndStep, vars, caller, agent,
                GymInv, Numbered
  <2> QED
    BY <2>1 DEF GymInv, Numbered, Silent
<1>5. ASSUME NEW e \in Episodes, Thread(e) PROVE Numbered'
  <2>1. /\ UNCHANGED <<api, episode>>
        /\ \A d \in Episodes : (thread'[d] = "none") <=> (thread[d] = "none")
    BY <1>5, ThreadsApart
  <2>2. \A d \in Episodes : Silent(d) => Silent(d)'
    BY <1>5, SilentStays
  <2>3. UNCHANGED <<done, run>> \/ (api # "joining" /\ episode # 0)
    <3>1. CASE Silent(e)
      BY <1>5, <3>1 DEF Silent, Thread, Hear, Observe, Take, Stop, InitializeRaises, Publish, SetDone
    <3>2. CASE ~Silent(e)
      BY <1>5, <3>2, EndsCurrent DEF Episodes
    <3> QED
      BY <3>1, <3>2
  <2> QED
    BY <2>1, <2>2, <2>3 DEF GymInv, Numbered
<1> QED
  BY <1>1, <1>2, <1>3, <1>4, <1>5 DEF Next, Caller

LEMMA CurrentStep == TypeOK /\ GymInv /\ [Next]_vars => Current'
<1> SUFFICES ASSUME TypeOK, GymInv, [Next]_vars PROVE Current'
  OBVIOUS
<1>1. CASE BeginReset
  BY <1>1 DEF BeginReset, Current
<1>2. CASE StartEpisode
  BY <1>2 DEF StartEpisode, GymInv, Numbered, Current
<1>3. CASE Poll("resetting", "observing_reset") \/ Poll("stepping", "observing_step")
  BY <1>3 DEF Poll, GymInv, Current, agent
<1>4. CASE EndReset \/ StepWhenDone \/ StepUnparsed \/ EndStep
  <2>1. /\ UNCHANGED <<episode, done, run, thread, finished>>
        /\ api \in {"idle", "observing_reset", "observing_step"} /\ api' = "idle"
        /\ answer'.of = "step" /\ answer'.terminated => done /\ answer'.run = run
    BY <1>4 DEF EndReset, StepWhenDone, StepUnparsed, EndStep, Answer, agent
  <2> QED
    BY <2>1 DEF GymInv, Current
<1>5. CASE BeginStep
  <2>1. episode \in Episodes
    BY <1>5 DEF BeginStep, TypeOK, Episodes
  <2>2. ~finished[episode]
    BY <1>5 DEF BeginStep, GymInv, Current
  <2> QED
    BY <1>5, <2>1, <2>2 DEF BeginStep, GymInv, Current
<1>6. ASSUME NEW e \in Episodes, Thread(e) PROVE Current'
  <2>1. UNCHANGED <<api, episode, answer>>
    BY <1>6, ThreadsApart
  <2>2. episode # 0 => episode \in Episodes
    BY DEF TypeOK, Episodes
  <2>3. CASE Hear(e) \/ Observe(e) \/ Take(e)
    <3>1. UNCHANGED <<done, run>> /\ thread[e] # "ended"
      BY <2>3 DEF Hear, Observe, Take
    <3>2. ASSUME NEW d \in Episodes PROVE ~finished[d] => ~finished'[d]
      BY <2>3 DEF Hear, Observe, Take, TypeOK, agent
    <3>3. done => e # episode
      BY <3>1 DEF GymInv, Current
    <3>4. done => thread'[episode] = "ended"
      BY <1>6, <2>2, <3>3, ThreadsApart DEF GymInv, Current, Numbered
    <3> QED
      BY <2>1, <2>2, <3>1, <3>2, <3>4 DEF GymInv, Current, TypeOK
  <2>4. CASE Stop(e) \/ InitializeRaises(e) \/ Publish(e) \/ SetDone(e)
    <3>1. ~Silent(e) /\ finished[e]
      BY <2>4 DEF Silent, GymInv, Turns, Stop, InitializeRaises, Publish, SetDone
    <3>2. e = episode /\ api # "joining" /\ thread[e] # "ended"
      BY <1>6, <3>1, EndsCurrent DEF Silent
    <3>3. ~done
      BY <3>2 DEF GymInv, Current
    <3>4. run' \in {0, episode}
      BY <2>4, <3>2 DEF GymInv, Current, Stop, InitializeRaises, Publish, SetDone
    <3>5. done' => thread'[episode] = "ended"
      BY <2>4, <3>2, <3>3 DEF Stop, InitializeRaises, Publish, SetDone, TypeOK
    <3>6. api \notin {"idle", "observing_reset", "observing_step"}
      BY <3>1, <3>2, <3>3 DEF GymInv, Current, Episodes
    <3> QED
      BY <2>1, <3>4, <3>5, <3>6 DEF Current
  <2> QED
    BY <1>6, <2>3, <2>4 DEF Thread
<1>7. CASE UNCHANGED vars
  BY <1>7 DEF vars, caller, agent, GymInv, Current
<1> QED
  BY <1>1, <1>2, <1>3, <1>4, <1>5, <1>6, <1>7 DEF Next, Caller

LEMMA GymCorrect == Spec => [](TypeOK /\ GymInv)
<1>1. Init => TypeOK /\ GymInv
  <2> SUFFICES ASSUME Init PROVE TypeOK /\ GymInv
    OBVIOUS
  <2>1. /\ api = "idle" /\ episode = 0 /\ answer = NoAnswer /\ ~done /\ done \in BOOLEAN /\ run = 0
        /\ \A e \in Episodes : /\ sent[e] = 0 /\ thread[e] = "none" /\ finished[e]
                               /\ action[e] = 0 /\ heard[e] = 0 /\ seen[e] = 0 /\ taken[e] = 0
    BY DEF Init, PerEpisode
  <2>2. 0 \in 0..MaxEpisodes /\ 0 \in 0..(MaxTurns + 1) /\ 0 <= MaxTurns
    BY GymAssumption
  <2>3. TypeOK
    <3>1. answer \in Answers
      BY <2>1, <2>2 DEF NoAnswer, Answers
    <3>2. finished \in [Episodes -> BOOLEAN]
      BY DEF Init, PerEpisode
    <3> QED
      BY <2>1, <2>2, <3>1, <3>2 DEF Init, PerEpisode, TypeOK
  <2>4. GymInv
    BY <2>1, <2>2 DEF GymInv, Turns, HandedOn, Numbered, Current, NoAnswer, Episodes
  <2> QED
    BY <2>3, <2>4
<1>2. TypeOK /\ GymInv /\ [Next]_vars => (TypeOK /\ GymInv)'
  BY TypeStep, TurnsStep, NumberedStep, CurrentStep DEF GymInv
<1> QED
  BY <1>1, <1>2, PTL DEF Spec

\* Every variable of the gym interface keeps its type.
THEOREM TypeCorrect == Spec => []TypeOK
BY GymCorrect, PTL

\* The orchestrator gets every action once, in the order in which step() was
\* called, never None in its place, and a caller is never told it is not its turn.
THEOREM TakenOnce == Spec => []ActionsTakenOnce
<1>1. TypeOK /\ GymInv => ActionsTakenOnce
  <2> SUFFICES ASSUME TypeOK, GymInv PROVE ActionsTakenOnce
    OBVIOUS
  <2>1. NeverOutOfTurn
    BY DEF NeverOutOfTurn, GymInv, Current
  <2>2. ASSUME NEW e \in Episodes
        PROVE  /\ taken[e] \in {sent[e] - 1, sent[e]} \cap Nat
               /\ thread[e] = "waiting" => (finished[e] <=> action[e] = taken[e] + 1)
               /\ thread[e] = "waiting" => (~finished[e] <=> action[e] = 0)
    <3>1. sent[e] \in Nat /\ taken[e] \in Nat /\ action[e] \in Nat /\ HandedOn(e)
      BY DEF TypeOK, GymInv, Turns
    <3> QED
      BY <3>1 DEF HandedOn
  <2> QED
    BY <2>1, <2>2 DEF ActionsTakenOnce
<1> QED
  BY <1>1, GymCorrect, PTL

\* A thread that reset() did not wait for can no longer publish its run or its
\* end, and a run that is reported is that of the episode it is reported for.
THEOREM Apart == Spec => []EpisodesApart
<1>1. TypeOK /\ GymInv => EpisodesApart
  BY DEF GymInv, Numbered, Current, Silent, EpisodesApart, OrphansSilent, RunIsCurrent
<1> QED
  BY <1>1, GymCorrect, PTL
=============================================================================
