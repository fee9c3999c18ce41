-------------------------------- MODULE GymEnv --------------------------------
(***************************************************************************)
(* The gymnasium interface (src/tau2/gym/gym_agent.py): AgentGymEnv, whose *)
(* reset() and step() are called from outside, the thread that runs the    *)
(* orchestrator of each episode, and GymAgent, through which the two hand  *)
(* each other observations and actions.  UserGymEnv and GymUser repeat     *)
(* the same code for the other side of the dialogue.                       *)
(*                                                                         *)
(* Every read of a shared variable that is not under GymAgent._lock is a   *)
(* step of its own.  The orchestrator between two turns is one step: what  *)
(* it does is HalfDuplex.                                                  *)
(***************************************************************************)
EXTENDS Integers, FiniteSets

CONSTANTS
  MaxEpisodes, \* bound: calls of reset()
  MaxTurns     \* max_steps, as turns of the agent in one episode

ASSUME GymAssumption == MaxEpisodes \in Nat \ {0} /\ MaxTurns \in Nat

Episodes == 1..MaxEpisodes

VARIABLES
  api,      \* where the caller is in reset() or step()
  episode,  \* number of the current orchestrator, agent and thread; 0: none yet
  done,     \* _simulation_done
  run,      \* _simulation_run: the episode it is of; 0 is None
  answer,   \* what the last call returned
  thread,   \* per episode: where its orchestrator thread is
  finished, \* per agent: _agent_turn_finished
  action,   \* per agent: _next_action; 0 is None
  heard,    \* per agent: incoming messages in state.messages
  seen,     \* per agent: how many of them _observation has; 0 is empty
  sent,     \* per episode: actions step() has handed over
  taken     \* per episode: the last action the orchestrator got

caller == <<api, episode, answer, sent>>
agent == <<finished, action, heard, seen>>
vars == <<caller, done, run, thread, agent, taken>>

NoAnswer == [of |-> "none", terminated |-> FALSE, seen |-> 0, run |-> 0]
PerEpisode(v) == [e \in Episodes |-> v]

Init ==
  /\ api = "idle" /\ episode = 0 /\ answer = NoAnswer /\ sent = PerEpisode(0)
  /\ done = FALSE /\ run = 0
  /\ thread = PerEpisode("none")
  /\ finished = PerEpisode(TRUE) /\ action = PerEpisode(0)
  /\ heard = PerEpisode(0) /\ seen = PerEpisode(0) /\ taken = PerEpisode(0)
-----------------------------------------------------------------------------
(* The caller.  _lock lets one call in at a time.                          *)

Answer(of, terminated, obs, sim) ==
  answer' = [of |-> of, terminated |-> terminated, seen |-> obs, run |-> sim]

\* reset() forgets the last episode ...
BeginReset ==
  /\ api = "idle" /\ episode < MaxEpisodes
  /\ run' = 0 /\ done' = FALSE
  /\ api' = "joining"
  /\ UNCHANGED <<episode, answer, sent, thread, agent, taken>>

\* ... waits a second for its thread, goes on in any case, and starts another.
StartEpisode ==
  /\ api = "joining"
  /\ episode' = episode + 1
  /\ thread' = [thread EXCEPT ![episode'] = "working"]
  /\ api' = "resetting"
  /\ UNCHANGED <<answer, sent, done, run, agent, taken>>

\* Mutant: the call does not wait.
NoPoll(from, to) ==
  /\ api = from /\ api' = to
  /\ UNCHANGED <<episode, answer, sent, done, run, thread, agent, taken>>

\* The polling loop of both calls: until done, or it is the agent's turn.
Poll(from, to) ==
  /\ api = from
  /\ done \/ ~finished[episode]
  /\ api' = to
  /\ UNCHANGED <<episode, answer, sent, done, run, thread, agent, taken>>

\* An episode that is over at once has no initial observation.
EndReset ==
  /\ api = "observing_reset"
  /\ IF done THEN Answer("reset", FALSE, 0, run)
             ELSE Answer("reset", FALSE, seen[episode], run)
  /\ api' = "idle"
  /\ UNCHANGED <<episode, sent, done, run, thread, agent, taken>>

\* step() of an episode that is over.
StepWhenDone ==
  /\ api = "idle" /\ episode > 0 /\ done
  /\ Answer("over", TRUE, 0, run)
  /\ UNCHANGED <<api, episode, sent, done, run, thread, agent, taken>>

\* An action string that does not parse changes nothing.
StepUnparsed ==
  /\ api = "idle" /\ episode > 0 /\ ~done
  /\ Answer("rejected", FALSE, 0, run)
  /\ UNCHANGED <<api, episode, sent, done, run, thread, agent, taken>>

\* GymAgent.set_action, under the agent's lock: RuntimeError out of turn.
BeginStep ==
  /\ api = "idle" /\ episode > 0 /\ ~done
  /\ thread[episode] # "hearing"
  /\ IF finished[episode]
     THEN /\ Answer("raised", FALSE, 0, run)
          /\ UNCHANGED <<api, sent, finished, action>>
     ELSE /\ sent' = [sent EXCEPT ![episode] = @ + 1]
          /\ action' = [action EXCEPT ![episode] = sent'[episode]]
          /\ finished' = [finished EXCEPT ![episode] = TRUE]
          /\ api' = "stepping"
          /\ UNCHANGED answer
  /\ UNCHANGED <<episode, done, run, thread, heard, seen, taken>>

\* step() looks at done again, formats the observation, and rates the run.
EndStep ==
  /\ api = "observing_step"
  /\ Answer("step", done, seen[episode], run)
  /\ api' = "idle"
  /\ UNCHANGED <<episode, sent, done, run, thread, agent, taken>>

Caller == \/ BeginReset \/ StartEpisode \/ Poll("resetting", "observing_reset") \/ EndReset
          \/ StepWhenDone \/ StepUnparsed \/ BeginStep
          \/ Poll("stepping", "observing_step") \/ EndStep
-----------------------------------------------------------------------------
(* The thread of episode e: _run_orchestrator, through generate_next_      *)
(* message() and stop() of its agent.                                      *)

\* generate_next_message gives the turn away first ...
Hear(e) ==
  /\ thread[e] = "working" /\ heard[e] < MaxTurns
  /\ finished' = [finished EXCEPT ![e] = FALSE]
  /\ heard' = [heard EXCEPT ![e] = @ + 1]
  /\ thread' = [thread EXCEPT ![e] = "hearing"]
  /\ UNCHANGED <<caller, done, run, action, seen, taken>>

\* ... and sets the observation afterwards, still holding the lock.
Observe(e) ==
  /\ thread[e] = "hearing"
  /\ seen' = [seen EXCEPT ![e] = heard[e]]
  /\ thread' = [thread EXCEPT ![e] = "waiting"]
  /\ UNCHANGED <<caller, done, run, finished, action, heard, taken>>

\* Mutant: the action is not reset.
TakeAndKeep(e) ==
  /\ thread[e] = "waiting" /\ finished[e]
  /\ taken' = [taken EXCEPT ![e] = action[e]]
  /\ thread' = [thread EXCEPT ![e] = "working"]
  /\ UNCHANGED <<caller, done, run, agent>>

\* The event is set: the action goes to the orchestrator.
Take(e) ==
  /\ thread[e] = "waiting" /\ finished[e]
  /\ taken' = [taken EXCEPT ![e] = action[e]]
  /\ action' = [action EXCEPT ![e] = 0]
  /\ thread' = [thread EXCEPT ![e] = "working"]
  /\ UNCHANGED <<caller, done, run, finished, heard, seen>>

\* GymAgent.stop with a last message: the history and that message.  Without
\* one, for a dialogue whose last word is the agent's, and when run() raises:
\* the conditional expression makes it an empty list.
Stop(e) ==
  /\ thread[e] = "working"
  /\ \/ /\ heard' = [heard EXCEPT ![e] = @ + 1]
        /\ seen' = [seen EXCEPT ![e] = heard'[e]]
        /\ thread' = [thread EXCEPT ![e] = "returned"]
     \/ /\ seen' = [seen EXCEPT ![e] = 0]
        /\ thread' = [thread EXCEPT ![e] = "returned"]
        /\ UNCHANGED heard
     \/ /\ seen' = [seen EXCEPT ![e] = 0]
        /\ thread' = [thread EXCEPT ![e] = "raised"]
        /\ UNCHANGED heard
  /\ finished' = [finished EXCEPT ![e] = TRUE]
  /\ UNCHANGED <<caller, done, run, action, taken>>

\* initialize() raises: neither agent nor user is stopped.
InitializeRaises(e) ==
  /\ thread[e] = "working" /\ heard[e] = 0
  /\ thread' = [thread EXCEPT ![e] = "raised"]
  /\ UNCHANGED <<caller, done, run, agent, taken>>

\* Mutant: the event first, the run second.
PublishDone(e) ==
  /\ thread[e] \in {"returned", "raised"}
  /\ done' = TRUE
  /\ thread' = [thread EXCEPT ![e] = "published"]
  /\ UNCHANGED <<caller, run, agent, taken>>

\* The finally clause: the run first, the event second.
Publish(e) ==
  /\ thread[e] \in {"returned", "raised"}
  /\ run' = IF thread[e] = "returned" THEN e ELSE 0
  /\ thread' = [thread EXCEPT ![e] = "published"]
  /\ UNCHANGED <<caller, done, agent, taken>>

\* Mutant: the event is not set when the orchestrator raised.
SetDoneIfRun(e) ==
  /\ thread[e] = "published"
  /\ done' = (run # 0)
  /\ thread' = [thread EXCEPT ![e] = "ended"]
  /\ UNCHANGED <<caller, run, agent, taken>>

SetDone(e) ==
  /\ thread[e] = "published"
  /\ done' = TRUE
  /\ thread' = [thread EXCEPT ![e] = "ended"]
  /\ UNCHANGED <<caller, run, agent, taken>>

Thread(e) == \/ Hear(e) \/ Observe(e) \/ Take(e) \/ Stop(e) \/ InitializeRaises(e)
             \/ Publish(e) \/ SetDone(e)

Next == Caller \/ \E e \in Episodes : Thread(e)

Spec == Init /\ [][Next]_vars

\* The poll comes round again and again, and the orchestrator's thread goes on
\* until it waits for an action: every LLM and tool call returns.
FairSpec ==
  /\ Spec
  /\ \A e \in Episodes : WF_vars(Thread(e))
  /\ WF_vars(StartEpisode \/ EndReset \/ EndStep)
  /\ WF_vars(Poll("resetting", "observing_reset") \/ Poll("stepping", "observing_step"))
-----------------------------------------------------------------------------
(* Properties.                                                             *)

Busy == {"joining", "resetting", "observing_reset", "stepping", "observing_step"}

Answers == [of : {"none", "reset", "step", "over", "rejected", "raised"},
            terminated : BOOLEAN, seen : 0..(MaxTurns + 1), run : 0..MaxEpisodes]

\* The types of the variables.
TypeOK ==
  /\ api \in {"idle"} \cup Busy
  /\ episode \in 0..MaxEpisodes
  /\ done \in BOOLEAN /\ run \in 0..MaxEpisodes
  /\ answer \in Answers
  /\ thread \in [Episodes -> {"none", "working", "hearing", "waiting", "returned",
                              "raised", "published", "ended"}]
  /\ finished \in [Episodes -> BOOLEAN]
  /\ heard \in [Episodes -> 0..(MaxTurns + 1)] /\ seen \in [Episodes -> 0..(MaxTurns + 1)]
  /\ action \in [Episodes -> Nat] /\ sent \in [Episodes -> Nat] /\ taken \in [Episodes -> Nat]

\* A caller who respects the interface never gets set_action's RuntimeError:
\* between two calls it is the agent's turn, or the episode is over.
NeverOutOfTurn ==
  api = "idle" /\ episode > 0 => done \/ ~finished[episode]

\* Every action is taken by the orchestrator once, in the order of the steps,
\* and never with None in place of an action: each wake-up finds one.  And nobody
\* who respects the interface acts out of turn.
ActionsTakenOnce ==
  /\ NeverOutOfTurn
  /\ \A e \in Episodes :
       /\ taken[e] \in {sent[e] - 1, sent[e]} \cap Nat
       /\ thread[e] = "waiting" => (finished[e] <=> action[e] = taken[e] + 1)
       /\ thread[e] = "waiting" => (~finished[e] <=> action[e] = 0)

\* The thread an abandoned episode leaves behind waits for an action that never
\* comes, or has ended: it can no longer publish its run or its end into the
\* episode that is under way, whatever reset() did not wait for.
OrphansSilent ==
  \A e \in Episodes :
    e < episode => \/ thread[e] = "ended"
                   \/ /\ thread[e] \in {"hearing", "waiting"}
                      /\ ~finished[e]

\* The run a call reports is that of the current episode, and a step that says
\* terminated has waited for it.
RunIsCurrent ==
  /\ run \in {0, episode}
  /\ done => thread[episode] = "ended"
  /\ answer.of = "step" /\ answer.terminated /\ api = "idle" => answer.run = run

\* Neither episode meddles with the other, before or after reset().
EpisodesApart == OrphansSilent /\ RunIsCurrent

\* Every call of reset() and step() returns.
CallsReturn == \A where \in Busy : api = where ~> api = "idle"

\* generate_next_message: it "updates the agent's observation with the current
\* message history and signals that an observation is ready": a call that
\* returns has the observation of the turn it hands to the caller.
ObservationFresh ==
  api = "idle" /\ ~done /\ answer.of \in {"reset", "step"} => answer.seen = heard[episode]
=============================================================================
