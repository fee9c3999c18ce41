# A TLA+ model of tau2

This directory holds the formal verification project for tau2 (`src/src/tau2`),
the framework that lets a language-model agent talk to a simulated user and to a
tool environment, and records, resumes and rates the conversations. The modules
model the parts of the program that have control worth checking: the two
orchestrators, the batch runner with its two checkpoint formats, the gym
interface, the turn taking of the voice user and what its LLM is shown, the audio of the voice agent and its
session with one speech service, the cascade of three others, the tools of four domains with the
environments the evaluator rebuilds, and the grader of the pilot. TLC checks them
on small instances; for the orchestrators, the batch runner, the directory checkpoint, the
gym interface, the voice user, the voice agent's audio and text, its session, the cascade, and
the four domains TLAPS proves the safety properties for every value of the constants. Paths below are relative
to `src/src/tau2`.

All commands run in this directory: `tlc -config HalfDuplex.cfg MCHalfDuplex`,
`tlapm BatchRunnerProofs.tla`, and so on for the other modules named `...Proofs` and for
`SequenceLemmas`.

The repository is a fork of tau2 with a pilot of its own, graders that look for
actions the simulated user refused (the pre-flight requirements). The voice part
is unused by the pilot but complete in the source, and modelled.

## 1. Inventory

| component | state it keeps | operations | how it interacts |
|---|---|---|---|
| half-duplex orchestrator (`orchestrator/orchestrator.py`) | `from_role`, `to_role`, `message`, `done`, `termination_reason`, `step_count`, `num_errors`, `trajectory` | `initialize`, `step`, `_check_termination`, `_finalize`, `_cleanup` | calls agent, user, environment; run by the batch runner or the gym thread |
| full-duplex orchestrator (`orchestrator/full_duplex_orchestrator.py`) | the chunk each side said last, pending tool results per side, `ticks`, the counters above | `initialize`, `step` (one tick), `_check_termination`, `_finalize`, `_cleanup` | the same, with a chunk of each side per tick |
| batch runner (`runner/batch.py`, `runner/progress.py`) | thread pool and futures, `shutdown_event`, `StatusMonitor`'s counters, the collected results | `run_tasks`, `_run_tracked`, `run_with_retry`, `check_hallucination` reruns, Ctrl+C | shares the results file between workers through `save_fn` and `replace_fn` |
| checkpoint (`runner/checkpoint.py`, `Results` in `data_model/simulation.py`) | `results.json`; in the directory format also `simulations/*.json`, and in memory `_saved_keys`, `_key_to_sim_id`, `_index_by_id` | `try_resume`, save, replace, `_flush_index`, load | survives the process; read by the next one |
| gym interface (`gym/gym_agent.py`) | `_simulation_done`, `_simulation_run`, per agent `_agent_turn_finished`, `_next_action`, `_observation` | `reset`, `step`, `set_action`, `generate_next_message`, `stop`, `_run_orchestrator` | the caller's thread and one orchestrator thread per episode |
| voice user (`agent/base/streaming.py`, `user/user_simulator_streaming.py`) | output queue, input buffer, six timers, `is_backchanneling`, `delivering_tool_result_speech`, `waiting_for_tool_results` | `get_next_chunk`, the turn-taking policy, the five actions, tool results | one participant of the full-duplex orchestrator |
| text agents and user (`agent/llm_agent.py`, `user/user_simulator.py`) | message histories | `generate_next_message`, `stop`, `is_stop` | participants of the half-duplex orchestrator |
| discrete-time audio agent and provider adapters (`agent/discrete_time_audio_native_agent.py`, `voice/audio_native`) | the audio left over from the last tick, the item to skip, text and audio per utterance, pending tool results | `run_tick`: flush results, send, receive, process events, cut and buffer | the other participant of a voice run; one adapter per speech service |
| Gemini session (`voice/audio_native/gemini/provider.py`) | session and its handle, receive task, event queue, events kept over a reconnection, four reconnection flags | `connect`, `_receive_loop_coro`, `perform_pending_reconnection`, `send_audio`, `receive_events_for_duration`, `disconnect` | the receive loop and the adapter's tick are coroutines of one event loop |
| LiveKit cascade (`voice/audio_native/livekit`) | STT events, accumulated transcript and when it last grew, `_state`, the model's context; in the adapter the event queue, audio left over, pending results | `run_tick`, `process_audio`, `send_tool_result`, `_process_llm`, `_process_tts`, the STT receiver | every tick starts tasks that may outlive it; they share the provider's state in one event loop |
| environment (`environment/`) | the agent's and the user's databases and toolkits | `get_response`, `make_tool_call`, `set_state`, `run_env_function_call`, `sync_tools` | called by the orchestrators and, to replay, by the evaluators |
| telecom domain (`domains/telecom`) | lines, bills, data usage on one side; the phone, its settings and a payment request on the other | the tools of agent and user, `sync_tools`, the task managers | the one domain with two databases, which `sync_tools` keeps in step |
| banking domain (`domains/banking_knowledge`) | accounts, debit cards, orders, credit card accounts, requests, disputes, transactions: tables of records | the tools, given and unlocked in the conversation | the tables refer to each other by id only |
| retail and airline domains (`domains/retail`, `domains/airline`) | orders, reservations, seats, payment histories, gift cards, certificates | the agent's tools | one user's means of payment serve several orders or reservations |
| evaluators and reviewers (`evaluator/`) | two more environments, the replayed and the gold one | `evaluate_simulation`, the LLM judges, pre-flight requirements | after a simulation, over its trajectory |
| pre-flight pilot (`evaluator/preflight_requirements_evaluator.py`, `evaluator/constraint_evaluator.py`, `src/poc/run_airline.py`) | a trajectory of rows | record a conversation, grade it against what the user refused | the grader reads what the recorder wrote |
| metrics, knowledge, API service, scripts, command line | caches, pools of sandboxes | statistics, retrieval, reporting | around the rest |

What is hard in them, and what makes each correct:

- **Half-duplex orchestrator.** Three routines change who is to receive what
  (`initialize` in three modes, `step` in three branches, `_finalize`), errors and
  limits end the run at each of them, and an exception may cut any of them short.
  It is correct if every message reaches its receiver once and in order, tool calls
  and results stay paired (the evaluators replay the trajectory), the reported
  reason is borne out by the conversation, and both participants are stopped.
- **Full-duplex orchestrator.** The user moves before the agent in a tick, yet the
  two are meant to be simultaneous; tool results travel on a channel of their own.
  It is correct if each hears the other exactly one tick late and each result
  arrives exactly once, also when the tick of the call was the last.
- **Batch runner and JSON checkpoint.** Worker threads, retries, reruns with
  another seed, placeholders for failed runs, Ctrl+C, crashes and resumption all
  write or read one file, and the next start may come with another configuration. It is
  correct if nothing recorded is lost, repeated or duplicated, if every run is accounted
  for, and if every batch ends.
- **Directory checkpoint.** A save is three changes of the disk, a replacement
  four, and the process may die, or a write fail, between any two. It is correct
  if the loader's view is that of a store whose rows change at one stroke.
- **Gym interface.** Two threads poll flags that only one side protects by a lock;
  `reset` abandons threads it could not join. It is correct if each action is
  taken once and in order, an abandoned episode never touches the next one, and
  every call returns.
- **Voice user.** Counters and flags are reset in many branches. It is correct if
  the user gives way in time, finishes backchannels, and never waits for good, and if
  its LLM is shown each thing said and each result once, in an order that makes sense.
- **Voice agent.** Audio comes faster than it is played, an interruption hits what has
  been played, what waits and what is still on its way, and each adapter has its own
  way to tell them apart. It is correct if an answer nobody interrupts is heard whole and
  once, an interrupted one falls silent, and text keeps up with audio.
- **Gemini session.** The server announces that it will close the session, or just does,
  while one coroutine reads and another writes. It is correct if no event is lost to a
  reconnection, nothing uses a session that is torn down, and the agent goes on listening.
- **LiveKit cascade.** The task that heard the user speaks the answer, while later ticks
  start tasks that hear, ask and speak as well. It is correct if each thing the user is
  understood to say is put to the model once and in the end, and answers nobody
  interrupts are played whole.
- **Pre-flight pilot.** A use of a tool may leave one row, two or none of a kind. It
  is correct if the verdict depends only on what the agent did.
- **Environment and evaluators.** A conversation is played in one environment and
  rated by comparing two others, one rebuilt from the trajectory and one on which
  the reference actions are performed; the live one runs `sync_tools` after every
  call, the others do so at other moments. It is correct if the rebuilt environment is
  the live one and a conversation that follows the reference has the state it is compared with.
- **Telecom.** Tasks are composed from up to nine issues, and the calls that mend them
  may be made in any order by two parties; some settings take effect only after a
  later tool. It is correct if a task is fixed by its fixes in every order and by
  nothing less, and if operator and phone agree on what is to be paid.
- **Banking, retail, airline.** Each tool checks what it looks at, and a sequence of
  tools each of which is right may still leave two active cards, a refund too many,
  or a certificate gone for nothing. They are correct if money, cards and seats add up
  after any sequence.

`PROJECT.json` lists every component with its status, and every hazard at its line
with the properties that would notice it.

## 2. Modules and the code they stand for

`map` in `PROJECT.json` names the lines of every definition. In all modules an
action is one step of one thread up to the next point where another thread, a
crash or an exception can come between; names follow the source.

- **Dialogue** - the abstract dialogue: one floor, text passes it to the other
  party, tool calls to the environment and back, a closed dialogue stays closed,
  and every dialogue closes.
- **HalfDuplex** (with **MCHalfDuplex** for the tasks' histories) - one call of
  `run()`. `pc` is where it is: `initialize` (outside the try block: an exception
  there leaves by `"aborted"`, without cleanup), the loop, the check, `_finalize`,
  `_cleanup`. A message is its sender, its receiver, what its text is (blank,
  audio only, plain, with a stop token) and how many tools it calls. `message`
  holds positions in `trajectory`, so that `inbox` can record which messages each
  participant was handed. An empty list of tool calls is not told apart from none.
  A task's history is any that `set_state`, which replays it, and `validate_message_history`
  let through (`Replayable`): each result right behind its call, none missing at the end.
- **FullDuplex** - one call of `run()` of the full-duplex class: the user's turn,
  the agent's turn and the end of a tick are steps of their own, because an
  exception can end the run between them. A chunk is known by its tick.
- **BatchRunner** - `run_tasks` with its workers and the JSON checkpoint. `main` is
  the main thread, `job[r]` the worker of run `r`, `file`, `tasks` and `saved` the
  disk. A save is one step: it is made under the lock and ends in `os.replace`.
  `CreateFile` and `LoadFile` open the file for writing; it is `"torn"` until
  `FinishWrite`. `Die` loses everything but the disk. `RefuseResume` covers a task
  set that lost a task and a file that does not parse. Every start has a configuration of
  its own (`Configurations`): how many of the tasks, which join in one order, and which
  (trial, seed) pairs; its product is `planned`. `LoadFile` accepts any that does not lose a
  task, as `--auto-resume` does (`runner/checkpoint.py:108`). A change of other options
  does not show in the model; modified tasks are refused, like lost ones.
- **CheckpointStore** - the abstract checkpoint, which both formats implement: rows are
  added, exchanged and, for failed runs, dropped, each at one stroke.
- **DirCheckpoint** - the directory format, one action per change of the disk. `OpenMeta`
  truncates `results.json` and with it the index; `Open` submits jobs for any set of runs
  without a record, which is what a changed configuration may plan.
- **Checkpoints** (with **MCCheckpoints** for the configurations) - the format a batch uses:
  BatchRunner or DirCheckpoint moves, the other stays as it starts.
- **GymEnv** - the caller (`api`), the thread of each episode, and the agent
  between them. Each read of shared state without the agent's lock is its own
  step, so the gap between clearing the event and setting the observation shows.
- **TurnTaking** - the voice user, one action per tick. `overheard` is the speech at
  the end of the input buffer, the timers count ticks and stop above the
  thresholds they are compared with. Left out: a yield threshold of None,
  `backchannel_min` of None, `discard_overlapping_speech`, the variance of
  thresholds, the contents of chunks.
- **Linearize** - the sequence of messages the user's LLM is shown, as an operator on the
  ticks recorded (`Linearized`, strategy `CONTAINMENT_AWARE`, the one in use), and the
  machine that records ticks (`AskLlm`, `RecordTick`). Ticks that are expanded make the
  `Timeline`; segments are sets of its ticks and the passes of `_apply_containment_rules`
  give each chunk of a segment a place, a tick and a priority (`AllPlaces`); the output is in
  the order of places (`Sooner`). The reference (`Precedes`) orders two chunks at a
  time by the rules of the docstring, and knows nothing of segments or passes. Left out:
  the other four strategies, no silence annotations at all, results whose id matches no call,
  the merging of chunks.
- **AudioTick** - one tick of `DiscreteTimeAdapter` and the event handlers of five
  adapters, whose differences are one action each (`OpenAIAudioDelta`, ...). A piece of
  audio is an item and a position, a tick plays `TickLength` pieces; of the text only the
  number of pieces shown counts. `playedAudio`, `mixed`, `bargedInto` and `ignored` are
  history: an interruption is about all answers begun, and OpenAI's adapter ignores it when
  the tick holds no audio. The
  service sends its items one after the other, and at most one ahead of the current one.
- **GeminiSession** - the receive loop (`Receive`, `ConnectionClosed`, `ReceiveFails`) and
  the tick (`at`), one action per stretch between two awaits. Events are numbered as they
  are read. `ServerCloses` may come at any time, with or without a GoAway. The calls among
  the events of a tick (`CallsAmong`) are picked by a recursive function, which can be
  reasoned about.
- **Cascade** - the provider and the adapter of the LiveKit cascade. `tasks` are those of
  `_drain_to_queue`: waiting for STT events, for the model, or speaking. A tick ends and
  the next one begins in one step, as nothing but the wait lies between; queues are
  unbounded, so putting an event does not wait. `batch` is what a task has taken from STT
  and not yet handled, `interrupted` and `playedPieces` are history. Where a transcript is -
  queued, in a batch, accumulated, or in the context - is one of `Places`, and `AudioStream`
  is the audio played, in the tick and queued, in this order.
- **Voice** - the parts of a voice run side by side, one of which moves (`part`), each
  against everything its neighbours may do.
- **PreflightGrading** - `run_task` of the pilot as the machine that writes a
  trajectory row by row (text or not, calls executed or cut off), and the graders as
  operators on the trajectory. What is said is left out; a failing API ends the run
  unsaved.
- **Telecom** - the domain's two databases as one record per environment, every
  tool an operator on it, `MakeToolCall` and `GetResponse` as in `environment.py`. A
  task is a set of base tasks (`issues`) that one of the three managers composes;
  `FixCall` makes the next call of the fix of one issue, `Detour` any other call,
  unknown tools and tools of the wrong party included. `env` holds the live
  environment, the one `set_state` rebuilds as the trajectory grows, and the gold
  one, on which reference calls are made by `MakeToolCall` without `SyncTools`. `DbMatch` is
  the evaluator's comparison of the latter two, up to ids drawn at random, which are known by
  the environment that drew them (`drawn`). There is room for two draft bills (`RoomForBill`), a bound.
- **Banking** - one customer's tables; an action is a tool call that passes its
  checks. A balance remembers whether it was last written with a dollar sign, for
  `float()` does not read those. Records whose id is a hash of their contents are
  members of sets.
- **Retail**, **Airline** - the orders or reservations of one user, with the payment
  histories as the tools write them. A booking is a list of flights, which may name one
  twice (`Entries`). Only `book_reservation` can raise after it has
  changed something, and has an action for it. The statuses `pending (item modified)`,
  `exchange requested` and `return requested` are written as one word each. Amounts are
  integers; the program rounds its floats to cents.
- **Money** - what a list of amounts comes to, as a recursive function.
- **Domains** (with **MCDomains** for prices and fares) - one simulation is played in
  one domain: the four behind one constructor.
- **BatchRunnerProofs**, **HalfDuplexProofs**, **DirCheckpointProofs** and **GymEnvProofs**
  - theorems about the module of that name; **VoiceProofs** about
  FullDuplex, TurnTaking, Linearize, GeminiSession and AudioTick as parts of Voice, and about
  Cascade; **DomainsProofs** about Banking, Airline and Retail and **TelecomProofs** about
  Telecom as parts of Domains. **SequenceLemmas** is what they share.

How they compose: HalfDuplex implements Dialogue by a refinement mapping. BatchRunner
implements CheckpointStore with `recorded <- saved` but for a death while the file is open
for writing, DirCheckpoint with `recorded <- Rows`, its index, until a write fails. GymEnv's thread
and BatchRunner's `Execute` stand for a whole HalfDuplex or FullDuplex run: a
simulation or an exception, after any number of turns. TurnTaking stands for one
of FullDuplex's participants, and relies on FullDuplex's `ResultsOnNextTick` for
tool results to come; AudioTick stands for the other one and GeminiSession for the
service under it; Cascade is another service with its adapter, on its own. Voice extends these but Cascade,
and Linearize. They share no variable: FullDuplex is checked
with arbitrary chunks, AudioTick with an arbitrary service, and so on, which covers every
composition of them; one run starts each. Domains extends Telecom, Banking, Retail and Airline; what
HalfDuplex and FullDuplex see of it is one answer per call, an error or not, and
`ReplayFaithful` relies on their pairing of calls and results
(`ToolResultsPaired`, in `ToolCallsSettled`), which `set_state` requires of a trajectory.

## 3. Runs

| run | instance | distinct states | what it shows |
|---|---|---|---|
| `half_duplex` | 4 steps, 2 errors, 2 tool calls per message, 10 histories, timeout | 83 728 | routing, pairing, delivery, termination and cleanup; refinement of Dialogue with its liveness |
| `batch` | JSON: starts with three trials of one task or one of two, 2 threads, 1 retry, 1 hallucination retry, 1 death or Ctrl+C; directory: 2 runs, 2 deaths, 2 failing writes | 869 720 | both formats refine CheckpointStore; nothing lost, repeated or duplicated; every run accounted for; every batch ends; only the lock's holder is in doubt; memory matches the files |
| `gym` | 3 episodes, 3 turns | 50 428 | actions once and in order, orphans silent, calls return |
| `voice` | orchestrator: 3 steps, 3 errors, 2 calls per chunk, timeout; user: all four kinds, thresholds of 1 to 4 ticks, utterances of 1, 2 and 4 chunks; agent: 5 services, 2 answers of up to 3 pieces, 2 to a tick, 2 interruptions; context: histories of 5 ticks; session: 2 resumptions, 5 events | 898 956 | lockstep, results exactly once, reasons, cleanup; yielding, backchannels, no mutual waiting; the history shown whole and in order; answers whole, silence after an interruption, text with audio; no event lost to a reconnection |
| `domains` | every composed telecom task of 1 to 9 issues; 2 detours with one issue, 1 with two; 4 calls of the bank, 3 of the shop, 3 of the airline | 796 014 | tasks are fixed by their fixes in any order, the replay rebuilds the live state, the reference reaches its target unless the agent acts; cards, orders, payments and seats add up |
| `cascade` | 3 STT events, 2 answers of up to 2 pieces, 2 tool calls, 2 tasks at a time | 218 466 | nothing the user says is lost, repeated or left unanswered; answers nobody interrupts are played whole |
| `batch_resume_atomic` | the same configurations, 1 thread, 2 deaths | violated | a death while `try_resume` rewrites the file |
| `gym_stale` | 1 episode, 2 turns | violated | the observation of the turn before |
| `banking_replaced` | 2 calls of the bank | violated | a limit raised while the card is being replaced |
| `gemini_reconnect` | 4 responses, 1 resumption | violated | results sent over the session that is about to be replaced |
| `preflight_unreported` | 1 exchange, 2 tool steps, 2 tools | violated | a prohibited action that is not graded |
| `telecom_target` | telecom tasks of one issue | violated | a task solved as its reference solves it, away from the target |

Why these bounds are enough. *half_duplex*: two tool calls are the least number for
which order and "some results missing" mean something; four steps reach the check
after an environment turn, both limits, and both participants' tool calls; errors
may exceed their limit by one message. *batch*: three runs on two threads make one
wait in the queue while two are at work, so a freed thread, a raise and a death
meet every state of a worker; one retry of each kind tells the last attempt from
the others. The two configurations lose a task, add one, and change the trials, so that a
start finds runs it did not plan, fewer, or none. In the directory two workers contend for one lock; two deaths interrupt a
resumption as well as a batch; two failures let the write after a failed one fail
too. `OnlyHolderInDoubt` and the refinement are about behaviours in which no write has
failed: after a failure memory and index differ until the next flush, by design. *gym*: with three episodes an orphan of an orphan's successor exists. In
*voice*, for the user, each threshold is reached from both sides and utterances are shorter than, equal
to and longer than them; `MaxRun` bounds how long the agent talks without a pause.
Backchannels of a single chunk, whose flag outlives them, are among them.
For the context, five ticks and a pending one hold two segments of one side inside one of
the other, a nested and a crossing one, and a pause that does or does not end a segment
(`integration_ticks` 1 and 2); silences are mentioned from two ticks on, and so never shorter
than a pause, as in the configuration.
For the agent, three pieces of audio to two of a tick make an answer end inside a tick and
leave an excess; two answers let the second follow an interrupted first; the second
interruption meets a tick that began silenced. Five events are a handle, a GoAway, the end
of its turn, a tool call and one event after a reconnection, and two resumptions exhaust
the limit.
*cascade*: three events are an end of speech that is followed by more speech, in the batch of the
task that answers or of another; two tasks are enough for one to speak while the other
asks, or for a result to be gone on from; two pieces to one of a tick leave one over.
While both tasks are busy the model has no next tick; the program would start a third.
*domains*: the telecom part has every task the managers compose, in every order of its
fix calls; detours are few (`MaxTrouble` bounds issues and detours together), because what
one call may spoil shows with one or two issues, and two detours make a pair. The bank's
four calls suffice to freeze a card, order another, activate it and unfreeze the first;
three calls of the shop change items, then payment, and cancel; three of the airline
book, give up a bag and take it again, or book twice and update. Two orders share the gift
card, the gift card (25) covers some orders and not others, seats (3) serve one party of
two, also when a booking lists its flight twice.

Some properties state what they leave out, because the program does it otherwise there,
and the model shows it: `ReplayFaithful` a conversation in which the agent uses an id that
was drawn at random (`DrawnIdUsed`: `set_state` raises); `CardsAccountedFor` an account
of which a card was unfrozen; `ShopBooksBalance` orders of which several items were modified
at once or whose changed payment is cancelled; `AirlineBooksBalance` bookings that name a
method twice, the seats of a flight that one booking lists twice, which fall below zero
(`domains/airline/tools.py:260`, `:314`), and cancelled reservations; `AnswersHeardWhole` answers
that began in the tick of an interruption; `SilentAfterBargeIn` an interruption that OpenAI's
adapter ignores because the tick holds no audio of the agent
(`voice/audio_native/openai/discrete_time_adapter.py:270`); `YieldsInTime` speech after a backchannel of a
single chunk, whose flag stays set (`lingering`, `user/user_simulator_streaming.py:1121`);
`SessionListens` a receive loop that failed; `ImplementsStore`, `RecordsDurable` and
`DirImplementsStore` a death while `results.json` is open for writing, and the last one
also what follows a failed write. Some properties are as weak as the program: `DoneIsComplete`
counts the conversations a start with another configuration has left, `ClosedForGood`
lets money leave a closed account, `ResumesCleanly` has calls answered in order and at most once.

Three of these cases touch what a document or the code says of itself: the death during a
rewrite (the first disagreement below); the ignored interruption, as `adapter.py:278` tells
adapters to "Set result.was_truncated and result.skip_item_id on barge-in"; and the
unfrozen card, as the tool that orders cards says "Maximum 1 active card per checking
account" (`domains/banking_knowledge/tools.py:3082`), which it checks itself and unfreezing does not. In every case the mutant of the property breaks
it outside the exemption.

Each module has a type invariant; the run `batch` checks BatchRunner's, and the proofs of
every component start from its own. Deadlock is checked but in `gym_stale`, `banking_replaced`
`gemini_reconnect` and `telecom_target`, which only look for a bad state, in `domains`, where a conversation
ends when its calls are used up, and in `voice`, where a disconnected session moves no more. A finished program stutters in `Ended`; in `gym` the caller can always ask an
episode that is over, or send an action that does not parse.

### Disagreements the runs show

1. `batch_resume_atomic`: `runner/README.md:64` calls save and resume atomic;
   `try_resume` rewrites `results.json` in place (`runner/checkpoint.py:208`).
2. `gym_stale`: `generate_next_message` promises to set the observation and then to
   signal it; it signals first (`gym/gym_agent.py:272` and `:281`).
3. `banking_replaced`: "No pending replacement cards" (`domains/banking_knowledge/tools.py:2185`)
   is checked by statuses that the order of a replacement card never has: it writes
   `"ORDERED"` (line 1436). The third check reads `account_status`, a field no account has.
4. `gemini_reconnect`: `perform_pending_reconnection` is documented to come before any
   session I/O, `send_tool_response` included (`voice/audio_native/gemini/provider.py:624`);
   it is called in step 5 of the tick, after the pending results were sent in step 1
   (`voice/audio_native/adapter.py:198`).
5. `preflight_unreported`: "any invocation in the trajectory is a violation"
   (`evaluator/preflight_requirements_evaluator.py:12`), but the grader reads tool rows
   only when no assistant row has a call (line 45), and the recorder writes no assistant
   row for a response without text (`src/poc/run_airline.py:106`).
6. `telecom_target`: `docs/evaluation.md:14` has a solution compared with the end state of the
   reference trajectory, which "solves the task". The gold environment performs it by
   `make_tool_call` (`evaluator/evaluator_env.py:101`), which does not call `sync_tools`, so its
   phone misses what the agent's calls pass on (`refuel_data`, `enable_roaming`, `resume_line`,
   a payment request): the reference itself misses its target. `TargetReachedByUser`, of the run
   `domains`, says that this happens exactly to the tasks with a call of the agent.
   `verify_task`, which tries the same calls, runs `sync_tools` after each
   (`domains/telecom/tasks/manager.py:226`). The generated tasks are rated by assertions
   (`manager.py:104`), the database check counts where a reward basis names it, which
   `docs/evaluation.md:12` gives as the default.

Seen while modelling, without a run of their own. `run_tasks` takes the count of done runs
from the file (`runner/batch.py:615`), those of an earlier configuration included: the
display may end above its total, and the results have conversations nobody asked for this
time. In the directory format `save_metadata` truncates `results.json` with the index in it
(`data_model/simulation.py:1559`); after a death there `Results.load` refuses the directory,
whose simulation files are all there.

A receive loop of the Gemini session that fails, or loses its connection without a GoAway,
leaves a failed task that nobody awaits: ticks go on, no event comes, and the agent warns of
an inactive provider at most. The OpenAI adapter tells the server how much of an answer was
played before an interruption, but takes the length of the padded audio, which is always a
whole tick (`voice/audio_native/openai/discrete_time_adapter.py:296`).

`livekit/README.md` has a barge-in cancel speech and generation, and
`CascadedVoiceProvider.interrupt` exists for it, but nothing calls it: the adapter drops the
audio that is there (`livekit/discrete_time_adapter.py:551`), and the rest of the answer,
which the task goes on to synthesize, is played. The order in which transcripts reach the
cascade's model can differ from the order they were spoken in.

`compute_responsiveness_info` counts tool calls as activity of the agent ("Each tool pair counts
as agent activity", `agent/base/streaming.py:1494`), but the orchestrator takes the calls out of
the chunks it records (`orchestrator/full_duplex_orchestrator.py:475`) and keeps them in
`agent_tool_calls`, which the function does not read: a turn the agent answers with tools
alone counts as unanswered. Were calls left in, its use of `tool_pairs` (line 1537), which takes
the message of a call for the tick of its result, would compare a message with a number.

`initialize` has a branch for a history whose last message waits for the environment
(`orchestrator/orchestrator.py:540`). No run takes it: `set_state` has replayed the history
before, and raises on a call without its results. `tests/test_orchestrator.py:271` starts a run
from the first steps of another, and would fail if the last of them were a tool call.

`GymAgent.stop` promises the complete history as the final observation; the conditional
expression at `gym/gym_agent.py:183` yields an empty list when there is no last message,
as GymEnv's `Stop` does.

## 4. Fairness

- HalfDuplex, TurnTaking (in Voice, the moves of the user): weak fairness of `Next`. One thread that goes on as long
  as the calls it makes return; an LLM call that fails raises, and is an action.
  TurnTaking adds that tool results come: the orchestrator delivers them with the
  next chunk.
- BatchRunner (in Checkpoints): weak fairness of the main thread and of every worker, since no thread
  blocks but on the checkpoint lock, which is held for one step, and on futures.
  `Die` is fair only after Ctrl+C, where `os._exit` follows. No fairness is assumed
  of crashes or interrupts.
- GeminiSession (in Voice, its ticks): weak fairness of the tick. The orchestrator calls
  the next one until the run ends, and each wait in a tick has a time limit. Nothing is
  assumed of the server or of the receive loop.
- Cascade: weak fairness of the tick, of time, and of each task: asyncio runs every task that is
  ready, the streams of the model and of speech end or fail, and the fallback's silence
  passes. Nothing is assumed of recognition.
- FullDuplex, AudioTick, DirCheckpoint, the domains and PreflightGrading: safety only.
- GymEnv: weak fairness of the orchestrator threads and of the calls under way. A
  poll comes round every 10 ms and finds a condition that stays true. Nothing makes
  the caller call again.

## 5. What is proved

The proofs hold for every value of the constants. They rest on the assumptions the modules
state about their constants and nothing else: limits are natural numbers, intervals and
lengths positive, the yield thresholds of the voice user at least 2 (which
`validate_turn_taking_settings` enforces), prices natural numbers, sets of flights and of
orders finite. The bounds that keep TLC's state spaces small (`MaxDeaths`, `MaxBankCalls`,
`MaxEpisodes`, ...) are among the constants, so no proof depends on how large they are.

| module | theorem | statement |
|---|---|---|
| BatchRunnerProofs | `TypeCorrect` | `BatchSpec => []TypeOK` |
| | `OneRecord` | `BatchSpec => []OneRecordPerRun` |
| | `NoRework` | `BatchSpec => []NoRecordedRunExecuted` |
| | `Durable` | `BatchSpec => RecordsDurable` |
| | `ResultsRecorded` | `BatchSpec => []ResultsOnDisk` |
| | `Implementation` | `BatchSpec => ImplementsStore`, the refinement of CheckpointStore |
| | `Complete` | `BatchSpec => []DoneIsComplete` |
| HalfDuplexProofs | `TypeCorrect` | `Spec => []TypeOK` |
| | `Routing` | `Spec => []RoutingSound` |
| | `CallsSettled` | `Spec => []ToolCallsSettled` |
| | `InOrder` | `Spec => []DeliveredInOrder` |
| | `EndsSoundly` | `Spec => []RunEndsSoundly` |
| | `Implementation` | `Spec => Abstract!Safety`, the dialogue without its liveness |
| DirCheckpointProofs | `TypeCorrect` | `DirSpec => []DirTypeOK` |
| | `Indexed` | `DirSpec => []FilesIndexed` |
| | `HolderInDoubt` | `DirSpec => []OnlyHolderInDoubt` |
| | `Implementation` | `DirSpec => DirImplementsStore`, the refinement of CheckpointStore |
| GymEnvProofs | `TypeCorrect` | `Spec => []TypeOK` |
| | `TakenOnce` | `Spec => []ActionsTakenOnce` |
| | `Apart` | `Spec => []EpisodesApart` |
| VoiceProofs | `DuplexTypes`, `UserTypes` | the type invariants of FullDuplex and TurnTaking |
| | `Lockstep` | `Spec => []ChannelsInLockstep` |
| | `TickRunEnds` | `Spec => []TickRunEndsSoundly` |
| | `Whole` | `Spec => UtterancesWhole` |
| | `Yields` | `Spec => YieldsInTime` |
| | `Resumes` | `Spec => []ResumesCleanly` |
| | `HeardWholly` | `Spec => []AnswersHeardWhole` |
| | `Silenced` | `Spec => SilentAfterBargeIn` |
| | `TextIsShown` | `Spec => TextFollowsAudio` |
| | `ShownToLlm` | `Spec => []HistoryShownWhole` |
| | `CascadeLosesNothing` | `CascadeSpec => []NothingLost` |
| TelecomProofs | `RequestsAgree` | `Spec => []AwaitingIsRequested` |
| | `ReplayRebuilds` | `"replay" \in Copies => (Spec => []ReplayFaithful)` |
| | `TargetReached` | `{"replay", "gold"} \subseteq Copies => (Spec => []TargetReachedByUser)` |
| | `MendedByFixes` | `Spec => []FixedByItsFixes` |
| DomainsProofs | `Cards` | `Spec => []CardsAccountedFor` |
| | `Closed` | `Spec => ClosedForGood` |
| | `AirlineBooks` | `Spec => []AirlineBooksBalance` |
| | `ShopBooks` | `Spec => []ShopBooksBalance` |

In every module a step lemma has one case per action, and the temporal steps close by PTL.
Few of the properties are inductive; what follows is what had to be added, and why.

**BatchRunner.** `FileInv` is about the file. `OneRecordPerRun` alone is inductive only for
`Record`, which looks before it adds. `Replace` exchanges the records of its run for a
result, so the result must be of that run (`HoldsOwnRun`), and for `RecordsDurable` it must
be a conversation, not a placeholder (`HoldsConversation`). `NoRecordedRunExecuted`
needs that the jobs which `Submit` queues are without any record: `try_resume` has
dropped the placeholders, which is `Prepared`. `ResultInv` is about what workers and main
thread hold. What a worker returns is what it saved, unless it was retried, and then it was
put in place before the return: `CheckedIsSaved` says the former of a worker that looks for
hallucinations, and `RetriesCounted` that a worker which has rerun its conversation also
has `retry` above zero, and so goes through `Replace`. `CollectedOnce` says that what the
main thread has collected is of runs no worker will write again. That `Record` may skip a
save does no harm because of `NoRecordedRunExecuted`, so `ResultInv` is proved relative to
`FileInv`. `DoneIsComplete` compares numbers. `TallyInv` counts backwards: `completed` is
the number of runs planned or on file (`Accountable`) less the jobs still `Pending`
(`Accounted`), which changes by one with each worker that ends, and when none is pending the
results are one per run. `Planned` keeps the conversations of an earlier configuration
apart: no worker has their runs, and they are collected from the start. The
refinement of CheckpointStore needs `FileInv`: `Replace` puts back a conversation of its own
run, and `Record` adds a row only where there is none.

**HalfDuplex.** `RoutingInv` is what `run()` knows between two calls: `message` is the end of
the trajectory and routed as a whole (`MessageInHand`), it goes to the environment exactly when
it calls a tool (`RoutedByKind`, whose one exception is a stop with tool calls that opens a
solo run and ends it), and the loop is not entered with a reason to end (`NotDoneYet`). The
refinement needs no more. Pairing of calls and results is about one position of the
trajectory at a time: it is settled when the environment answers and a longer
trajectory leaves it so. `EndInv` adds that the reason is borne out by the last message or a
limit (`ReasonKept`), how far the counters are where the loop looks at them (`LimitsKept`:
the environment's step is not looked at, hence overruns by one turn) and how often each
participant was stopped (`StopsKept`). Delivery (`HandedOver`): what a participant was handed,
with the message under way to it, is all that is addressed to it, and `stop()` hands over
exactly what is under way. `AddressedTo`, which selects from a trajectory, is a recursive
function; `StepsExist` shows that it has a value on every trajectory.

**DirCheckpoint.** `DiskInv` says of each place the main thread can be at what the disk looks
like (`Prepared`), that the lock's holder has removed what it is going to write
(`Exclusive`), and that `_saved_keys` knows every file of this process (`KeysKnown`). It holds
through failed writes. `Followed` ties files and index together run by run while no write has
failed, and gives both `OnlyHolderInDoubt` and the refinement: the rows change in
`OpenMeta`, where the failed ones are dropped (`OpenDrops`), and in `Flush`, where one is added
or exchanged. From `OpenMeta` to `WriteMeta` the rows are those of the files, from which the
index is written again; a death between the two loses it.

**GymEnv.** Between `step()` and the waiting thread there is one action at most, and it is
the agent's turn only while its thread hears or waits (`Turns`); all threads but the current one are
`Silent`, waiting for an action nobody can send any more, or ended (`Numbered`); a call that has
returned leaves the agent its turn or the end of its own episode (`Current`).

**FullDuplex.** `Clock` relates ticks to steps, `HeardInTurn` and `OwedInTurn` say what a
participant has heard and is owed, which depends on whether it has moved in the step under way
(`HasMoved`); `SignalsKept` remembers who stopped until the limits are checked.

**TurnTaking.** `UserInv` needs that speech overheard is part of the agent's speech
(`EarsOK`), that no two utterances are in the queue together, and that
a backchannel in it is known for one (`BackchannelKnown`). `YieldsInTime` needs the converse: nothing else is taken
for a backchannel (`BackchannelOnly`), but after one of a single chunk, whose flag outlives it
(`user/user_simulator_streaming.py:1121`). The history `lingering` tells the two apart, so
the theorem holds for all lengths.

**GeminiSession.** The events processed, gathered, preserved and queued, in this order, are all
that were read, in order (`SessionInv`), so a reconnection, which moves the queue to the
preserved ones, loses none. What is answered, and what waits to be, are calls processed, in
increasing order (`AnsweredInOrder`). Of a run that has failed neither is claimed.

**AudioTick.** The property is not inductive for any of the adapters. What makes it so is what
each knows of the item being sent: whether its audio is accepted, so that what has been
accepted is exactly what is on its way (`HeardWhole`), and that the item to skip is the one
being sent (`Tracked`). Which interruptions count is `Hushed`, those an adapter has acted on. Five adapters keep track in five ways (`currentItem`, the item of the
last piece held, contents for Nova), and the interruption has a case for each.

The text of a tick is cut by a share, audio played over audio counted, rounded up; `ShareOfAll`
says that it is everything once no less is played than counted. That this is so when an answer
has been heard compares three counts, which are kept in different places (`TextCounted`): the
program counts under a name no more audio than was sent under it (`SentUnder`; what an adapter
discards is sent and not counted) and counts as played no less than was (`PlayedUnder`; of an
interrupted tick more is counted than played). What is played being in order, an answer of
which as many pieces are played as were sent has each of them among the played ones
(`AllHeard`), so all that was sent was played (`AllCounted`).

**Linearize.** What is shown is a function of the timeline, so nearly all of the proof is about
one timeline, any. Segments cover the speech of their side, lie more than
`integration_ticks` apart and have no break inside, so a tick is in one of them and the spans of
`Precedes` are theirs. A segment is taken in by another, takes others in, or neither, since one that takes
in is not taken in itself; hence every chunk is given a place, and one only, also those a host is cut
into, each put at the next end of a guest. Places are in a strict total order, of which the output is the
enumeration: a member's rank is the number of places before it (`ListedInOrder`). That no two
chunks are out of order is a case for each way two segments can lie. That results are shown at
all, and right behind their call, needs the inductive part, `HistoryInv`: on the timeline a call
comes before the first results and between any two, and while results are owed a call has been
made since the last.

**Cascade.** A transcript is in one place. `Once` says so of a queue, batches, a transcript and
a context as values, and each step of `ProcessBatch` has a lemma about it - a batch is taken
from the queue, its beginning accumulated, the accumulated put to the model - since the action
does all of them at once and in between there is no state to speak of. `TasksSound` is what makes
a batch not get lost: only a task that goes on after its answer keeps one. `WholeIn` does the
same for the stream of audio, from which a barge-in takes a segment (`WholeWithout`).

**Telecom.** `InStep` is what `sync_tools` leaves behind: a bill awaits payment exactly if there is
an unpaid request for it, and what the phone knows of the line is as the line is. It is the
invariant of the live environment; each tool either keeps it or is undone by the `sync_tools` that
follows. The other environments are compared by `Twin`: alike in all fields but some, the ids
drawn matching. Every tool takes twins to twins and gives them the same answer, which is
`Rebuilt` unless an id drawn at random was used. The gold environment is never brought in step. `Untold`
says what that leaves in it: the phone's view of the line - usage exceeded, line active,
roaming allowed - is as the initialization broke it, or follows the line where nothing was
broken, since no tool of the reference writes it (`GoldHears`). When all fix calls are made
the live phone knows a line in order, so a call of the agent to mend it is just what tells
the two apart, and for tasks the user mends alone `Twin` says that nothing does. The order of
the calls does not matter. The initialization of a task is a recursive function over the base
tasks (`Broken`), and twins from the start by induction on it.

`FixedByItsFixes` needs to know of every composition of base tasks what is still wrong after
any part of its fixes. `IssueInv` says it field by field (`Ailing`): as long as calls of a base task
are left to make, the phone or the account is as that base task broke it, and otherwise it is whole.
That one call mends its own issue and no other holds because the issues that would get in
each other's way come from one selection set, of which a task takes one at most (`Composed`;
`OfManager` is the reason). Then, for each base task, breaking a phone that ails of the others makes
it ail of this one too, from which the start follows by induction over `TaskOrder`; each fix call takes one from the
calls left; with none left the task is fixed, and while one issue has all of its calls left it is not. TLC checked
the invariant on all compositions before it was proved.

**Banking.** Instead of how many cards are active, `OneInUse` says that two active ones are the
same, and `OneOrder` ties order, card and fee together. Every tool is one of a few kinds of
change (accounts alone, one card, an order), each with a lemma.

**Airline.** `PaidFor` of each reservation, and of the user's certificate that it is there if
and only if no reservation was paid with it. The gift card and the certificate are claimed as
long as no booking named a method twice, as in the property. Cancelling is the one tool
that doubles a history; a cancelled reservation is exempt. That seats stay above zero is claimed of
flights no booking has listed twice, of which `Entries` is one at most.

**Retail.** `OrderSound` of each order: it has two items, and one payment until that is changed,
without which neither the refund of a cancellation nor the change of a payment method
comes to what it should. The balance of the gift card is a sum over all orders;
`GiftSpentChanges` says that it changes by what one order's does (`TotalChanged`), for which
`OrdersListed` gives each order exactly one place in the list.

**Sums, sequences, induction.** The library's induction theorems take an operator as a
parameter, which these provers cannot instantiate. Induction over the natural numbers is to be
had for the members of a set (`SetInduction`, from the well-foundedness of `<`), and with it what
recursive functions do: `StepsExist` that they have values, `ConcatOfNumbers` and
`TotalConcat`, that a total of two lists is the sum of their totals. This is why `Total`,
`AddressedTo`, `CallsAmong` and `Replaced` are recursive functions in the models and not folds.

Each theorem is about the specification of its part; the run `batch` is of Checkpoints, in which
the part that moves takes the steps of `BatchSpec` or `DirSpec` and the other none.
Every invariant and every action property of the passing runs is a theorem. Out of the provers'
reach and left to TLC: liveness under fairness (`JsonBatchEnds`, `CallsReturn`,
`UserBreaksSilence`, `SessionListens`, `WordsAnswered`, the liveness in `Dialogue!Spec`) and
ENABLED.

## 6. Plan

In the order of importance.

1. **Banking**, the remaining tools: blocks and temporary limits of debit cards, debit
   disputes, referrals and applications; discoverable tools that must be unlocked first.
2. **PreflightGrading**, continued - the request a transfer needs
   (`ConstraintEvaluator`), and when the two graders agree; a verdict that a longer
   trajectory takes back.
3. **History** - `validate_message_history` against the histories its docstring
   describes. It compares where it means to assign (`orchestrator.py:946`) and does not
   look at what is owed at the end.
4. **Composition** - FullDuplex with TurnTaking as its user; GymEnv with the roles exchanged for `UserGymEnv`.
5. **AudioLoop** - `BackgroundAsyncLoop`: a caller that times out while its coroutine
   runs on.
6. **pass^k**, and how rewards combine, as operators against reference definitions.

## 7. Not modelled, and why

Prompts, LLM calls, speech services and audio processing are nondeterministic answers
or exceptions of the components that call them. Costs, timestamps, logs and displays
have no influence on control. Of the evaluators only the construction of the compared
environments is modelled; how rewards combine, the provenance of pre-flight requirements
and the metrics are sequential code over data, the plan names those worth modelling.

Of the voice agents: the sessions of the services but Gemini's and the cascade's,
the cascade's greeting and preamble, the
background loop, silence and padding, what OpenAI is told to truncate, and the resumption
without a GoAway (`resume_only_on_timeout=False`), which no configuration asks for.

Of the domains: in telecom several customers, plans and devices, the amounts of bills,
signal strength and battery, and the PUK lock, which no task uses; in retail addresses; in
airline flight search, dates, airports and the names of passengers; in banking the tables
of rewards, referrals, applications, statement credits, flags and debit disputes, PINs,
fraud alerts, blocks and temporary limits of debit cards, and the unlocking of
discoverable tools, which only enables them. A failing tool call that changes nothing
is not a step. `break_vpn` changes an object of the class (`domains/telecom/user_tools.py:790`) that
all environments of a process share: within one environment it is modelled, across
simulations it is not.

The file of discarded hallucinated conversations
(`runner/batch.py:718`) is written by all workers without a lock but read by nothing
the modules model. `hallucination_check` and its counter are set on a simulation after it
was saved (`runner/batch.py:695`), so what is collected and what is recorded are compared up
to these two marks. `results.json` counts as torn only while it is itself open for
writing; writes to temporaries are invisible until `os.replace`, which is atomic.
