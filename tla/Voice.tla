-------------------------------- MODULE Voice --------------------------------
(***************************************************************************)
(* The parts of a voice run, each against everything its neighbours may    *)
(* do: the orchestrator with two arbitrary participants, the simulated     *)
(* user with an arbitrary agent, the agent's adapter with an arbitrary     *)
(* service, the Gemini session under it, and the context of the user's LLM *)
(* over an arbitrary history.  One part moves; the others stay as they     *)
(* start.                                                                  *)
(***************************************************************************)
EXTENDS FullDuplex, TurnTaking, Linearize, AudioTick, GeminiSession

CONSTANT Parts

ASSUME PartsAssumption == Parts \subseteq {"orchestrator", "user", "context", "agent", "session"}

VARIABLE part   \* the part that moves

voiceVars == <<part, duplexVars, userVars, contextVars, audioVars, geminiVars>>

Init ==
  /\ part \in Parts
  /\ DuplexInit
  /\ UserInit /\ (part = "user" \/ policy = CHOOSE p \in Policies : TRUE)
  /\ HistoryInit /\ (part = "context" \/ integration = CHOOSE n \in IntegrationTicks : TRUE)
  /\ AudioInit /\ (part = "agent" \/ service = CHOOSE s \in Services : TRUE)
  /\ GeminiInit

OrchestratorMoves == DuplexNext /\ UNCHANGED <<part, userVars, contextVars, audioVars, geminiVars>>
UserMoves == UserNext /\ UNCHANGED <<part, duplexVars, contextVars, audioVars, geminiVars>>
ContextMoves == HistoryNext /\ UNCHANGED <<part, duplexVars, userVars, audioVars, geminiVars>>
AgentMoves == AudioNext /\ UNCHANGED <<part, duplexVars, userVars, contextVars, geminiVars>>
SessionMoves == GeminiNext /\ UNCHANGED <<part, duplexVars, userVars, contextVars, audioVars>>

Next ==
  \/ part = "orchestrator" /\ OrchestratorMoves
  \/ part = "user" /\ UserMoves
  \/ part = "context" /\ ContextMoves
  \/ part = "agent" /\ AgentMoves
  \/ part = "session" /\ SessionMoves

UserAnswers == part = "user" /\ UserMoves /\ \E speech \in BOOLEAN : ProcessToolResult(speech)
SessionTicks == part = "session" /\ SessionMoves /\ SessionTick

\* The fairness of the user's and of the session's own specification.
Spec == /\ Init /\ [][Next]_voiceVars
        /\ WF_voiceVars(part = "user" /\ UserMoves) /\ WF_voiceVars(UserAnswers)
        /\ WF_voiceVars(SessionTicks)

\* The agent's silence is always broken by the user, with words, a tool call or
\* a stop: the two never wait for each other for good.
UserBreaksSilence == part = "user" => SilenceBroken

\* A receive loop of the Gemini session that has ended is replaced, or the run
\* ends.
SessionListens == part = "session" => ListensAgain
=============================================================================
