---------------------------- MODULE MCHalfDuplex ----------------------------
(* Small instances of HalfDuplex: the histories tasks start from.          *)
EXTENDS HalfDuplex

Msg(f, t, x, n) == [from |-> f, to |-> t, text |-> x, calls |-> n]

Fresh == <<>>
AskedByUser == << Msg("AGENT", "USER", "plain", 0), Msg("USER", "AGENT", "plain", 0) >>
AgentSpoke == << Msg("USER", "AGENT", "plain", 0), Msg("AGENT", "USER", "plain", 0) >>
AgentCalled == << Msg("USER", "AGENT", "plain", 0), Msg("AGENT", "ENV", "blank", 2) >>
AgentAnswered == AgentCalled \o << Msg("ENV", "AGENT", "plain", 0),
                                   Msg("ENV", "AGENT", "plain", 0) >>
UserAnswered == << Msg("AGENT", "USER", "plain", 0), Msg("USER", "ENV", "blank", 1),
                   Msg("ENV", "USER", "plain", 0) >>
HalfAnswered == AgentCalled \o << Msg("ENV", "AGENT", "plain", 0) >>
UserStopped == AskedByUser \o << Msg("AGENT", "USER", "plain", 0),
                                 Msg("USER", "AGENT", "stop", 0) >>

\* Histories of a dialogue with a user; set_state refuses the two whose calls
\* are not all answered.
Dialogues == {Fresh, AskedByUser, AgentSpoke, AgentCalled, HalfAnswered, AgentAnswered,
              UserAnswered, UserStopped}

\* Histories LLMSoloAgent.check_valid_task admits: tool calls and their results.
SoloCalled == << Msg("AGENT", "ENV", "blank", 1) >>
SoloAnswered == SoloCalled \o << Msg("ENV", "AGENT", "plain", 0) >>
SoloRuns == {Fresh, SoloCalled, SoloAnswered}

TaskHistories == [solo \in BOOLEAN |-> IF solo THEN SoloRuns ELSE Dialogues]

\* The default of run_tasks, and solo runs with and without the validation.
RunModes == [solo : {TRUE}, validate : BOOLEAN] \cup [solo : {FALSE}, validate : {FALSE}]
=============================================================================
