------------------------------ MODULE Dialogue ------------------------------
(***************************************************************************)
(* What the half-duplex orchestrator promises, without its bookkeeping: a  *)
(* dialogue with one floor.  "Communication Flow" in the docstring of      *)
(* Orchestrator: only the holder of the floor speaks, text passes the      *)
(* floor to the other participant, tool calls pass it to the environment,  *)
(* and the environment hands it back to whoever called.  A closed dialogue *)
(* stays as it is, and every dialogue is closed in the end.                *)
(***************************************************************************)
CONSTANT Parties

VARIABLES phase,   \* "new", "open" or "closed"
          floor,   \* the party whose turn it is, or "ENV"
          caller   \* the party the floor returns to
vars == <<phase, floor, caller>>

Init == /\ phase = "new"
        /\ floor \in Parties \cup {"ENV"}
        /\ caller \in Parties

\* A dialogue opens, or continues a history, with the floor anywhere.
Open == /\ phase = "new"
        /\ phase' \in {"open", "closed"}
        /\ floor' \in Parties \cup {"ENV"}
        /\ caller' \in Parties
        /\ floor' # "ENV" => caller' = floor'

\* p says its last words, talks to the other party, or calls tools.
Speak(p) == /\ phase = "open" /\ floor = p
            /\ phase' \in {"open", "closed"}
            /\ \/ floor' = "ENV" /\ caller' = p
               \/ floor' \in Parties \ {p} /\ caller' = floor'

\* The environment answers its caller, or fails doing so.
Answer == /\ phase = "open" /\ floor = "ENV"
          /\ phase' \in {"open", "closed"}
          /\ floor' = caller
          /\ UNCHANGED caller

\* A limit, a timeout or a failure closes the dialogue where it stands.
Close == /\ phase # "closed"
         /\ phase' = "closed"
         /\ UNCHANGED <<floor, caller>>

Next == Open \/ (\E p \in Parties : Speak(p)) \/ Answer \/ Close

\* What a dialogue never does, and that it is closed in the end.
Safety == Init /\ [][Next]_vars
Spec == Safety /\ <>[](phase = "closed")
=============================================================================
