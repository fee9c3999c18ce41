------------------------------- MODULE Domains -------------------------------
(***************************************************************************)
(* The domains behind the environment's tools.  A simulation is played in  *)
(* one of them (the registry's environment constructor); the databases of  *)
(* the others stay as one of their initial states.                         *)
(***************************************************************************)
EXTENDS Telecom, Banking, Retail, Airline

CONSTANT PlayedDomains

ASSUME DomainsAssumption == PlayedDomains \subseteq {"telecom", "banking_knowledge", "retail", "airline"}

VARIABLE domain   \* the domain played

domainsVars == <<domain, telecomVars, bankingVars, retailVars, airlineVars>>

Init ==
  /\ domain \in PlayedDomains
  /\ TelecomInit
  /\ domain = "telecom" \/ (issues = {"airplane_mode_on"} /\ ~env["live"].line_roaming)
  /\ BankingInit
  /\ domain = "banking_knowledge" \/ /\ cards["old"] = NoCard /\ cards["reissued"] = NoCard /\ replacements = {}
                                     /\ accounts["chk"].days = 10 /\ accounts["chk"].holdings = 15
  /\ RetailInit
  /\ domain = "retail" \/ LET v == CHOOSE w \in Variants \ Unavailable : TRUE IN
       \A o \in Orders : order[o].status = "pending" /\ order[o].items = <<Item(v), Item(v)>>
                           /\ order[o].history[1].method = "credit_card"
  /\ AirlineInit

TelecomStep == TelecomNext /\ UNCHANGED <<domain, bankingVars, retailVars, airlineVars>>
BankingPlayed == BankingNext /\ UNCHANGED <<domain, telecomVars, retailVars, airlineVars>>
RetailPlayed == RetailNext /\ UNCHANGED <<domain, telecomVars, bankingVars, airlineVars>>
AirlinePlayed == AirlineNext /\ UNCHANGED <<domain, telecomVars, bankingVars, retailVars>>

Next ==
  \/ domain = "telecom" /\ TelecomStep
  \/ domain = "banking_knowledge" /\ BankingPlayed
  \/ domain = "retail" /\ RetailPlayed
  \/ domain = "airline" /\ AirlinePlayed

Spec == Init /\ [][Next]_domainsVars
=============================================================================
