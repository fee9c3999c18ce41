---------------------------- MODULE TelecomProofs ----------------------------
(***************************************************************************)
(* Proofs about Telecom among the domains: for any selection of base tasks *)
(* the account agrees with the phone's requests, replaying a history gives *)
(* the environment it was made in, the assertions of a task hold when its  *)
(* fixes are made and not before, and its reference reaches the target of  *)
(* the evaluator exactly when the user makes all of its calls.             *)
(***************************************************************************)
EXTENDS Domains, SequenceLemmas, FiniteSetTheorems

BillIds == {"issued", "overdue", "draft", "draft2"}
BillStatuses == {"none", "issued", "overdue", "draft", "awaiting", "paid"}

\* What the phone's own tools change, and what they leave alone.
PhoneFields ==
  {"airplane_mode", "sim_missing", "sim_status", "status", "tech", "mode", "data", "roaming", "apn_name",
   "apn_reset", "mmsc", "wifi", "wifi_calling", "mms_over_wifi", "saver", "vpn", "vpn_poor",
   "permissions", "abroad"}
AccountFields ==
  {"line_status", "line_roaming", "data_used", "data_refueling", "bills", "drawn", "line_active",
   "roaming_allowed", "exceeded", "request"}
Fields == PhoneFields \cup AccountFields

Shaped(d) == d = [f \in Fields |-> d[f]]

\* What the tools do not look at: it may differ between two environments.
Unseen == {"drawn", "roaming_allowed", "exceeded"}

\* Two environments that agree but for the fields in unlike.
Alike(unlike, d, e) ==
  /\ Shaped(d) /\ Shaped(e)
  /\ \A f \in Fields \ unlike : d[f] = e[f]

\* d1 and e1 agree as d and e did, and the accounts are as they were.
Moves(unlike, d, e, d1, e1) ==
  /\ Alike(unlike, d1, e1)
  /\ \A f \in AccountFields : d1[f] = d[f] /\ e1[f] = e[f]

LEMMA FieldSet ==
  ASSUME NEW d, Shaped(d), NEW f \in Fields, NEW v
  PROVE  /\ Shaped([d EXCEPT ![f] = v]) /\ [d EXCEPT ![f] = v][f] = v
         /\ \A g \in Fields : g # f => [d EXCEPT ![f] = v][g] = d[g]
<1>1. DOMAIN d = Fields
  BY DEF Shaped
<1>2. [d EXCEPT ![f] = v] = [g \in Fields |-> IF g = f THEN v ELSE d[g]]
  BY <1>1
<1>3. [d EXCEPT ![f] = v] = [g \in Fields |-> [d EXCEPT ![f] = v][g]]
  BY <1>2
<1> QED
  BY <1>2, <1>3 DEF Shaped

LEMMA FieldPut ==
  ASSUME NEW unlike \in SUBSET Unseen, NEW d, NEW e, Alike(unlike, d, e), NEW f \in PhoneFields, NEW v
  PROVE  Moves(unlike, d, e, [d EXCEPT ![f] = v], [e EXCEPT ![f] = v])
<1> DEFINE d1 == [d EXCEPT ![f] = v]
           e1 == [e EXCEPT ![f] = v]
<1>0. f \in Fields /\ \A g \in AccountFields : g \in Fields /\ g # f
  BY DEF PhoneFields, AccountFields, Fields
<1>1. Shaped(d1) /\ d1[f] = v /\ \A g \in Fields : g # f => d1[g] = d[g]
  BY <1>0, FieldSet DEF Alike
<1>2. Shaped(e1) /\ e1[f] = v /\ \A g \in Fields : g # f => e1[g] = e[g]
  BY <1>0, FieldSet DEF Alike
<1> HIDE DEF d1, e1
<1>3. Alike(unlike, d1, e1)
  BY <1>1, <1>2 DEF Alike
<1>4. Moves(unlike, d, e, d1, e1)
  BY <1>0, <1>1, <1>2, <1>3 DEF Moves
<1> QED
  BY <1>4 DEF d1, e1

LEMMA MovesOn ==
  ASSUME NEW unlike, NEW d, NEW e, NEW d1, NEW e1, NEW d2, NEW e2,
         Moves(unlike, d, e, d1, e1), Moves(unlike, d1, e1, d2, e2)
  PROVE  Moves(unlike, d, e, d2, e2)
BY DEF Moves

LEMMA Searches ==
  ASSUME NEW unlike \in SUBSET Unseen, NEW d, NEW e, Alike(unlike, d, e)
  PROVE  Moves(unlike, d, e, SimulateNetworkSearch(d), SimulateNetworkSearch(e))
<1> DEFINE Service(x) == /\ SimStatus(x) = "active" /\ ~x.airplane_mode
                         /\ x.apn_name # "broken" /\ x.line_active
           status == IF Service(d) THEN "connected" ELSE "no_service"
           tech == IF Service(d) THEN Technology[d.mode] ELSE "none"
           d1 == [d EXCEPT !.status = status]
           e1 == [e EXCEPT !.status = status]
<1>1. Service(d) <=> Service(e)
  BY DEF Alike, Fields, PhoneFields, AccountFields, Unseen, SimStatus
<1>2. d.mode = e.mode
  BY DEF Alike, Fields, PhoneFields, AccountFields, Unseen
<1>3. SimulateNetworkSearch(d) = [d1 EXCEPT !.tech = tech]
  BY DEF SimulateNetworkSearch
<1>4. SimulateNetworkSearch(e) = [e1 EXCEPT !.tech = tech]
  BY <1>1, <1>2 DEF SimulateNetworkSearch
<1> HIDE DEF status, tech
<1>5. "status" \in PhoneFields /\ "tech" \in PhoneFields
  BY DEF PhoneFields
<1>6. Moves(unlike, d, e, d1, e1)
  BY <1>5, FieldPut
<1>7. Moves(unlike, d1, e1, [d1 EXCEPT !.tech = tech], [e1 EXCEPT !.tech = tech])
  <2>1. Alike(unlike, d1, e1)
    BY <1>6 DEF Moves
  <2> HIDE DEF d1, e1
  <2> QED
    BY <1>5, <2>1, FieldPut
<1> QED
  BY <1>3, <1>4, <1>6, <1>7, MovesOn

\* A field is set and the phone searches for a network.
LEMMA PutAndSearch ==
  ASSUME NEW unlike \in SUBSET Unseen, NEW d, NEW e, Alike(unlike, d, e), NEW f \in PhoneFields, NEW v
  PROVE  Moves(unlike, d, e, SimulateNetworkSearch([d EXCEPT ![f] = v]),
               SimulateNetworkSearch([e EXCEPT ![f] = v]))
<1> DEFINE d1 == [d EXCEPT ![f] = v]
           e1 == [e EXCEPT ![f] = v]
<1>1. Moves(unlike, d, e, d1, e1)
  BY FieldPut
<1>2. Alike(unlike, d1, e1)
  BY <1>1 DEF Moves
<1> HIDE DEF d1, e1
<1>3. Moves(unlike, d1, e1, SimulateNetworkSearch(d1), SimulateNetworkSearch(e1))
  BY <1>2, Searches
<1>4. Moves(unlike, d, e, SimulateNetworkSearch(d1), SimulateNetworkSearch(e1))
  BY <1>1, <1>3, MovesOn
<1> QED
  BY <1>4 DEF d1, e1

LEMMA AlikeFields ==
  ASSUME NEW unlike \in SUBSET Unseen, NEW d, NEW e, Alike(unlike, d, e)
  PROVE  /\ \A f \in PhoneFields : d[f] = e[f]
         /\ Moves(unlike, d, e, d, e)
<1>1. \A f \in PhoneFields : f \in Fields \ unlike
  BY DEF Fields, PhoneFields, Unseen
<1> QED
  BY <1>1 DEF Alike, Moves

LEMMA SearchingTools ==
  ASSUME NEW unlike \in SUBSET Unseen, NEW d, NEW e, Alike(unlike, d, e)
  PROVE  /\ \A m : Moves(unlike, d, e, SetNetworkMode(d, m), SetNetworkMode(e, m))
         /\ Moves(unlike, d, e, ReseatSim(d), ReseatSim(e))
         /\ Moves(unlike, d, e, UnseatSim(d), UnseatSim(e))
         /\ Moves(unlike, d, e, LockSim(d), LockSim(e))
         /\ Moves(unlike, d, e, ToggleData(d), ToggleData(e))
         /\ Moves(unlike, d, e, ToggleRoaming(d), ToggleRoaming(e))
         /\ Moves(unlike, d, e, ResetApn(d), ResetApn(e))
         /\ Moves(unlike, d, e, BreakApn(d), BreakApn(e))
<1>1. {"mode", "sim_missing", "sim_status", "data", "roaming", "apn_reset", "apn_name"} \subseteq PhoneFields
  BY DEF PhoneFields
<1>2. d.data = e.data /\ d.roaming = e.roaming
  BY <1>1, AlikeFields
<1>3. ASSUME NEW f \in PhoneFields, NEW v
      PROVE Moves(unlike, d, e, SimulateNetworkSearch([d EXCEPT ![f] = v]), SimulateNetworkSearch([e EXCEPT ![f] = v]))
  BY PutAndSearch
<1>4. ASSUME NEW m PROVE Moves(unlike, d, e, SetNetworkMode(d, m), SetNetworkMode(e, m))
  BY <1>1, <1>3 DEF SetNetworkMode
<1>5. /\ Moves(unlike, d, e, ReseatSim(d), ReseatSim(e))
      /\ Moves(unlike, d, e, UnseatSim(d), UnseatSim(e))
  BY <1>1, <1>3 DEF ReseatSim, UnseatSim
<1>6. Moves(unlike, d, e, LockSim(d), LockSim(e))
  BY <1>1, <1>3 DEF LockSim
<1>7. /\ Moves(unlike, d, e, ResetApn(d), ResetApn(e))
      /\ Moves(unlike, d, e, BreakApn(d), BreakApn(e))
  BY <1>1, <1>3 DEF ResetApn, BreakApn
<1>8. /\ Moves(unlike, d, e, ToggleData(d), ToggleData(e))
      /\ Moves(unlike, d, e, ToggleRoaming(d), ToggleRoaming(e))
  BY <1>1, <1>2, <1>3 DEF ToggleData, ToggleRoaming
<1> QED
  BY <1>4, <1>5, <1>6, <1>7, <1>8

LEMMA SettingTools ==
  ASSUME NEW unlike \in SUBSET Unseen, NEW d, NEW e, Alike(unlike, d, e)
  PROVE  /\ Moves(unlike, d, e, ToggleDataSaver(d), ToggleDataSaver(e))
         /\ Moves(unlike, d, e, ToggleWifiCalling(d), ToggleWifiCalling(e))
         /\ Moves(unlike, d, e, SetWifiCallingOn(d), SetWifiCallingOn(e))
         /\ Moves(unlike, d, e, ToggleWifi(d), ToggleWifi(e))
         /\ Moves(unlike, d, e, BreakApnMms(d), BreakApnMms(e))
         /\ Moves(unlike, d, e, ConnectVpn(d), ConnectVpn(e))
         /\ Moves(unlike, d, e, DisconnectVpn(d), DisconnectVpn(e))
         /\ Moves(unlike, d, e, BreakVpn(d), BreakVpn(e))
         /\ \A p : Moves(unlike, d, e, GrantPermission(d, p), GrantPermission(e, p))
         /\ \A p : Moves(unlike, d, e, RemovePermission(d, p), RemovePermission(e, p))
<1>1. {"saver", "wifi_calling", "mms_over_wifi", "wifi", "mmsc", "vpn", "vpn_poor", "permissions",
       "airplane_mode"} \subseteq PhoneFields
  BY DEF PhoneFields
<1>2. /\ d.saver = e.saver /\ d.wifi_calling = e.wifi_calling /\ d.wifi = e.wifi
      /\ d.permissions = e.permissions /\ d.airplane_mode = e.airplane_mode
  BY <1>1, AlikeFields
<1>3. ASSUME NEW f \in PhoneFields, NEW v
      PROVE Moves(unlike, d, e, [d EXCEPT ![f] = v], [e EXCEPT ![f] = v])
  BY FieldPut
<1>4. ASSUME NEW f \in PhoneFields, NEW v, NEW g \in PhoneFields, NEW w
      PROVE  Moves(unlike, d, e, [[d EXCEPT ![f] = v] EXCEPT ![g] = w], [[e EXCEPT ![f] = v] EXCEPT ![g] = w])
  <2> DEFINE d1 == [d EXCEPT ![f] = v]
             e1 == [e EXCEPT ![f] = v]
  <2>1. Moves(unlike, d, e, d1, e1)
    BY <1>3
  <2>2. Alike(unlike, d1, e1)
    BY <2>1 DEF Moves
  <2> HIDE DEF d1, e1
  <2>3. Moves(unlike, d1, e1, [d1 EXCEPT ![g] = w], [e1 EXCEPT ![g] = w])
    BY <2>2, FieldPut
  <2>4. Moves(unlike, d, e, [d1 EXCEPT ![g] = w], [e1 EXCEPT ![g] = w])
    BY <2>1, <2>3, MovesOn
  <2> QED
    BY <2>4 DEF d1, e1
<1>5. /\ Moves(unlike, d, e, ToggleDataSaver(d), ToggleDataSaver(e))
      /\ Moves(unlike, d, e, ToggleWifiCalling(d), ToggleWifiCalling(e))
  BY <1>1, <1>2, <1>3 DEF ToggleDataSaver, ToggleWifiCalling
<1>6. Moves(unlike, d, e, ToggleWifi(d), ToggleWifi(e))
  BY <1>1, <1>2, <1>3, AlikeFields DEF ToggleWifi
<1>7. /\ Moves(unlike, d, e, BreakApnMms(d), BreakApnMms(e))
      /\ Moves(unlike, d, e, ConnectVpn(d), ConnectVpn(e))
      /\ Moves(unlike, d, e, DisconnectVpn(d), DisconnectVpn(e))
  BY <1>1, <1>3 DEF BreakApnMms, ConnectVpn, DisconnectVpn
<1>8. /\ \A p : Moves(unlike, d, e, GrantPermission(d, p), GrantPermission(e, p))
      /\ \A p : Moves(unlike, d, e, RemovePermission(d, p), RemovePermission(e, p))
  BY <1>1, <1>2, <1>3 DEF GrantPermission, RemovePermission
<1>9. Moves(unlike, d, e, BreakVpn(d), BreakVpn(e))
  BY <1>1, <1>4 DEF BreakVpn, ConnectVpn
<1>10. Moves(unlike, d, e, SetWifiCallingOn(d), SetWifiCallingOn(e))
  BY <1>1, <1>4 DEF SetWifiCallingOn
<1> QED
  BY <1>5, <1>6, <1>7, <1>8, <1>9, <1>10

LEMMA MovesThenSearch ==
  ASSUME NEW unlike \in SUBSET Unseen, NEW d, NEW e, NEW d1, NEW e1, Moves(unlike, d, e, d1, e1)
  PROVE  Moves(unlike, d, e, SimulateNetworkSearch(d1), SimulateNetworkSearch(e1))
<1>1. Moves(unlike, d1, e1, SimulateNetworkSearch(d1), SimulateNetworkSearch(e1))
  <2>1. Alike(unlike, d1, e1)
    BY DEF Moves
  <2> QED
    BY <2>1, Searches
<1> QED
  BY <1>1, MovesOn

LEMMA TwoPut ==
  ASSUME NEW unlike \in SUBSET Unseen, NEW d, NEW e, Alike(unlike, d, e),
         NEW f \in PhoneFields, NEW v, NEW g \in PhoneFields, NEW w
  PROVE  Moves(unlike, d, e, [[d EXCEPT ![f] = v] EXCEPT ![g] = w], [[e EXCEPT ![f] = v] EXCEPT ![g] = w])
<1> DEFINE d1 == [d EXCEPT ![f] = v]
           e1 == [e EXCEPT ![f] = v]
<1>1. Moves(unlike, d, e, d1, e1)
  BY FieldPut
<1>2. Alike(unlike, d1, e1)
  BY <1>1 DEF Moves
<1> HIDE DEF d1, e1
<1>3. Moves(unlike, d1, e1, [d1 EXCEPT ![g] = w], [e1 EXCEPT ![g] = w])
  BY <1>2, FieldPut
<1>4. Moves(unlike, d, e, [d1 EXCEPT ![g] = w], [e1 EXCEPT ![g] = w])
  BY <1>1, <1>3, MovesOn
<1> QED
  BY <1>4 DEF d1, e1

\* The settings of an APN that works.
LEMMA ApnPut ==
  ASSUME NEW unlike \in SUBSET Unseen, NEW d, NEW e, Alike(unlike, d, e)
  PROVE  Moves(unlike, d, e, [d EXCEPT !.apn_name = "internet", !.apn_reset = FALSE, !.mmsc = TRUE],
               [e EXCEPT !.apn_name = "internet", !.apn_reset = FALSE, !.mmsc = TRUE])
<1> DEFINE d1 == [[d EXCEPT !.apn_name = "internet"] EXCEPT !.apn_reset = FALSE]
           e1 == [[e EXCEPT !.apn_name = "internet"] EXCEPT !.apn_reset = FALSE]
<1>1. "apn_name" \in PhoneFields /\ "apn_reset" \in PhoneFields /\ "mmsc" \in PhoneFields
  BY DEF PhoneFields
<1>2. Moves(unlike, d, e, d1, e1)
  BY <1>1, TwoPut
<1>3. Alike(unlike, d1, e1)
  BY <1>2 DEF Moves
<1>4. [d EXCEPT !.apn_name = "internet", !.apn_reset = FALSE, !.mmsc = TRUE] = [d1 EXCEPT !.mmsc = TRUE]
      /\ [e EXCEPT !.apn_name = "internet", !.apn_reset = FALSE, !.mmsc = TRUE] = [e1 EXCEPT !.mmsc = TRUE]
  OBVIOUS
<1> HIDE DEF d1, e1
<1>5. Moves(unlike, d1, e1, [d1 EXCEPT !.mmsc = TRUE], [e1 EXCEPT !.mmsc = TRUE])
  BY <1>1, <1>3, FieldPut
<1> QED
  BY <1>2, <1>4, <1>5, MovesOn

LEMMA DeviceTools ==
  ASSUME NEW unlike \in SUBSET Unseen, NEW d, NEW e, Alike(unlike, d, e)
  PROVE  /\ Moves(unlike, d, e, SetApn(d), SetApn(e))
         /\ Moves(unlike, d, e, RebootDevice(d), RebootDevice(e))
         /\ Moves(unlike, d, e, ToggleAirplaneMode(d), ToggleAirplaneMode(e))
<1>1. Moves(unlike, d, e, SetApn(d), SetApn(e))
  BY ApnPut, MovesThenSearch DEF SetApn
<1>2. {"apn_reset", "airplane_mode", "vpn"} \subseteq PhoneFields
  BY DEF PhoneFields
<1>3. d.apn_reset = e.apn_reset /\ d.airplane_mode = e.airplane_mode /\ d.vpn = e.vpn
      /\ Moves(unlike, d, e, d, e)
  BY <1>2, AlikeFields
<1>4. Moves(unlike, d, e, RebootDevice(d), RebootDevice(e))
  <2>1. CASE d.apn_reset
    <3>1. RebootDevice(d) = SetApn(d) /\ RebootDevice(e) = SetApn(e)
      BY <1>3, <2>1 DEF RebootDevice, SetApn
    <3> QED
      BY <1>1, <3>1
  <2>2. CASE ~d.apn_reset
    <3>1. RebootDevice(d) = SimulateNetworkSearch(d) /\ RebootDevice(e) = SimulateNetworkSearch(e)
      BY <1>3, <2>2 DEF RebootDevice
    <3> QED
      BY <3>1, Searches
  <2> QED
    BY <2>1, <2>2
<1>5. Moves(unlike, d, e, ToggleAirplaneMode(d), ToggleAirplaneMode(e))
  <2> DEFINE on == ~d.airplane_mode
             vpn == d.vpn /\ d.airplane_mode
             d1 == [[d EXCEPT !.airplane_mode = on] EXCEPT !.vpn = vpn]
             e1 == [[e EXCEPT !.airplane_mode = on] EXCEPT !.vpn = vpn]
  <2>1. ToggleAirplaneMode(d) = SimulateNetworkSearch(d1)
    BY DEF ToggleAirplaneMode
  <2>2. ToggleAirplaneMode(e) = SimulateNetworkSearch(e1)
    BY <1>3 DEF ToggleAirplaneMode
  <2> HIDE DEF on, vpn
  <2>3. Moves(unlike, d, e, d1, e1)
    BY <1>2, TwoPut
  <2> HIDE DEF d1, e1
  <2> QED
    BY <2>1, <2>2, <2>3, MovesThenSearch
<1> QED
  BY <1>1, <1>4, <1>5

\* Tools that turn something on or off, whatever it is.
LEMMA TurningTools ==
  ASSUME NEW unlike \in SUBSET Unseen, NEW d, NEW e, Alike(unlike, d, e)
  PROVE  /\ Moves(unlike, d, e, TurnDataOff(d), TurnDataOff(e))
         /\ \A on \in BOOLEAN : Moves(unlike, d, e, TurnRoaming(d, on), TurnRoaming(e, on))
         /\ Moves(unlike, d, e, TurnAirplaneModeOn(d), TurnAirplaneModeOn(e))
         /\ Moves(unlike, d, e, TurnDataSaverOn(d), TurnDataSaverOn(e))
<1>1. {"data", "roaming", "airplane_mode", "saver"} \subseteq PhoneFields
  BY DEF PhoneFields
<1>2. d.data = e.data /\ d.roaming = e.roaming /\ d.airplane_mode = e.airplane_mode /\ d.saver = e.saver
  BY <1>1, AlikeFields
<1>3. Moves(unlike, d, e, TurnDataOff(d), TurnDataOff(e))
  <2> DEFINE d1 == ToggleData(d)
             e1 == ToggleData(e)
  <2>1. Moves(unlike, d, e, d1, e1)
    BY SearchingTools
  <2>2. Moves(unlike, d1, e1, ToggleData(d1), ToggleData(e1))
    <3>1. Alike(unlike, d1, e1)
      BY <2>1 DEF Moves
    <3> HIDE DEF d1, e1
    <3> QED
      BY <3>1, SearchingTools
  <2>3. Moves(unlike, d, e, ToggleData(d1), ToggleData(e1))
    BY <2>1, <2>2, MovesOn
  <2> QED
    BY <1>2, <2>1, <2>3 DEF TurnDataOff
<1>4. ASSUME NEW on \in BOOLEAN PROVE Moves(unlike, d, e, TurnRoaming(d, on), TurnRoaming(e, on))
  <2> DEFINE d1 == ToggleRoaming(d)
             e1 == ToggleRoaming(e)
  <2>1. Moves(unlike, d, e, d1, e1)
    BY SearchingTools
  <2>2. Moves(unlike, d1, e1, ToggleRoaming(d1), ToggleRoaming(e1))
    <3>1. Alike(unlike, d1, e1)
      BY <2>1 DEF Moves
    <3> HIDE DEF d1, e1
    <3> QED
      BY <3>1, SearchingTools
  <2>3. Moves(unlike, d, e, ToggleRoaming(d1), ToggleRoaming(e1))
    BY <2>1, <2>2, MovesOn
  <2> QED
    BY <1>2, <2>1, <2>3 DEF TurnRoaming
<1>5. Moves(unlike, d, e, TurnAirplaneModeOn(d), TurnAirplaneModeOn(e))
  <2> DEFINE d1 == ToggleAirplaneMode(d)
             e1 == ToggleAirplaneMode(e)
  <2>1. Moves(unlike, d, e, d1, e1)
    BY DeviceTools
  <2>2. Moves(unlike, d1, e1, ToggleAirplaneMode(d1), ToggleAirplaneMode(e1))
    <3>1. Alike(unlike, d1, e1)
      BY <2>1 DEF Moves
    <3> HIDE DEF d1, e1
    <3> QED
      BY <3>1, DeviceTools
  <2>3. Moves(unlike, d, e, ToggleAirplaneMode(d1), ToggleAirplaneMode(e1))
    BY <2>1, <2>2, MovesOn
  <2> QED
    BY <1>2, <2>1, <2>3 DEF TurnAirplaneModeOn
<1>6. Moves(unlike, d, e, TurnDataSaverOn(d), TurnDataSaverOn(e))
  <2> DEFINE d1 == ToggleDataSaver(d)
             e1 == ToggleDataSaver(e)
  <2>1. Moves(unlike, d, e, d1, e1)
    BY SettingTools
  <2>2. Moves(unlike, d1, e1, ToggleDataSaver(d1), ToggleDataSaver(e1))
    <3>1. Alike(unlike, d1, e1)
      BY <2>1 DEF Moves
    <3> HIDE DEF d1, e1
    <3> QED
      BY <3>1, SettingTools
  <2>3. Moves(unlike, d, e, ToggleDataSaver(d1), ToggleDataSaver(e1))
    BY <2>1, <2>2, MovesOn
  <2> QED
    BY <1>2, <2>1, <2>3 DEF TurnDataSaverOn
<1> QED
  BY <1>3, <1>4, <1>5, <1>6

-----------------------------------------------------------------------------
(* What the operator and the payment request of the user come to.          *)

\* The types of the account in environment c.  A bill with an id drawn there exists.
Account(c, d) ==
  /\ Shaped(d)
  /\ d.bills \in [BillIds -> BillStatuses]
  /\ d.drawn \in [BillIds -> {"seed", c}]
  /\ \A b \in BillIds : d.drawn[b] # "seed" => d.bills[b] # "none"
  /\ d.request \in [bill : BillIds \cup {"none"}, paid : BOOLEAN]

\* Between a tool and sync_tools: a bill awaits payment without a request yet,
\* or is the one of the request.
Open(d) ==
  /\ d.request.bill = "none" => ~d.request.paid /\ \A a, b \in AwaitingBills(d) : a = b
  /\ d.request.bill # "none" => AwaitingBills(d) = {d.request.bill}

\* What sync_tools brings about.
Agreed(d) ==
  AwaitingBills(d) = (IF d.request = NoRequest THEN {} ELSE {d.request.bill}) /\ ~d.request.paid
Derived(d) ==
  /\ d.line_active = (d.line_status = "active")
  /\ d.roaming_allowed = d.line_roaming
  /\ d.exceeded = (d.data_used >= PlanLimit + d.data_refueling)
InStep(c, d) == Account(c, d) /\ Agreed(d) /\ Derived(d)

\* No bill leaves the state of a draft for good and comes back to it.
Ages(d, d1) ==
  \A b \in BillIds : /\ d.drawn[b] # "seed" => d1.drawn[b] # "seed"
                     /\ d.bills[b] \notin {"none", "draft"} => d1.bills[b] \notin {"none", "draft"}

\* A bill with an id drawn at random is a draft no more.
Used(d) == \E b \in BillIds : d.drawn[b] # "seed" /\ d.bills[b] # "draft"

\* e, in environment k, agrees with d, and has the same ids drawn.
Twin(unlike, k, d, e) ==
  /\ Alike(unlike, d, e)
  /\ e.drawn \in [BillIds -> {"seed", k}]
  /\ \A b \in BillIds : d.drawn[b] = "seed" <=> e.drawn[b] = "seed"

LEMMA RequestIs ==
  ASSUME NEW d, d.request \in [bill : BillIds \cup {"none"}, paid : BOOLEAN]
  PROVE  d.request = NoRequest <=> d.request.bill = "none" /\ ~d.request.paid
<1>1. PICK b \in BillIds \cup {"none"}, p \in BOOLEAN : d.request = [bill |-> b, paid |-> p]
  OBVIOUS
<1>2. CASE p = TRUE
  BY <1>1, <1>2 DEF NoRequest
<1>3. CASE p = FALSE
  <2>1. d.request = [bill |-> b, paid |-> FALSE]
    BY <1>1, <1>3
  <2>2. d.request.bill = b /\ d.request.paid = FALSE
    BY <2>1
  <2>3. d.request = NoRequest => b = "none"
    BY <2>2 DEF NoRequest
  <2>4. b = "none" => d.request = NoRequest
    BY <2>1 DEF NoRequest
  <2> QED
    BY <2>2, <2>3, <2>4
<1> QED
  BY <1>2, <1>3

LEMMA UsedForGood ==
  ASSUME NEW c, NEW d, NEW d1, Account(c, d), Ages(d, d1), Used(d)
  PROVE  Used(d1)
BY DEF Used, Ages, Account

\* What touches neither bills nor request.
LEMMA BillsKept ==
  ASSUME NEW c, NEW d, NEW d1, Account(c, d), Shaped(d1),
         d1.bills = d.bills, d1.drawn = d.drawn, d1.request = d.request
  PROVE  Account(c, d1) /\ (Open(d) => Open(d1)) /\ (Agreed(d) => Agreed(d1)) /\ Ages(d, d1)
BY DEF Account, Open, Agreed, AwaitingBills, Ages

LEMMA AgreedIsOpen ==
  ASSUME NEW c, NEW d, Account(c, d), Agreed(d)
  PROVE  Open(d)
BY RequestIs DEF Account, Agreed, Open

\* Two fields of two environments set to the same.
LEMMA BothSet ==
  ASSUME NEW unlike \in SUBSET Unseen, NEW k, NEW d, NEW e, Twin(unlike, k, d, e),
         NEW f \in Fields \ {"drawn"}, NEW v
  PROVE  Twin(unlike, k, [d EXCEPT ![f] = v], [e EXCEPT ![f] = v])
<1> DEFINE d1 == [d EXCEPT ![f] = v]
           e1 == [e EXCEPT ![f] = v]
<1>0. "drawn" \in Fields
  BY DEF Fields, AccountFields
<1>1. Shaped(d1) /\ d1[f] = v /\ \A g \in Fields : g # f => d1[g] = d[g]
  BY FieldSet DEF Twin, Alike
<1>2. Shaped(e1) /\ e1[f] = v /\ \A g \in Fields : g # f => e1[g] = e[g]
  BY FieldSet DEF Twin, Alike
<1> HIDE DEF d1, e1
<1>3. Twin(unlike, k, d1, e1)
  BY <1>0, <1>1, <1>2 DEF Twin, Alike
<1> QED
  BY <1>3 DEF d1, e1

LEMMA TwinFields ==
  ASSUME NEW unlike \in SUBSET Unseen, NEW k, NEW d, NEW e, Twin(unlike, k, d, e)
  PROVE  /\ \A f \in Fields \ Unseen : d[f] = e[f]
         /\ Shaped(d) /\ Shaped(e)
BY DEF Twin, Alike

\* A tool of the phone.
LEMMA PhoneCall ==
  ASSUME NEW unlike \in SUBSET Unseen, NEW k, NEW d, NEW e, NEW d1, NEW e1,
         Twin(unlike, k, d, e), Moves(unlike, d, e, d1, e1)
  PROVE  Twin(unlike, k, d1, e1)
<1>1. "drawn" \in AccountFields
  BY DEF AccountFields
<1> QED
  BY <1>1 DEF Twin, Moves

LEMMA PhoneCallAlone ==
  ASSUME NEW c, NEW d, NEW d1, InStep(c, d), Moves({}, d, d, d1, d1)
  PROVE  InStep(c, d1) /\ Ages(d, d1)
<1>1. \A f \in AccountFields : d1[f] = d[f]
  BY DEF Moves
<1>2. d1.bills = d.bills /\ d1.drawn = d.drawn /\ d1.request = d.request
  BY <1>1 DEF AccountFields
<1>3. Derived(d1)
  BY <1>1 DEF InStep, Derived, AccountFields
<1>4. Shaped(d1)
  BY DEF Moves, Alike
<1> QED
  BY <1>2, <1>3, <1>4, BillsKept DEF InStep

\* What an operator's tool has to leave behind it, alone
Sound(c, d, r) == Account(c, r.db) /\ Open(r.db) /\ Ages(d, r.db) /\ (r.error => r.db = d)
\* and beside its twin.
Paired(unlike, k, r, s) == r.error = s.error /\ Twin(unlike, k, r.db, s.db)

LEMMA StaysAsItIs ==
  ASSUME NEW unlike \in SUBSET Unseen, NEW c, NEW k, NEW d, NEW e, InStep(c, d), Twin(unlike, k, d, e)
  PROVE  /\ Sound(c, d, Raised(d)) /\ Paired(unlike, k, Raised(d), Raised(e))
         /\ Sound(c, d, Done(d)) /\ Paired(unlike, k, Done(d), Done(e))
<1>1. Open(d) /\ Account(c, d)
  BY AgreedIsOpen DEF InStep
<1>2. Ages(d, d)
  BY DEF Ages
<1> QED
  BY <1>1, <1>2 DEF Sound, Paired, Raised, Done

\* A field of the line set.
LEMMA LineSet ==
  ASSUME NEW unlike \in SUBSET Unseen, NEW c, NEW k, NEW d, NEW e, InStep(c, d), Twin(unlike, k, d, e),
         NEW f \in {"line_status", "line_roaming", "data_used", "data_refueling"}, NEW v
  PROVE  /\ Sound(c, d, Done([d EXCEPT ![f] = v]))
         /\ Paired(unlike, k, Done([d EXCEPT ![f] = v]), Done([e EXCEPT ![f] = v]))
<1> DEFINE d1 == [d EXCEPT ![f] = v]
           e1 == [e EXCEPT ![f] = v]
<1>1. f \in Fields \ {"drawn"} /\ \A g \in {"bills", "drawn", "request"} : g \in Fields /\ g # f
  BY DEF Fields, AccountFields
<1>2. Twin(unlike, k, d1, e1)
  BY <1>1, BothSet
<1>3. Shaped(d1) /\ d1.bills = d.bills /\ d1.drawn = d.drawn /\ d1.request = d.request
  BY <1>1, FieldSet DEF InStep, Account
<1> HIDE DEF d1, e1
<1>4. Account(c, d1) /\ Open(d1) /\ Ages(d, d1)
  BY <1>3, BillsKept, AgreedIsOpen DEF InStep
<1>5. Sound(c, d, Done(d1)) /\ Paired(unlike, k, Done(d1), Done(e1))
  BY <1>2, <1>4 DEF Sound, Paired, Done
<1> QED
  BY <1>5 DEF d1, e1

LEMMA LineTools ==
  ASSUME NEW unlike \in SUBSET Unseen, NEW c, NEW k, NEW d, NEW e, InStep(c, d), Twin(unlike, k, d, e)
  PROVE  /\ Sound(c, d, SuspendLine(d)) /\ Paired(unlike, k, SuspendLine(d), SuspendLine(e))
         /\ Sound(c, d, ResumeLine(d)) /\ Paired(unlike, k, ResumeLine(d), ResumeLine(e))
         /\ \A on : /\ Sound(c, d, SetLineRoaming(d, on))
                    /\ Paired(unlike, k, SetLineRoaming(d, on), SetLineRoaming(e, on))
         /\ \A used : /\ Sound(c, d, SetDataUsage(d, used))
                      /\ Paired(unlike, k, SetDataUsage(d, used), SetDataUsage(e, used))
<1>1. d.line_status = e.line_status
  BY TwinFields DEF Fields, AccountFields, Unseen
<1>2. ASSUME NEW f \in {"line_status", "line_roaming", "data_used", "data_refueling"}, NEW v
      PROVE /\ Sound(c, d, Done([d EXCEPT ![f] = v]))
            /\ Paired(unlike, k, Done([d EXCEPT ![f] = v]), Done([e EXCEPT ![f] = v]))
  BY LineSet
<1>3. /\ Sound(c, d, Raised(d)) /\ Paired(unlike, k, Raised(d), Raised(e))
  BY StaysAsItIs
<1>4. Sound(c, d, SuspendLine(d)) /\ Paired(unlike, k, SuspendLine(d), SuspendLine(e))
  BY <1>1, <1>2, <1>3 DEF SuspendLine
<1>5. Sound(c, d, ResumeLine(d)) /\ Paired(unlike, k, ResumeLine(d), ResumeLine(e))
  BY <1>1, <1>2, <1>3 DEF ResumeLine
<1>6. \A on : /\ Sound(c, d, SetLineRoaming(d, on))
              /\ Paired(unlike, k, SetLineRoaming(d, on), SetLineRoaming(e, on))
  BY <1>2 DEF SetLineRoaming
<1>7. \A used : /\ Sound(c, d, SetDataUsage(d, used))
                /\ Paired(unlike, k, SetDataUsage(d, used), SetDataUsage(e, used))
  BY <1>2 DEF SetDataUsage
<1> QED
  BY <1>4, <1>5, <1>6, <1>7

\* A bill that awaits payment, alone.
LEMMA BillAwaits ==
  ASSUME NEW c, NEW d, InStep(c, d), AwaitingBills(d) = {}, NEW b \in BillIds, d.bills[b] # "none"
  PROVE  Sound(c, d, Done([d EXCEPT !.bills[b] = "awaiting"]))
<1> DEFINE bills == [d.bills EXCEPT ![b] = "awaiting"]
           d1 == [d EXCEPT !.bills = bills]
<1>1. \A g \in {"bills", "drawn", "request"} : g \in Fields
  BY DEF Fields, AccountFields
<1>2. /\ Shaped(d) /\ d.bills \in [BillIds -> BillStatuses]
      /\ d.request \in [bill : BillIds \cup {"none"}, paid : BOOLEAN]
      /\ d.drawn \in [BillIds -> {"seed", c}]
      /\ \A a \in BillIds : d.drawn[a] # "seed" => d.bills[a] # "none"
  BY DEF InStep, Account
<1>3. /\ Shaped(d1) /\ d1.bills = bills /\ d1.drawn = d.drawn /\ d1.request = d.request
  <2> HIDE DEF bills
  <2> QED
    BY <1>1, <1>2, FieldSet
<1>4. [d EXCEPT !.bills[b] = "awaiting"] = d1
  OBVIOUS
<1>5. "awaiting" \in BillStatuses /\ bills \in [BillIds -> BillStatuses]
      /\ bills[b] = "awaiting" /\ \A a \in BillIds : a # b => bills[a] = d.bills[a]
  BY <1>2 DEF BillStatuses
<1>6. d.request = NoRequest
  <2>1. d.request.bill \in {d.request.bill}
    OBVIOUS
  <2> QED
    BY <2>1 DEF InStep, Agreed
<1>7. \A a \in BillIds : d.bills[a] # "awaiting"
  BY <1>2 DEF AwaitingBills
<1> HIDE DEF d1, bills
<1>8. Account(c, d1) /\ Ages(d, d1)
  BY <1>2, <1>3, <1>5 DEF Account, Ages
<1>9. Open(d1)
  <2>1. AwaitingBills(d1) = {b}
    BY <1>2, <1>3, <1>5, <1>7 DEF AwaitingBills
  <2> QED
    BY <1>2, <1>3, <1>6, <2>1, RequestIs DEF Open
<1> QED
  BY <1>4, <1>8, <1>9 DEF Sound, Done

\* The live environment knows all its bills, another only those of the start.
LEMMA Sends ==
  ASSUME NEW unlike \in SUBSET Unseen, NEW k, k # "live", NEW d, NEW e,
         InStep("live", d), Twin(unlike, k, d, e), NEW b \in BillIds
  PROVE  /\ Sound("live", d, SendPaymentRequest(d, b))
         /\ Used(SendPaymentRequest(d, b).db) \/ Paired(unlike, k, SendPaymentRequest(d, b), SendPaymentRequest(e, b))
<1>1. /\ Shaped(d) /\ d.bills \in [BillIds -> BillStatuses] /\ d.drawn \in [BillIds -> {"seed", "live"}]
      /\ d.drawn[b] # "seed" => d.bills[b] # "none"
  BY DEF InStep, Account
<1>2. /\ d.bills = e.bills /\ AwaitingBills(d) = AwaitingBills(e)
  BY TwinFields DEF Fields, AccountFields, Unseen, AwaitingBills
<1>3. e.drawn[b] \in {"seed", k} /\ (d.drawn[b] = "seed" <=> e.drawn[b] = "seed")
  BY DEF Twin
<1>4. Sound("live", d, Raised(d)) /\ Paired(unlike, k, Raised(d), Raised(e))
  BY StaysAsItIs
<1>5. CASE ~(AwaitingBills(d) = {} /\ d.bills[b] # "none")
  <2>1. SendPaymentRequest(d, b) = Raised(d) /\ SendPaymentRequest(e, b) = Raised(e)
    BY <1>2, <1>5 DEF SendPaymentRequest
  <2> QED
    BY <1>4, <2>1
<1>6. CASE AwaitingBills(d) = {} /\ d.bills[b] # "none"
  <2> DEFINE bills == [d.bills EXCEPT ![b] = "awaiting"]
             d1 == [d EXCEPT !.bills = bills]
             e1 == [e EXCEPT !.bills = bills]
  <2>1. SendPaymentRequest(d, b) = Done(d1)
    <3>1. d.drawn[b] \in {"seed", "live"}
      BY <1>1
    <3>2. [d EXCEPT !.bills[b] = "awaiting"] = d1
      OBVIOUS
    <3> HIDE DEF d1
    <3> QED
      BY <1>6, <3>1, <3>2 DEF SendPaymentRequest
  <2>2. Sound("live", d, Done(d1))
    BY <1>6, BillAwaits
  <2>3. CASE d.drawn[b] = "seed"
    <3>1. SendPaymentRequest(e, b) = Done(e1)
      <4>1. [e EXCEPT !.bills[b] = "awaiting"] = e1
        BY <1>2
      <4> HIDE DEF e1
      <4> QED
        BY <1>2, <1>3, <1>6, <2>3, <4>1 DEF SendPaymentRequest
    <3>2. Twin(unlike, k, d1, e1)
      <4>1. "bills" \in Fields \ {"drawn"}
        BY DEF Fields, AccountFields
      <4> HIDE DEF bills
      <4> QED
        BY <4>1, BothSet
    <3>3. Paired(unlike, k, Done(d1), Done(e1))
      BY <3>2 DEF Paired, Done
    <3> QED
      BY <2>1, <2>2, <3>1, <3>3
  <2>4. CASE d.drawn[b] # "seed"
    <3>1. "bills" \in Fields /\ "drawn" \in Fields
      BY DEF Fields, AccountFields
    <3>2. d1.bills = bills /\ d1.drawn = d.drawn
      <4> HIDE DEF bills
      <4> QED
        BY <1>1, <3>1, FieldSet
    <3>3. bills[b] = "awaiting"
      BY <1>1
    <3> HIDE DEF bills, d1
    <3>4. Used(d1)
      BY <2>4, <3>2, <3>3 DEF Used
    <3> QED
      BY <2>1, <2>2, <3>4 DEF Done
  <2> QED
    BY <2>3, <2>4
<1> QED
  BY <1>5, <1>6

\* The bill of an overdue line, or a draft, that there was not before.
LEMMA BillAdded ==
  ASSUME NEW c, NEW d, NEW d1, NEW b \in BillIds, NEW status \in {"overdue", "draft"},
         Account(c, d), Open(d), d.bills[b] = "none", Shaped(d1), d1.request = d.request,
         d1.bills = [d.bills EXCEPT ![b] = status], d1.drawn \in [BillIds -> {"seed", c}],
         \A a \in BillIds : a # b => d1.drawn[a] = d.drawn[a]
  PROVE  Account(c, d1) /\ Open(d1) /\ Ages(d, d1)
<1>1. status \in BillStatuses
  BY DEF BillStatuses
<1>2. /\ d1.bills \in [BillIds -> BillStatuses] /\ d1.bills[b] = status
      /\ \A a \in BillIds : a # b => d1.bills[a] = d.bills[a]
  BY <1>1 DEF Account
<1>3. d.drawn[b] = "seed"
  BY DEF Account
<1>4. Account(c, d1)
  BY <1>2 DEF Account
<1>5. AwaitingBills(d1) = AwaitingBills(d)
  <2>1. DOMAIN d.bills = BillIds /\ DOMAIN d1.bills = BillIds
    BY <1>2 DEF Account
  <2>2. d1.bills[b] # "awaiting"
    BY <1>2
  <2> QED
    BY <1>2, <2>1, <2>2 DEF AwaitingBills
<1>6. Open(d1)
  BY <1>5 DEF Open
<1>7. Ages(d, d1)
  BY <1>2, <1>3 DEF Ages
<1> QED
  BY <1>4, <1>6, <1>7

\* All that a charge makes of the bills is one draft, where there was none.
DraftMade(d, d1) ==
  /\ \A b \in BillIds : d1.bills[b] # d.bills[b] =>
       d1.bills[b] = "draft" /\ d.bills[b] = "none" /\ b \in {"draft", "draft2"}
         /\ d.bills["draft"] # "draft" /\ (d.bills["draft"] = "none" => b = "draft")
  /\ \A b \in BillIds : d1.drawn[b] # d.drawn[b] =>
       d.bills[b] = "none" /\ b \in {"draft", "draft2"} /\ d1.bills[b] = "draft"
  /\ \A f \in Fields \ {"bills", "drawn", "data_refueling"} : d1[f] = d[f]

LEMMA Refuels ==
  ASSUME NEW unlike \in SUBSET Unseen, "drawn" \in unlike, NEW c, c # "seed", NEW k, k # "seed", NEW d, NEW e,
         InStep(c, d), Twin(unlike, k, d, e), RoomForBill(d)
  PROVE  /\ Sound(c, d, RefuelData(c, d))
         /\ Paired(unlike, k, RefuelData(c, d), RefuelData(k, e))
         /\ DraftMade(d, RefuelData(c, d).db)
<1> DEFINE slot == IF d.bills["draft"] = "none" THEN "draft" ELSE "draft2"
           more == d.data_refueling + 20
           d1 == [d EXCEPT !.data_refueling = more]
           e1 == [e EXCEPT !.data_refueling = more]
           bills == [d.bills EXCEPT ![slot] = "draft"]
           d2 == [d1 EXCEPT !.bills = bills]
           e2 == [e1 EXCEPT !.bills = bills]
           drawnD == [d.drawn EXCEPT ![slot] = c]
           drawnE == [e.drawn EXCEPT ![slot] = k]
           d3 == [d2 EXCEPT !.drawn = drawnD]
           e3 == [e2 EXCEPT !.drawn = drawnE]
           none == {b \in {"draft", "draft2"} : d.bills[b] = "draft"} = {}
<1>1. \A g \in {"bills", "drawn", "request", "data_refueling"} : g \in Fields
  BY DEF Fields, AccountFields
<1>2. /\ d.bills = e.bills /\ d.data_refueling = e.data_refueling /\ Shaped(d) /\ Shaped(e)
  BY TwinFields DEF Fields, AccountFields, Unseen
<1>3. slot \in BillIds /\ slot \in {"draft", "draft2"}
  BY DEF BillIds
<1>4. Account(c, d) /\ Open(d)
  BY AgreedIsOpen DEF InStep
<1>5. Sound(c, d, Done(d1)) /\ Paired(unlike, k, Done(d1), Done(e1))
  BY LineSet
<1>6. /\ Twin(unlike, k, d1, e1) /\ Account(c, d1) /\ Open(d1) /\ Ages(d, d1)
  BY <1>5 DEF Sound, Paired, Done
<1>7. d1.bills = d.bills /\ d1.drawn = d.drawn /\ d1.request = d.request
      /\ e1.bills = d.bills /\ e1.drawn = e.drawn /\ e1.request = e.request
  BY <1>1, <1>2, FieldSet
<1> DEFINE others == Fields \ {"bills", "drawn", "data_refueling"}
<1>12. \A f \in others : d1[f] = d[f]
  BY <1>1, <1>2, FieldSet
<1>8. RefuelData(c, d) = Done(IF none THEN d3 ELSE d1)
  BY <1>7 DEF RefuelData
<1>9. RefuelData(k, e) = Done(IF none THEN e3 ELSE e1)
  BY <1>2, <1>7 DEF RefuelData
<1>10. CASE ~none
  <2>1. RefuelData(c, d) = Done(d1) /\ RefuelData(k, e) = Done(e1)
    BY <1>8, <1>9, <1>10
  <2>2. RefuelData(c, d).db = d1
    BY <2>1 DEF Done
  <2> HIDE DEF d1, e1
  <2> QED
    BY <1>5, <1>7, <1>12, <2>1, <2>2 DEF DraftMade
<1>11. CASE none
  <2>1. d.bills[slot] = "none"
    BY <1>11 DEF RoomForBill
  <2>2. Twin(unlike, k, d2, e2)
    <3>1. "bills" \in Fields \ {"drawn"}
      BY <1>1
    <3> HIDE DEF bills, d1, e1
    <3> QED
      BY <1>6, <3>1, BothSet
  <2>3. Shaped(d2) /\ d2.bills = bills /\ d2.drawn = d.drawn /\ (\A f \in others : d2[f] = d[f])
        /\ Shaped(e2) /\ e2.drawn = e.drawn
    <3>1. Shaped(d1) /\ Shaped(e1)
      BY <1>6, TwinFields
    <3> HIDE DEF bills, d1, e1
    <3>2. Shaped(d2) /\ d2.bills = bills /\ d2.drawn = d.drawn
      BY <1>1, <1>7, <3>1, FieldSet
    <3>3. Shaped(e2) /\ e2.drawn = e.drawn
      BY <1>1, <1>7, <3>1, FieldSet
    <3>4. \A f \in others : d2[f] = d[f]
      BY <1>1, <1>12, <3>1, FieldSet
    <3> QED
      BY <3>2, <3>3, <3>4
  <2>4. /\ Shaped(d3) /\ d3.drawn = drawnD /\ \A g \in Fields \ {"drawn"} : d3[g] = d2[g]
        /\ Shaped(e3) /\ e3.drawn = drawnE /\ \A g \in Fields \ {"drawn"} : e3[g] = e2[g]
    <3> HIDE DEF bills, d1, e1, d2, e2, drawnD, drawnE
    <3>1. Shaped(d3) /\ d3.drawn = drawnD /\ \A g \in Fields \ {"drawn"} : d3[g] = d2[g]
      BY <1>1, <2>3, FieldSet
    <3>2. Shaped(e3) /\ e3.drawn = drawnE /\ \A g \in Fields \ {"drawn"} : e3[g] = e2[g]
      BY <1>1, <2>3, FieldSet
    <3> QED
      BY <3>1, <3>2
  <2>5. d3.bills = bills /\ d3.request = d.request /\ \A f \in others : d3[f] = d[f]
    BY <1>1, <2>3, <2>4
  <2> HIDE DEF d1, e1, d2, e2, d3, e3
  <2>6. /\ d.drawn \in [BillIds -> {"seed", c}] /\ e.drawn \in [BillIds -> {"seed", k}]
        /\ \A b \in BillIds : d.drawn[b] = "seed" <=> e.drawn[b] = "seed"
    BY <1>4 DEF Account, Twin
  <2> HIDE DEF slot
  <2>7. /\ d3.drawn \in [BillIds -> {"seed", c}] /\ e3.drawn \in [BillIds -> {"seed", k}]
        /\ d3.drawn[slot] = c /\ e3.drawn[slot] = k
        /\ \A b \in BillIds : b # slot => d3.drawn[b] = d.drawn[b] /\ e3.drawn[b] = e.drawn[b]
    <3>1. /\ drawnD \in [BillIds -> {"seed", c}] /\ drawnD[slot] = c
          /\ \A b \in BillIds : b # slot => drawnD[b] = d.drawn[b]
      BY <1>3, <2>6
    <3>2. /\ drawnE \in [BillIds -> {"seed", k}] /\ drawnE[slot] = k
          /\ \A b \in BillIds : b # slot => drawnE[b] = e.drawn[b]
      BY <1>3, <2>6
    <3> HIDE DEF drawnD, drawnE
    <3> QED
      BY <2>4, <3>1, <3>2
  <2> HIDE DEF drawnD, drawnE
  <2>8. Twin(unlike, k, d3, e3)
    <3>1. \A b \in BillIds : d3.drawn[b] = "seed" <=> e3.drawn[b] = "seed"
      BY <2>6, <2>7
    <3>2. \A g \in Fields \ unlike : d3[g] = e3[g]
      BY <2>2, <2>4 DEF Twin, Alike
    <3> QED
      BY <2>4, <2>7, <3>1, <3>2 DEF Twin, Alike
  <2>9. Account(c, d3) /\ Open(d3) /\ Ages(d, d3)
    <3>1. /\ Account(c, d) /\ Open(d) /\ d.bills[slot] = "none" /\ slot \in BillIds
          /\ "draft" \in {"overdue", "draft"}
      BY <1>3, <1>4, <2>1
    <3>2. /\ Shaped(d3) /\ d3.request = d.request /\ d3.bills = [d.bills EXCEPT ![slot] = "draft"]
      BY <2>4, <2>5
    <3>3. /\ d3.drawn \in [BillIds -> {"seed", c}]
          /\ \A b \in BillIds : b # slot => d3.drawn[b] = d.drawn[b]
      BY <2>7
    <3> HIDE DEF none, more, bills
    <3> QED
      BY <3>1, <3>2, <3>3, BillAdded
  <2>10. bills[slot] = "draft" /\ \A b \in BillIds : b # slot => bills[b] = d.bills[b]
    BY <1>3, <1>4 DEF Account
  <2>11. Sound(c, d, Done(d3)) /\ Paired(unlike, k, Done(d3), Done(e3))
    BY <2>8, <2>9 DEF Sound, Paired, Done
  <2>12. d.bills["draft"] # "draft" /\ (d.bills["draft"] = "none" => slot = "draft")
    BY <1>11 DEF slot
  <2> HIDE DEF bills
  <2>13. DraftMade(d, d3)
    BY <1>3, <2>1, <2>5, <2>7, <2>10, <2>12 DEF DraftMade
  <2>14. RefuelData(c, d) = Done(d3) /\ RefuelData(k, e) = Done(e3) /\ Done(d3).db = d3
    BY <1>8, <1>9, <1>11 DEF Done
  <2> QED
    BY <2>11, <2>13, <2>14
<1> QED
  BY <1>10, <1>11

LEMMA Overdue ==
  ASSUME NEW unlike \in SUBSET Unseen, NEW c, NEW k, NEW d, NEW e, InStep(c, d), Twin(unlike, k, d, e)
  PROVE  /\ Sound(c, d, SuspendLineForOverdueBill(d))
         /\ Paired(unlike, k, SuspendLineForOverdueBill(d), SuspendLineForOverdueBill(e))
         /\ SuspendLineForOverdueBill(d).db.drawn = d.drawn
         /\ SuspendLineForOverdueBill(d).db.request = d.request
         /\ \A b \in BillIds : SuspendLineForOverdueBill(d).db.bills[b] # d.bills[b]
                                 => b = "overdue" /\ SuspendLineForOverdueBill(d).db.bills[b] = "overdue"
<1> DEFINE bills == [d.bills EXCEPT !["overdue"] = "overdue"]
           d1 == [d EXCEPT !.bills = bills]
           e1 == [e EXCEPT !.bills = bills]
           d2 == [d1 EXCEPT !.line_status = "suspended"]
           e2 == [e1 EXCEPT !.line_status = "suspended"]
<1>1. /\ \A g \in {"bills", "drawn", "request", "line_status"} : g \in Fields
      /\ "bills" \in Fields \ {"drawn"} /\ "line_status" \in Fields \ {"drawn"}
      /\ "overdue" \in BillIds
  BY DEF Fields, AccountFields, BillIds
<1>2. /\ d.bills = e.bills /\ d.line_status = e.line_status /\ Shaped(d) /\ Shaped(e)
  BY TwinFields DEF Fields, AccountFields, Unseen
<1>3. Account(c, d) /\ Open(d)
  BY AgreedIsOpen DEF InStep
<1>4. CASE ~(d.line_status = "active" /\ d.bills["overdue"] = "none")
  <2>1. SuspendLineForOverdueBill(d) = Raised(d) /\ SuspendLineForOverdueBill(e) = Raised(e)
    BY <1>2, <1>4 DEF SuspendLineForOverdueBill
  <2> QED
    BY <2>1, StaysAsItIs DEF Raised
<1>5. CASE d.line_status = "active" /\ d.bills["overdue"] = "none"
  <2>1. SuspendLineForOverdueBill(d) = Done(d2) /\ SuspendLineForOverdueBill(e) = Done(e2)
    BY <1>2, <1>5 DEF SuspendLineForOverdueBill
  <2>2. Shaped(d1) /\ d1.bills = bills /\ d1.drawn = d.drawn /\ d1.request = d.request
    <3> HIDE DEF bills
    <3> QED
      BY <1>1, <1>2, FieldSet
  <2>3. Twin(unlike, k, d1, e1)
    <3> HIDE DEF bills
    <3> QED
      BY <1>1, BothSet
  <2>4. Twin(unlike, k, d2, e2)
    <3> HIDE DEF d1, e1
    <3> QED
      BY <1>1, <2>3, BothSet
  <2>5. Shaped(d2) /\ d2.bills = bills /\ d2.drawn = d.drawn /\ d2.request = d.request
    <3> HIDE DEF d1, bills
    <3> QED
      BY <1>1, <2>2, FieldSet
  <2> HIDE DEF d2, e2
  <2>6. Account(c, d2) /\ Open(d2) /\ Ages(d, d2)
    <3>1. d.drawn \in [BillIds -> {"seed", c}]
      BY <1>3 DEF Account
    <3> QED
      BY <1>1, <1>3, <1>5, <2>5, <3>1, BillAdded
  <2>7. bills["overdue"] = "overdue" /\ \A b \in BillIds : b # "overdue" => bills[b] = d.bills[b]
    BY <1>1, <1>3 DEF Account
  <2> QED
    <3>1. SuspendLineForOverdueBill(d).db = d2
      BY <2>1 DEF Done
    <3>2. Sound(c, d, Done(d2)) /\ Paired(unlike, k, Done(d2), Done(e2))
      BY <2>4, <2>6 DEF Sound, Paired, Done
    <3> HIDE DEF bills
    <3> QED
      BY <2>1, <2>5, <2>7, <3>1, <3>2
<1> QED
  BY <1>4, <1>5

LEMMA Pays ==
  ASSUME NEW unlike \in SUBSET Unseen, NEW c, NEW k, NEW d, NEW e, InStep(c, d), Twin(unlike, k, d, e)
  PROVE  /\ Sound(c, d, Done(MakePayment(d)))
         /\ Paired(unlike, k, Done(MakePayment(d)), Done(MakePayment(e)))
<1> DEFINE request == [d.request EXCEPT !.paid = TRUE]
           d1 == [d EXCEPT !.request = request]
           e1 == [e EXCEPT !.request = request]
<1>1. /\ \A g \in {"bills", "drawn", "request"} : g \in Fields
      /\ "request" \in Fields \ {"drawn"}
  BY DEF Fields, AccountFields
<1>2. /\ d.request = e.request /\ Shaped(d)
  BY TwinFields DEF Fields, AccountFields, Unseen
<1>3. Account(c, d) /\ Open(d)
  BY AgreedIsOpen DEF InStep
<1>4. CASE d.request.bill = "none"
  BY <1>2, <1>4, StaysAsItIs DEF MakePayment
<1>5. CASE d.request.bill # "none"
  <2>1. MakePayment(d) = d1 /\ MakePayment(e) = e1
    BY <1>2, <1>5 DEF MakePayment
  <2>2. request \in [bill : BillIds \cup {"none"}, paid : BOOLEAN] /\ request.bill = d.request.bill
    BY <1>3 DEF Account
  <2> HIDE DEF request
  <2>3. Shaped(d1) /\ d1.bills = d.bills /\ d1.drawn = d.drawn /\ d1.request = request
    BY <1>1, <1>2, FieldSet
  <2>4. Twin(unlike, k, d1, e1)
    BY <1>1, BothSet
  <2> HIDE DEF d1, e1
  <2>5. Account(c, d1) /\ Open(d1) /\ Ages(d, d1)
    BY <1>3, <1>5, <2>2, <2>3 DEF Account, Open, Ages, AwaitingBills
  <2> QED
    BY <2>1, <2>4, <2>5 DEF Sound, Paired, Done
<1> QED
  BY <1>4, <1>5

\* sync_tools: a payment made reaches the operator,
Settled(d) ==
  IF d.request.paid
  THEN [d EXCEPT !.bills[d.request.bill] = "paid", !.request = NoRequest]
  ELSE d
\* a bill that awaits payment reaches the user,
Asked(s) ==
  IF s.request = NoRequest /\ AwaitingBills(s) # {}
  THEN [s EXCEPT !.request = [bill |-> CHOOSE b \in AwaitingBills(s) : TRUE, paid |-> FALSE]]
  ELSE s
\* and what the line allows reaches the phone.
Allowed(d, a) ==
  [a EXCEPT !.line_active = (d.line_status = "active"), !.roaming_allowed = d.line_roaming,
            !.exceeded = (d.data_used >= PlanLimit + d.data_refueling)]

LEMMA SyncIs == ASSUME NEW d PROVE SyncTools(d) = Allowed(d, Asked(Settled(d)))
BY DEF SyncTools, Allowed, Asked, Settled

LEMMA Settles ==
  ASSUME NEW unlike \in SUBSET Unseen, NEW c, NEW k, NEW d, NEW e, Account(c, d), Open(d), Twin(unlike, k, d, e)
  PROVE  /\ Account(c, Settled(d)) /\ Open(Settled(d)) /\ ~Settled(d).request.paid /\ Ages(d, Settled(d))
         /\ Twin(unlike, k, Settled(d), Settled(e))
         /\ \A f \in Fields \ {"bills", "request"} : Settled(d)[f] = d[f] /\ Settled(e)[f] = e[f]
         /\ ~d.request.paid => Settled(d) = d
<1> DEFINE bills == [d.bills EXCEPT ![d.request.bill] = "paid"]
           d1 == [d EXCEPT !.bills = bills]
           e1 == [e EXCEPT !.bills = bills]
           d2 == [d1 EXCEPT !.request = NoRequest]
           e2 == [e1 EXCEPT !.request = NoRequest]
<1>1. /\ \A g \in {"bills", "drawn", "request"} : g \in Fields
      /\ "bills" \in Fields \ {"drawn"} /\ "request" \in Fields \ {"drawn"}
  BY DEF Fields, AccountFields
<1>2. /\ d.bills = e.bills /\ d.request = e.request /\ Shaped(d) /\ Shaped(e)
  BY TwinFields DEF Fields, AccountFields, Unseen
<1>3. CASE ~d.request.paid
  <2>1. Settled(d) = d /\ Settled(e) = e
    BY <1>2, <1>3 DEF Settled
  <2>2. Ages(d, d)
    BY DEF Ages
  <2> QED
    BY <1>3, <2>1, <2>2
<1>4. CASE d.request.paid
  <2>1. Settled(d) = d2 /\ Settled(e) = e2
    BY <1>2, <1>4 DEF Settled
  <2>2. Twin(unlike, k, d1, e1)
    <3> HIDE DEF bills
    <3> QED
      BY <1>1, BothSet
  <2>3. Twin(unlike, k, d2, e2)
    <3> HIDE DEF d1, e1
    <3> QED
      BY <1>1, <2>2, BothSet
  <2>4. /\ Shaped(d1) /\ d1.bills = bills /\ \A g \in Fields \ {"bills"} : d1[g] = d[g]
        /\ Shaped(e1) /\ \A g \in Fields \ {"bills"} : e1[g] = e[g]
    <3> HIDE DEF bills
    <3>1. Shaped(d1) /\ d1.bills = bills /\ \A g \in Fields \ {"bills"} : d1[g] = d[g]
      BY <1>1, <1>2, FieldSet
    <3>2. Shaped(e1) /\ \A g \in Fields \ {"bills"} : e1[g] = e[g]
      BY <1>1, <1>2, FieldSet
    <3> HIDE DEF d1, e1
    <3> QED
      BY <3>1, <3>2
  <2>5. /\ Shaped(d2) /\ d2.request = NoRequest /\ \A g \in Fields \ {"request"} : d2[g] = d1[g]
        /\ \A g \in Fields \ {"request"} : e2[g] = e1[g]
    <3> HIDE DEF d1, e1
    <3>0. "request" \in Fields /\ Shaped(d1) /\ Shaped(e1)
      BY <1>1, <2>4
    <3>1. Shaped(d2) /\ d2.request = NoRequest /\ \A g \in Fields \ {"request"} : d2[g] = d1[g]
      BY <3>0, FieldSet
    <3>2. \A g \in Fields \ {"request"} : e2[g] = e1[g]
      BY <3>0, FieldSet
    <3> QED
      BY <3>1, <3>2
  <2>6. d2.bills = bills /\ d2.drawn = d.drawn
    BY <1>1, <2>4, <2>5
  <2> HIDE DEF d1, e1, d2, e2
  <2>7. d.request.bill \in BillIds /\ AwaitingBills(d) = {d.request.bill}
    BY <1>4 DEF Account, Open
  <2>8. "paid" \in BillStatuses /\ bills \in [BillIds -> BillStatuses] /\ bills[d.request.bill] = "paid"
        /\ \A b \in BillIds : b # d.request.bill => bills[b] = d.bills[b]
    BY <2>7 DEF Account, BillStatuses
  <2> HIDE DEF bills
  <2>9. NoRequest \in [bill : BillIds \cup {"none"}, paid : BOOLEAN] /\ NoRequest.bill = "none" /\ NoRequest.paid = FALSE
    BY DEF NoRequest
  <2>10. Account(c, d2) /\ Ages(d, d2)
    BY <2>5, <2>6, <2>8, <2>9 DEF Account, Ages
  <2>11. Open(d2)
    <3>1. \A b \in BillIds : bills[b] # "awaiting"
      BY <2>7, <2>8 DEF AwaitingBills, Account
    <3>2. AwaitingBills(d2) = {}
      BY <2>6, <2>8, <3>1 DEF AwaitingBills
    <3> QED
      BY <2>5, <2>9, <3>2 DEF Open
  <2>12. ~d2.request.paid
    BY <2>5, <2>9
  <2>13. \A f \in Fields \ {"bills", "request"} : d2[f] = d[f] /\ e2[f] = e[f]
    BY <2>4, <2>5
  <2> QED
    BY <1>4, <2>1, <2>3, <2>10, <2>11, <2>12, <2>13
<1> QED
  BY <1>3, <1>4

LEMMA Asks ==
  ASSUME NEW unlike \in SUBSET Unseen, NEW c, NEW k, NEW d, NEW e, Account(c, d), Open(d), Twin(unlike, k, d, e),
         ~d.request.paid
  PROVE  /\ Account(c, Asked(d)) /\ Agreed(Asked(d)) /\ Ages(d, Asked(d))
         /\ Twin(unlike, k, Asked(d), Asked(e))
         /\ \A f \in Fields \ {"request"} : Asked(d)[f] = d[f] /\ Asked(e)[f] = e[f]
         /\ Agreed(d) => Asked(d) = d
<1> DEFINE bill == CHOOSE b \in AwaitingBills(d) : TRUE
           request == [bill |-> bill, paid |-> FALSE]
           d1 == [d EXCEPT !.request = request]
           e1 == [e EXCEPT !.request = request]
<1>1. /\ \A g \in {"bills", "drawn", "request"} : g \in Fields
      /\ "request" \in Fields \ {"drawn"}
  BY DEF Fields, AccountFields
<1>2. /\ d.request = e.request /\ AwaitingBills(d) = AwaitingBills(e) /\ Shaped(d) /\ Shaped(e)
  BY TwinFields DEF Fields, AccountFields, Unseen, AwaitingBills
<1>3. d.request = NoRequest <=> d.request.bill = "none"
  BY RequestIs DEF Account
<1>4. CASE ~(d.request = NoRequest /\ AwaitingBills(d) # {})
  <2>1. Asked(d) = d /\ Asked(e) = e
    BY <1>2, <1>4 DEF Asked
  <2>2. Agreed(d)
    BY <1>3, <1>4 DEF Open, Agreed
  <2>3. Ages(d, d)
    BY DEF Ages
  <2> QED
    BY <2>1, <2>2, <2>3
<1>5. CASE d.request = NoRequest /\ AwaitingBills(d) # {}
  <2>1. Asked(d) = d1 /\ Asked(e) = e1
    BY <1>2, <1>5 DEF Asked
  <2>2. bill \in AwaitingBills(d)
    BY <1>5
  <2>3. AwaitingBills(d) = {bill}
    BY <1>3, <1>5, <2>2 DEF Open, AwaitingBills, Account
  <2>4. bill \in BillIds
    BY <2>2 DEF AwaitingBills, Account
  <2> HIDE DEF bill
  <2>5. request \in [bill : BillIds \cup {"none"}, paid : BOOLEAN] /\ request.bill = bill /\ request.paid = FALSE
    BY <2>4
  <2> HIDE DEF request
  <2>6. /\ Shaped(d1) /\ d1.request = request /\ \A g \in Fields \ {"request"} : d1[g] = d[g]
        /\ \A g \in Fields \ {"request"} : e1[g] = e[g]
    BY <1>1, <1>2, FieldSet
  <2>7. Twin(unlike, k, d1, e1)
    BY <1>1, BothSet
  <2> HIDE DEF d1, e1
  <2>8. d1.bills = d.bills /\ d1.drawn = d.drawn
    BY <1>1, <2>6
  <2>9. Account(c, d1) /\ Ages(d, d1)
    BY <2>5, <2>6, <2>8 DEF Account, Ages
  <2>10. request # NoRequest
    BY <2>4, <2>5 DEF NoRequest, BillIds
  <2>11. Agreed(d1)
    BY <2>3, <2>5, <2>6, <2>8, <2>10 DEF Agreed, AwaitingBills
  <2>12. ~Agreed(d)
    BY <1>5 DEF Agreed
  <2> QED
    BY <2>1, <2>6, <2>7, <2>9, <2>11, <2>12
<1> QED
  BY <1>4, <1>5

LEMMA Allows ==
  ASSUME NEW unlike \in SUBSET Unseen, NEW k, NEW d, NEW e, NEW a, NEW b, Twin(unlike, k, d, e), Twin(unlike, k, a, b),
         \A f \in {"line_status", "line_roaming", "data_used", "data_refueling"} : a[f] = d[f] /\ b[f] = e[f]
  PROVE  /\ Derived(Allowed(d, a)) /\ Shaped(Allowed(d, a))
         /\ Twin({"drawn"}, k, Allowed(d, a), Allowed(e, b))
         /\ \A f \in Fields \ {"line_active", "roaming_allowed", "exceeded"} : Allowed(d, a)[f] = a[f]
<1> DEFINE active == d.line_status = "active"
           exceeded == d.data_used >= PlanLimit + d.data_refueling
           roaming == d.line_roaming
           a1 == [a EXCEPT !.line_active = active]
           b1 == [b EXCEPT !.line_active = active]
           a2 == [a1 EXCEPT !.roaming_allowed = roaming]
           b2 == [b1 EXCEPT !.roaming_allowed = roaming]
           a3 == [a2 EXCEPT !.exceeded = exceeded]
           b3 == [b2 EXCEPT !.exceeded = exceeded]
<1>1. /\ \A g \in {"line_active", "roaming_allowed", "exceeded", "line_status", "line_roaming", "data_used",
                   "data_refueling", "drawn"} : g \in Fields
      /\ \A g \in {"line_active", "roaming_allowed", "exceeded"} : g \in Fields \ {"drawn"}
  BY DEF Fields, AccountFields
<1>2. /\ d.line_status = e.line_status /\ d.line_roaming = e.line_roaming /\ d.data_used = e.data_used
      /\ d.data_refueling = e.data_refueling
  BY TwinFields DEF Fields, AccountFields, Unseen
<1>3. Allowed(d, a) = a3
  BY DEF Allowed
<1>4. Allowed(e, b) = b3
  BY <1>2 DEF Allowed
<1> HIDE DEF active, exceeded, roaming
<1>5. /\ Shaped(a1) /\ a1.line_active = active /\ \A g \in Fields \ {"line_active"} : a1[g] = a[g]
  BY <1>1, FieldSet, TwinFields
<1>6. Twin(unlike, k, a1, b1)
  BY <1>1, BothSet
<1>7. /\ Shaped(a2) /\ a2.roaming_allowed = roaming /\ \A g \in Fields \ {"roaming_allowed"} : a2[g] = a1[g]
  <2> HIDE DEF a1
  <2> QED
    BY <1>1, <1>5, FieldSet
<1>8. Twin(unlike, k, a2, b2)
  <2> HIDE DEF a1, b1
  <2> QED
    BY <1>1, <1>6, BothSet
<1>9. /\ Shaped(a3) /\ a3.exceeded = exceeded /\ \A g \in Fields \ {"exceeded"} : a3[g] = a2[g]
  <2> HIDE DEF a2
  <2> QED
    BY <1>1, <1>7, FieldSet
<1>10. Twin(unlike, k, a3, b3)
  <2> HIDE DEF a2, b2
  <2> QED
    BY <1>1, <1>8, BothSet
<1>11. b3.roaming_allowed = roaming /\ b3.exceeded = exceeded
  <2>1. Shaped(b) /\ Shaped(b1) /\ Shaped(b2)
    BY <1>6, <1>8, TwinFields
  <2>2. b2.roaming_allowed = roaming
    <3> HIDE DEF b1
    <3> QED
      BY <1>1, <2>1, FieldSet
  <2> HIDE DEF b2
  <2> QED
    BY <1>1, <2>1, <2>2, FieldSet
<1> HIDE DEF a1, b1, a2, b2, a3, b3
<1>12. \A f \in Fields \ {"line_active", "roaming_allowed", "exceeded"} : a3[f] = a[f]
  BY <1>5, <1>7, <1>9
<1>13. a3.line_active = active /\ a3.roaming_allowed = roaming /\ a3.exceeded = exceeded
  BY <1>1, <1>5, <1>7, <1>9
<1>14. Derived(a3)
  <2>1. a3.line_status = d.line_status /\ a3.line_roaming = d.line_roaming /\ a3.data_used = d.data_used
        /\ a3.data_refueling = d.data_refueling
    BY <1>1, <1>12
  <2> QED
    BY <1>13, <2>1 DEF Derived, active, exceeded, roaming
<1>15. Twin({"drawn"}, k, a3, b3)
  <2>1. /\ Alike(unlike, a3, b3)
        /\ b3.drawn \in [BillIds -> {"seed", k}]
        /\ \A id \in BillIds : a3.drawn[id] = "seed" <=> b3.drawn[id] = "seed"
    BY <1>10 DEF Twin
  <2>2. Shaped(a3) /\ Shaped(b3) /\ \A f \in Fields \ unlike : a3[f] = b3[f]
    BY <2>1 DEF Alike
  <2>3. ASSUME NEW f \in Fields \ {"drawn"} PROVE a3[f] = b3[f]
    <3>1. CASE f \notin unlike
      BY <2>2, <2>3, <3>1
    <3>2. CASE f \in unlike
      <4>1. f = "roaming_allowed" \/ f = "exceeded"
        BY <2>3, <3>2 DEF Unseen
      <4> QED
        BY <1>11, <1>13, <4>1
    <3> QED
      BY <3>1, <3>2
  <2>4. Alike({"drawn"}, a3, b3)
    BY <2>2, <2>3 DEF Alike
  <2> QED
    BY <2>1, <2>4 DEF Twin
<1> QED
  BY <1>3, <1>4, <1>9, <1>12, <1>14, <1>15

\* sync_tools brings an environment in step, and two alike to agree on all but ids.
LEMMA Syncs ==
  ASSUME NEW unlike \in SUBSET Unseen, NEW c, NEW k, NEW d, NEW e, Account(c, d), Open(d), Twin(unlike, k, d, e)
  PROVE  /\ InStep(c, SyncTools(d)) /\ Ages(d, SyncTools(d))
         /\ Twin({"drawn"}, k, SyncTools(d), SyncTools(e))
         /\ \A f \in Fields \ {"bills", "request", "line_active", "roaming_allowed", "exceeded"} : SyncTools(d)[f] = d[f]
         /\ Agreed(d) => SyncTools(d).bills = d.bills /\ SyncTools(d).request = d.request
<1> DEFINE s == Settled(d)
           t == Settled(e)
           a == Asked(s)
           b == Asked(t)
<1>1. /\ Account(c, s) /\ Open(s) /\ ~s.request.paid /\ Ages(d, s)
      /\ Twin(unlike, k, s, t)
      /\ \A f \in Fields \ {"bills", "request"} : s[f] = d[f] /\ t[f] = e[f]
      /\ ~d.request.paid => s = d
  BY Settles
<1> HIDE DEF s, t
<1>2. /\ Account(c, a) /\ Agreed(a) /\ Ages(s, a)
      /\ Twin(unlike, k, a, b)
      /\ \A f \in Fields \ {"request"} : a[f] = s[f] /\ b[f] = t[f]
      /\ Agreed(s) => a = s
  BY <1>1, Asks
<1> HIDE DEF a, b
<1>3. \A f \in Fields \ {"bills", "request"} : a[f] = d[f] /\ b[f] = e[f]
  BY <1>1, <1>2
<1>4. \A f \in {"line_status", "line_roaming", "data_used", "data_refueling"} : a[f] = d[f] /\ b[f] = e[f]
  BY <1>3 DEF Fields, AccountFields
<1> DEFINE x == Allowed(d, a)
           y == Allowed(e, b)
<1>5. /\ Derived(x) /\ Shaped(x)
      /\ Twin({"drawn"}, k, x, y)
      /\ \A f \in Fields \ {"line_active", "roaming_allowed", "exceeded"} : x[f] = a[f]
  BY <1>2, <1>4, Allows
<1> HIDE DEF x, y
<1>6. SyncTools(d) = x /\ SyncTools(e) = y
  BY SyncIs DEF x, y, a, b, s, t
<1>7. x.bills = a.bills /\ x.drawn = a.drawn /\ x.request = a.request
  BY <1>5 DEF Fields, AccountFields
<1>8. Account(c, x) /\ Agreed(x) /\ Ages(a, x)
  BY <1>2, <1>5, <1>7, BillsKept
<1>9. Ages(d, x)
  BY <1>1, <1>2, <1>8 DEF Ages
<1>10. Agreed(d) => x.bills = d.bills /\ x.request = d.request
  BY <1>1, <1>2, <1>7 DEF Agreed
<1> QED
  BY <1>3, <1>5, <1>6, <1>8, <1>9, <1>10 DEF InStep

\* What is in step stays as it is.
LEMMA SyncIdle ==
  ASSUME NEW c, NEW d, InStep(c, d)
  PROVE  SyncTools(d) = d
<1>1. Twin({}, c, d, d)
  BY DEF InStep, Account, Twin, Alike
<1>2. Account(c, d) /\ Open(d)
  BY AgreedIsOpen DEF InStep
<1> DEFINE x == SyncTools(d)
<1>3. /\ InStep(c, x)
      /\ \A f \in Fields \ {"bills", "request", "line_active", "roaming_allowed", "exceeded"} : x[f] = d[f]
      /\ x.bills = d.bills /\ x.request = d.request
  BY <1>1, <1>2, Syncs DEF InStep
<1> HIDE DEF x
<1>4. x.line_active = d.line_active /\ x.roaming_allowed = d.roaming_allowed /\ x.exceeded = d.exceeded
  <2>1. x.line_status = d.line_status /\ x.line_roaming = d.line_roaming /\ x.data_used = d.data_used
        /\ x.data_refueling = d.data_refueling
    BY <1>3 DEF Fields, AccountFields
  <2> QED
    BY <1>3, <2>1 DEF InStep, Derived
<1>5. \A f \in Fields : x[f] = d[f]
  BY <1>3, <1>4
<1>6. x = d
  BY <1>3, <1>5 DEF InStep, Account, Shaped
<1> QED
  BY <1>6 DEF x

-----------------------------------------------------------------------------
(* Tool calls.                                                             *)

Tools == WriteTools.assistant \union WriteTools.user \union OtherTools.assistant \union OtherTools.user
           \union {"no_such_tool"}
Arguments == {""} \union BillIds \union DOMAIN Technology \union {"sms", "storage"}
Calls == {call \in {"assistant", "user"} \X Tools \X Arguments :
            call[2] = "send_payment_request" => call[3] \in BillIds}

\* Which call is answered by which tool.
Known(call) == call[2] \in WriteTools[call[1]] \union OtherTools[call[1]]

LEMMA WritingTools ==
  WriteTools.assistant \union WriteTools.user =
        {"suspend_line", "resume_line", "send_payment_request", "enable_roaming", "disable_roaming", "refuel_data",
         "set_network_mode_preference", "toggle_airplane_mode", "reseat_sim_card", "toggle_data",
         "toggle_roaming", "toggle_data_saver_mode", "set_apn_settings", "reset_apn_settings",
         "toggle_wifi", "toggle_wifi_calling", "connect_vpn", "disconnect_vpn",
         "grant_app_permission", "reboot_device", "make_payment"}
  BY DEF WriteTools

\* A tool of the phone, as the answer to a call.
LEMMA PhoneAnswers ==
  ASSUME NEW unlike \in SUBSET Unseen, NEW k, NEW d, NEW e, NEW d1, NEW e1, NEW c,
         InStep(c, d), Twin(unlike, k, d, e), Moves(unlike, d, e, d1, e1)
  PROVE  Sound(c, d, Done(d1)) /\ Paired(unlike, k, Done(d1), Done(e1)) /\ Agreed(d1)
<1>1. Twin(unlike, k, d1, e1)
  BY PhoneCall
<1>2. d1.bills = d.bills /\ d1.drawn = d.drawn /\ d1.request = d.request /\ Shaped(d1)
  BY DEF Moves, Alike, AccountFields
<1>3. Account(c, d1) /\ Open(d1) /\ Ages(d, d1) /\ Agreed(d1)
  BY <1>2, BillsKept, AgreedIsOpen DEF InStep
<1> QED
  BY <1>1, <1>3 DEF Sound, Paired, Done

LEMMA PhoneTools ==
  ASSUME NEW unlike \in SUBSET Unseen, NEW d, NEW e, Alike(unlike, d, e), NEW call \in Calls, Known(call),
         call[2] \in WriteTools.user \ {"make_payment"}, NEW c, NEW k
  PROVE  \E d1, e1 : /\ Moves(unlike, d, e, d1, e1)
                     /\ MakeToolCall(c, call, d) = Done(d1) /\ MakeToolCall(k, call, e) = Done(e1)
<1>1. CASE call[2] = "set_network_mode_preference"
  <2>1. MakeToolCall(c, call, d) = Done(SetNetworkMode(d, call[3])) /\ MakeToolCall(k, call, e) = Done(SetNetworkMode(e, call[3]))
    BY <1>1 DEF MakeToolCall, Known
  <2>2. Moves(unlike, d, e, SetNetworkMode(d, call[3]), SetNetworkMode(e, call[3]))
    BY SearchingTools
  <2> QED
    BY <2>1, <2>2
<1>2. CASE call[2] = "toggle_airplane_mode"
  <2>1. MakeToolCall(c, call, d) = Done(ToggleAirplaneMode(d)) /\ MakeToolCall(k, call, e) = Done(ToggleAirplaneMode(e))
    BY <1>2 DEF MakeToolCall, Known
  <2>2. Moves(unlike, d, e, ToggleAirplaneMode(d), ToggleAirplaneMode(e))
    BY DeviceTools
  <2> QED
    BY <2>1, <2>2
<1>3. CASE call[2] = "reseat_sim_card"
  <2>1. MakeToolCall(c, call, d) = Done(ReseatSim(d)) /\ MakeToolCall(k, call, e) = Done(ReseatSim(e))
    BY <1>3 DEF MakeToolCall, Known
  <2>2. Moves(unlike, d, e, ReseatSim(d), ReseatSim(e))
    BY SearchingTools
  <2> QED
    BY <2>1, <2>2
<1>4. CASE call[2] = "toggle_data"
  <2>1. MakeToolCall(c, call, d) = Done(ToggleData(d)) /\ MakeToolCall(k, call, e) = Done(ToggleData(e))
    BY <1>4 DEF MakeToolCall, Known
  <2>2. Moves(unlike, d, e, ToggleData(d), ToggleData(e))
    BY SearchingTools
  <2> QED
    BY <2>1, <2>2
<1>5. CASE call[2] = "toggle_roaming"
  <2>1. MakeToolCall(c, call, d) = Done(ToggleRoaming(d)) /\ MakeToolCall(k, call, e) = Done(ToggleRoaming(e))
    BY <1>5 DEF MakeToolCall, Known
  <2>2. Moves(unlike, d, e, ToggleRoaming(d), ToggleRoaming(e))
    BY SearchingTools
  <2> QED
    BY <2>1, <2>2
<1>6. CASE call[2] = "toggle_data_saver_mode"
  <2>1. MakeToolCall(c, call, d) = Done(ToggleDataSaver(d)) /\ MakeToolCall(k, call, e) = Done(ToggleDataSaver(e))
    BY <1>6 DEF MakeToolCall, Known
  <2>2. Moves(unlike, d, e, ToggleDataSaver(d), ToggleDataSaver(e))
    BY SettingTools
  <2> QED
    BY <2>1, <2>2
<1>7. CASE call[2] = "set_apn_settings"
  <2>1. MakeToolCall(c, call, d) = Done(SetApn(d)) /\ MakeToolCall(k, call, e) = Done(SetApn(e))
    BY <1>7 DEF MakeToolCall, Known
  <2>2. Moves(unlike, d, e, SetApn(d), SetApn(e))
    BY DeviceTools
  <2> QED
    BY <2>1, <2>2
<1>8. CASE call[2] = "reset_apn_settings"
  <2>1. MakeToolCall(c, call, d) = Done(ResetApn(d)) /\ MakeToolCall(k, call, e) = Done(ResetApn(e))
    BY <1>8 DEF MakeToolCall, Known
  <2>2. Moves(unlike, d, e, ResetApn(d), ResetApn(e))
    BY SearchingTools
  <2> QED
    BY <2>1, <2>2
<1>9. CASE call[2] = "toggle_wifi"
  <2>1. MakeToolCall(c, call, d) = Done(ToggleWifi(d)) /\ MakeToolCall(k, call, e) = Done(ToggleWifi(e))
    BY <1>9 DEF MakeToolCall, Known
  <2>2. Moves(unlike, d, e, ToggleWifi(d), ToggleWifi(e))
    BY SettingTools
  <2> QED
    BY <2>1, <2>2
<1>10. CASE call[2] = "toggle_wifi_calling"
  <2>1. MakeToolCall(c, call, d) = Done(ToggleWifiCalling(d)) /\ MakeToolCall(k, call, e) = Done(ToggleWifiCalling(e))
    BY <1>10 DEF MakeToolCall, Known
  <2>2. Moves(unlike, d, e, ToggleWifiCalling(d), ToggleWifiCalling(e))
    BY SettingTools
  <2> QED
    BY <2>1, <2>2
<1>11. CASE call[2] = "connect_vpn"
  <2>1. MakeToolCall(c, call, d) = Done(ConnectVpn(d)) /\ MakeToolCall(k, call, e) = Done(ConnectVpn(e))
    BY <1>11 DEF MakeToolCall, Known
  <2>2. Moves(unlike, d, e, ConnectVpn(d), ConnectVpn(e))
    BY SettingTools
  <2> QED
    BY <2>1, <2>2
<1>12. CASE call[2] = "disconnect_vpn"
  <2>1. MakeToolCall(c, call, d) = Done(DisconnectVpn(d)) /\ MakeToolCall(k, call, e) = Done(DisconnectVpn(e))
    BY <1>12 DEF MakeToolCall, Known
  <2>2. Moves(unlike, d, e, DisconnectVpn(d), DisconnectVpn(e))
    BY SettingTools
  <2> QED
    BY <2>1, <2>2
<1>13. CASE call[2] = "grant_app_permission"
  <2>1. MakeToolCall(c, call, d) = Done(GrantPermission(d, call[3])) /\ MakeToolCall(k, call, e) = Done(GrantPermission(e, call[3]))
    BY <1>13 DEF MakeToolCall, Known
  <2>2. Moves(unlike, d, e, GrantPermission(d, call[3]), GrantPermission(e, call[3]))
    BY SettingTools
  <2> QED
    BY <2>1, <2>2
<1>14. CASE call[2] = "reboot_device"
  <2>1. MakeToolCall(c, call, d) = Done(RebootDevice(d)) /\ MakeToolCall(k, call, e) = Done(RebootDevice(e))
    BY <1>14 DEF MakeToolCall, Known
  <2>2. Moves(unlike, d, e, RebootDevice(d), RebootDevice(e))
    BY DeviceTools
  <2> QED
    BY <2>1, <2>2
<1> QED
  BY <1>1, <1>2, <1>3, <1>4, <1>5, <1>6, <1>7, <1>8, <1>9, <1>10, <1>11, <1>12, <1>13, <1>14 DEF WriteTools

LEMMA CallAnswered ==
  ASSUME NEW unlike \in SUBSET Unseen, "drawn" \in unlike, NEW k, k \notin {"live", "seed"}, NEW d, NEW e,
         InStep("live", d), Twin(unlike, k, d, e), NEW call \in Calls,
         call[2] = "refuel_data" => RoomForBill(d)
  PROVE  /\ Sound("live", d, MakeToolCall("live", call, d))
         /\ \/ Used(MakeToolCall("live", call, d).db) /\ call[2] = "send_payment_request"
            \/ Paired(unlike, k, MakeToolCall("live", call, d), MakeToolCall(k, call, e))
<1> DEFINE Good(r, s) == /\ Sound("live", d, r)
                         /\ (Used(r.db) /\ call[2] = "send_payment_request") \/ Paired(unlike, k, r, s)
           r == MakeToolCall("live", call, d)
           s == MakeToolCall(k, call, e)
<1>1. Good(Raised(d), Raised(e)) /\ Good(Done(d), Done(e))
  BY StaysAsItIs
<1>2. CASE ~Known(call)
  <2>1. r = Raised(d) /\ s = Raised(e)
    BY <1>2 DEF MakeToolCall, Known
  <2> HIDE DEF r, s
  <2>2. Good(r, s)
    BY <1>1, <2>1
  <2> QED
    BY <2>2 DEF r, s
<1>3. CASE Known(call) /\ call[2] \in WriteTools.user \ {"make_payment"}
  <2>1. Alike(unlike, d, e)
    BY DEF Twin
  <2>2. PICK d1, e1 : Moves(unlike, d, e, d1, e1) /\ r = Done(d1) /\ s = Done(e1)
    BY <1>3, <2>1, PhoneTools
  <2> QED
    BY <2>2, PhoneAnswers
<1>4. CASE Known(call) /\ call[2] = "make_payment"
  <2>1. r = Done(MakePayment(d)) /\ s = Done(MakePayment(e))
    BY <1>4 DEF MakeToolCall, Known
  <2> QED
    BY <2>1, Pays
<1>5. CASE Known(call) /\ call[2] = "suspend_line"
  <2>1. r = SuspendLine(d) /\ s = SuspendLine(e)
    BY <1>5 DEF MakeToolCall, Known
  <2> QED
    BY <2>1, LineTools
<1>6. CASE Known(call) /\ call[2] = "resume_line"
  <2>1. r = ResumeLine(d) /\ s = ResumeLine(e)
    BY <1>6 DEF MakeToolCall, Known
  <2> QED
    BY <2>1, LineTools
<1>7. CASE Known(call) /\ call[2] \in {"enable_roaming", "disable_roaming"}
  <2>1. \E on : r = SetLineRoaming(d, on) /\ s = SetLineRoaming(e, on)
    <3>1. call[2] = "enable_roaming" => r = SetLineRoaming(d, TRUE) /\ s = SetLineRoaming(e, TRUE)
      BY <1>7 DEF MakeToolCall, Known
    <3>2. call[2] = "disable_roaming" => r = SetLineRoaming(d, FALSE) /\ s = SetLineRoaming(e, FALSE)
      BY <1>7 DEF MakeToolCall, Known
    <3> QED
      BY <1>7, <3>1, <3>2
  <2> QED
    BY <2>1, LineTools
<1>8. CASE Known(call) /\ call[2] = "refuel_data"
  <2>1. r = RefuelData("live", d) /\ s = RefuelData(k, e)
    BY <1>8 DEF MakeToolCall, Known
  <2>2. RoomForBill(d)
    BY <1>8
  <2>3. Sound("live", d, RefuelData("live", d)) /\ Paired(unlike, k, RefuelData("live", d), RefuelData(k, e))
    BY <2>2, Refuels
  <2> QED
    BY <2>1, <2>3
<1>9. CASE Known(call) /\ call[2] = "send_payment_request"
  <2>1. r = SendPaymentRequest(d, call[3]) /\ s = SendPaymentRequest(e, call[3])
    BY <1>9 DEF MakeToolCall, Known
  <2>2. call[3] \in BillIds
    BY <1>9 DEF Calls
  <2>3. /\ Sound("live", d, SendPaymentRequest(d, call[3]))
        /\ Used(SendPaymentRequest(d, call[3]).db)
             \/ Paired(unlike, k, SendPaymentRequest(d, call[3]), SendPaymentRequest(e, call[3]))
    BY <2>2, Sends
  <2> QED
    BY <1>9, <2>1, <2>3
<1>10. CASE Known(call) /\ call[2] \notin WriteTools.assistant \union WriteTools.user
  <2>1. call[2] \notin {"suspend_line", "resume_line", "send_payment_request", "enable_roaming", "disable_roaming",
         "refuel_data", "set_network_mode_preference", "toggle_airplane_mode", "reseat_sim_card", "toggle_data",
         "toggle_roaming", "toggle_data_saver_mode", "set_apn_settings", "reset_apn_settings",
         "toggle_wifi", "toggle_wifi_calling", "connect_vpn", "disconnect_vpn",
         "grant_app_permission", "reboot_device", "make_payment"}
    BY <1>10, WritingTools
  <2>2. r = Done(d) /\ s = Done(e)
    BY <1>10, <2>1 DEF MakeToolCall, Known
  <2> HIDE DEF r, s
  <2>3. Good(r, s)
    BY <1>1, <2>2
  <2> QED
    BY <2>3 DEF r, s
<1> HIDE DEF r, s
<1>11. Known(call) => \/ call[2] \in WriteTools.user \ {"make_payment"}
                      \/ call[2] \in {"make_payment", "suspend_line", "resume_line", "enable_roaming",
                                      "disable_roaming", "refuel_data", "send_payment_request"}
                      \/ call[2] \notin WriteTools.assistant \union WriteTools.user
  BY DEF WriteTools
<1>12. Good(r, s)
  BY <1>2, <1>3, <1>4, <1>5, <1>6, <1>7, <1>8, <1>9, <1>10, <1>11 DEF r, s
<1> QED
  BY <1>12 DEF r, s

-----------------------------------------------------------------------------
(* The environments at the start: what the initialization functions break. *)

\* Nothing has been asked for, and no bill was drawn but the draft.
Untroubled(d) ==
  /\ d.request = NoRequest /\ AwaitingBills(d) = {}
  /\ d.bills["draft"] \in {"none", "draft"} /\ d.bills["draft2"] = "none"
  /\ \A b \in BillIds : d.drawn[b] # "seed" => b = "draft"
Starts(c, k, d, e) == InStep(c, d) /\ Untroubled(d) /\ Twin({"drawn"}, k, d, e)

LEMMA UntroubledIs ==
  ASSUME NEW c, NEW d, Account(c, d), Untroubled(d)
  PROVE  Open(d) /\ Agreed(d) /\ ~Used(d) /\ RoomForBill(d)
<1>1. Agreed(d)
  BY DEF Untroubled, Agreed, NoRequest
<1>2. ~Used(d)
  BY DEF Untroubled, Used, Account, BillIds
<1> QED
  BY <1>1, <1>2, AgreedIsOpen DEF Untroubled, RoomForBill

\* run_env_function_call, once its function has returned.
LEMMA ThenStarts ==
  ASSUME NEW c, NEW k, NEW r, NEW s, Account(c, r.db), Untroubled(r.db), Twin({"drawn"}, k, r.db, s.db)
  PROVE  Starts(c, k, Then(r), Then(s))
<1> DEFINE d == r.db
           e == s.db
           x == SyncTools(d)
<1>1. Open(d) /\ Agreed(d)
  BY UntroubledIs
<1>2. {"drawn"} \in SUBSET Unseen
  BY DEF Unseen
<1>3. /\ InStep(c, x) /\ Twin({"drawn"}, k, x, SyncTools(e))
      /\ \A f \in Fields \ {"bills", "request", "line_active", "roaming_allowed", "exceeded"} : x[f] = d[f]
      /\ x.bills = d.bills /\ x.request = d.request
  <2> HIDE DEF d, e
  <2>1. Account(c, d) /\ Twin({"drawn"}, k, d, e)
    BY DEF d, e
  <2> QED
    BY <1>1, <1>2, <2>1, Syncs
<1> HIDE DEF x
<1>4. x.drawn = d.drawn
  BY <1>3 DEF Fields, AccountFields
<1>5. Untroubled(x)
  BY <1>3, <1>4 DEF Untroubled, AwaitingBills
<1> QED
  BY <1>3, <1>5 DEF Starts, Then, x

LEMMA PhoneBreaks ==
  ASSUME NEW c, NEW k, NEW d, NEW e, NEW d1, NEW e1, Starts(c, k, d, e), Moves({"drawn"}, d, e, d1, e1)
  PROVE  Starts(c, k, Then(Done(d1)), Then(Done(e1)))
<1>1. {"drawn"} \in SUBSET Unseen
  BY DEF Unseen
<1>2. Twin({"drawn"}, k, d1, e1)
  BY <1>1, PhoneCall DEF Starts
<1>3. d1.bills = d.bills /\ d1.drawn = d.drawn /\ d1.request = d.request /\ Shaped(d1)
  BY DEF Moves, Alike, AccountFields
<1>4. Account(c, d1)
  BY <1>3, BillsKept DEF InStep, Starts
<1>5. Untroubled(d1)
  BY <1>3 DEF Starts, Untroubled, AwaitingBills
<1>6. Done(d1).db = d1 /\ Done(e1).db = e1
  BY DEF Done
<1> QED
  BY <1>2, <1>4, <1>5, <1>6, ThenStarts

LEMMA LineBreaks ==
  ASSUME NEW c, NEW k, NEW d, NEW e, Starts(c, k, d, e)
  PROVE  /\ \A on : Starts(c, k, Then(SetLineRoaming(d, on)), Then(SetLineRoaming(e, on)))
         /\ \A used : Starts(c, k, Then(SetDataUsage(d, used)), Then(SetDataUsage(e, used)))
<1>1. {"drawn"} \in SUBSET Unseen /\ InStep(c, d) /\ Twin({"drawn"}, k, d, e) /\ Untroubled(d) /\ Shaped(d)
  BY DEF Unseen, Starts, InStep, Account
<1>2. ASSUME NEW f \in {"line_roaming", "data_used"}, NEW v
      PROVE  Starts(c, k, Then(Done([d EXCEPT ![f] = v])), Then(Done([e EXCEPT ![f] = v])))
  <2> DEFINE d1 == [d EXCEPT ![f] = v]
             e1 == [e EXCEPT ![f] = v]
  <2>1. Sound(c, d, Done(d1)) /\ Paired({"drawn"}, k, Done(d1), Done(e1))
    BY <1>1, LineSet
  <2>2. \A g \in {"bills", "drawn", "request"} : g \in Fields /\ g # f
    BY DEF Fields, AccountFields
  <2>3. f \in Fields
    BY DEF Fields, AccountFields
  <2>4. d1.bills = d.bills /\ d1.drawn = d.drawn /\ d1.request = d.request
    BY <1>1, <2>2, <2>3, FieldSet
  <2>5. Done(d1).db = d1
    BY DEF Done
  <2> HIDE DEF d1, e1
  <2>6. Untroubled(Done(d1).db)
    BY <1>1, <2>4, <2>5 DEF Untroubled, AwaitingBills
  <2>7. Starts(c, k, Then(Done(d1)), Then(Done(e1)))
    BY <2>1, <2>6, ThenStarts DEF Sound, Paired
  <2> QED
    BY <2>7 DEF d1, e1
<1> QED
  BY <1>2 DEF SetLineRoaming, SetDataUsage

LEMMA OverdueBreaks ==
  ASSUME NEW c, NEW k, NEW d, NEW e, Starts(c, k, d, e)
  PROVE  Starts(c, k, Then(SuspendLineForOverdueBill(d)), Then(SuspendLineForOverdueBill(e)))
<1> DEFINE r == SuspendLineForOverdueBill(d)
           s == SuspendLineForOverdueBill(e)
<1>1. {"drawn"} \in SUBSET Unseen /\ InStep(c, d) /\ Twin({"drawn"}, k, d, e) /\ Untroubled(d) /\ Account(c, d)
  BY DEF Unseen, Starts, InStep
<1>2. /\ Sound(c, d, r) /\ Paired({"drawn"}, k, r, s) /\ r.db.drawn = d.drawn /\ r.db.request = d.request
      /\ \A b \in BillIds : r.db.bills[b] # d.bills[b] => b = "overdue" /\ r.db.bills[b] = "overdue"
  <2> DEFINE unlike == {"drawn"}
  <2>1. unlike \in SUBSET Unseen /\ Twin(unlike, k, d, e)
    BY <1>1
  <2> HIDE DEF unlike
  <2>2. /\ Sound(c, d, r) /\ Paired(unlike, k, r, s) /\ r.db.drawn = d.drawn /\ r.db.request = d.request
        /\ \A b \in BillIds : r.db.bills[b] # d.bills[b] => b = "overdue" /\ r.db.bills[b] = "overdue"
    BY <1>1, <2>1, Overdue
  <2> QED
    BY <2>2 DEF unlike
<1> HIDE DEF r, s
<1>3. Untroubled(r.db)
  <2>1. DOMAIN r.db.bills = BillIds /\ DOMAIN d.bills = BillIds
    BY <1>1, <1>2 DEF Sound, Account
  <2>2. AwaitingBills(r.db) = {}
    BY <1>1, <1>2, <2>1 DEF AwaitingBills, Untroubled
  <2> QED
    BY <1>1, <1>2, <2>2 DEF Untroubled, BillIds
<1>4. Starts(c, k, Then(r), Then(s))
  BY <1>2, <1>3, ThenStarts DEF Sound, Paired
<1> QED
  BY <1>4 DEF r, s

LEMMA RefuelBreaks ==
  ASSUME NEW c, c # "seed", NEW k, k # "seed", NEW d, NEW e, Starts(c, k, d, e)
  PROVE  Starts(c, k, Then(RefuelData(c, d)), Then(RefuelData(k, e)))
<1> DEFINE r == RefuelData(c, d)
           s == RefuelData(k, e)
<1>1. {"drawn"} \in SUBSET Unseen /\ InStep(c, d) /\ Twin({"drawn"}, k, d, e) /\ Untroubled(d) /\ Account(c, d)
  BY DEF Unseen, Starts, InStep
<1>2. RoomForBill(d)
  BY <1>1, UntroubledIs
<1>3. Sound(c, d, r) /\ Paired({"drawn"}, k, r, s) /\ DraftMade(d, r.db)
  <2> DEFINE unlike == {"drawn"}
  <2>1. unlike \in SUBSET Unseen /\ "drawn" \in unlike /\ Twin(unlike, k, d, e)
    BY <1>1
  <2> HIDE DEF unlike
  <2>2. Sound(c, d, r) /\ Paired(unlike, k, r, s) /\ DraftMade(d, r.db)
    BY <1>1, <1>2, <2>1, Refuels
  <2> QED
    BY <2>2 DEF unlike
<1> HIDE DEF r, s
<1>4. r.db.request = d.request
  BY <1>3 DEF DraftMade, Fields, AccountFields
<1>5. Untroubled(r.db)
  <2>1. DOMAIN r.db.bills = BillIds /\ DOMAIN d.bills = BillIds
    BY <1>1, <1>3 DEF Sound, Account
  <2>2. AwaitingBills(r.db) = {}
    BY <1>1, <1>3, <2>1 DEF DraftMade, AwaitingBills, Untroubled
  <2>3. r.db.bills["draft2"] = "none"
    BY <1>1, <1>3 DEF DraftMade, Untroubled, BillIds
  <2>4. r.db.bills["draft"] \in {"none", "draft"}
    BY <1>1, <1>3 DEF DraftMade, Untroubled, BillIds
  <2>5. \A b \in BillIds : r.db.drawn[b] # "seed" => b = "draft"
    BY <1>1, <1>3, <2>3 DEF DraftMade, Untroubled
  <2> QED
    BY <1>1, <1>4, <2>2, <2>3, <2>4, <2>5 DEF Untroubled
<1>6. Starts(c, k, Then(r), Then(s))
  BY <1>3, <1>5, ThenStarts DEF Sound, Paired
<1> QED
  BY <1>6 DEF r, s

LEMMA TwoRemoved ==
  ASSUME NEW unlike \in SUBSET Unseen, NEW d, NEW e, Alike(unlike, d, e), NEW p, NEW q
  PROVE  Moves(unlike, d, e, RemovePermission(RemovePermission(d, p), q), RemovePermission(RemovePermission(e, p), q))
<1> DEFINE d1 == RemovePermission(d, p)
           e1 == RemovePermission(e, p)
<1>1. Moves(unlike, d, e, d1, e1)
  BY SettingTools
<1>2. Alike(unlike, d1, e1)
  BY <1>1 DEF Moves
<1> HIDE DEF d1, e1
<1>3. Moves(unlike, d1, e1, RemovePermission(d1, q), RemovePermission(e1, q))
  BY <1>2, SettingTools
<1>4. Moves(unlike, d, e, RemovePermission(d1, q), RemovePermission(e1, q))
  BY <1>1, <1>3, MovesOn
<1> QED
  BY <1>4 DEF d1, e1

LEMMA SearchStarts ==
  ASSUME NEW c, NEW k, NEW d, NEW e, Starts(c, k, d, e)
  PROVE  Starts(c, k, Then(Done(SimulateNetworkSearch(d))), Then(Done(SimulateNetworkSearch(e))))
<1>1. {"drawn"} \in SUBSET Unseen /\ Alike({"drawn"}, d, e)
  BY DEF Unseen, Starts, Twin
<1>2. Moves({"drawn"}, d, e, SimulateNetworkSearch(d), SimulateNetworkSearch(e))
  BY <1>1, Searches
<1> QED
  BY <1>2, PhoneBreaks

LEMMA AbroadStarts ==
  ASSUME NEW c, NEW k, NEW d, NEW e, Starts(c, k, d, e), NEW on \in BOOLEAN, NEW allowed \in BOOLEAN
  PROVE  Starts(c, k, Abroad(d, on, allowed), Abroad(e, on, allowed))
<1> DEFINE d1 == [d EXCEPT !.abroad = TRUE]
           e1 == [e EXCEPT !.abroad = TRUE]
           d2 == Then(Done(d1))
           e2 == Then(Done(e1))
           d3 == Then(Done(TurnRoaming(d2, on)))
           e3 == Then(Done(TurnRoaming(e2, on)))
<1>1. {"drawn"} \in SUBSET Unseen /\ Alike({"drawn"}, d, e) /\ "abroad" \in PhoneFields
  BY DEF Unseen, Starts, Twin, PhoneFields
<1>2. Moves({"drawn"}, d, e, d1, e1)
  BY <1>1, FieldPut
<1>3. Starts(c, k, d2, e2)
  <2> HIDE DEF d1, e1
  <2> QED
    BY <1>2, PhoneBreaks
<1>4. Starts(c, k, d3, e3)
  <2> HIDE DEF d2, e2
  <2>1. Alike({"drawn"}, d2, e2)
    BY <1>3 DEF Starts, Twin
  <2>2. Moves({"drawn"}, d2, e2, TurnRoaming(d2, on), TurnRoaming(e2, on))
    BY <1>1, <2>1, TurningTools
  <2> QED
    BY <1>3, <2>2, PhoneBreaks
<1>5. Abroad(d, on, allowed) = Then(SetLineRoaming(d3, allowed))
      /\ Abroad(e, on, allowed) = Then(SetLineRoaming(e3, allowed))
  BY DEF Abroad
<1> HIDE DEF d3, e3
<1> QED
  BY <1>4, <1>5, LineBreaks

\* Every base task, on two environments at a time.
LEMMA Breaks ==
  ASSUME NEW c, c # "seed", NEW k, k # "seed", NEW d, NEW e, Starts(c, k, d, e), NEW n \in DOMAIN TaskOrder
  PROVE  Starts(c, k, Break(c, d, TaskOrder[n]), Break(k, e, TaskOrder[n]))
<1> DEFINE b == TaskOrder[n]
           Good(x, y) == Starts(c, k, x, y)
<1>0. /\ {"drawn"} \in SUBSET Unseen /\ Alike({"drawn"}, d, e)
      /\ \A d1, e1 : Moves({"drawn"}, d, e, d1, e1) => Good(Then(Done(d1)), Then(Done(e1)))
  <2>1. {"drawn"} \in SUBSET Unseen /\ Alike({"drawn"}, d, e)
    BY DEF Unseen, Starts, Twin
  <2>2. \A d1, e1 : Moves({"drawn"}, d, e, d1, e1) => Good(Then(Done(d1)), Then(Done(e1)))
    BY PhoneBreaks
  <2> QED
    BY <2>1, <2>2
<1>1. CASE b = "airplane_mode_on"
  <2>1. Break(c, d, b) = Then(Done(TurnAirplaneModeOn(d))) /\ Break(k, e, b) = Then(Done(TurnAirplaneModeOn(e)))
    BY <1>1 DEF Break, BreakService, ServiceIssues, MmsIssues, Permissions
  <2>2. Moves({"drawn"}, d, e, TurnAirplaneModeOn(d), TurnAirplaneModeOn(e))
    BY <1>0, TurningTools
  <2>3. Good(Then(Done(TurnAirplaneModeOn(d))), Then(Done(TurnAirplaneModeOn(e))))
    BY <1>0, <2>2
  <2> QED
    BY <2>1, <2>3
<1>2. CASE b = "break_apn_settings"
  <2>1. Break(c, d, b) = Then(Done(BreakApn(d))) /\ Break(k, e, b) = Then(Done(BreakApn(e)))
    BY <1>2 DEF Break, BreakService, ServiceIssues, MmsIssues, Permissions
  <2>2. Moves({"drawn"}, d, e, BreakApn(d), BreakApn(e))
    BY <1>0, SearchingTools
  <2>3. Good(Then(Done(BreakApn(d))), Then(Done(BreakApn(e))))
    BY <1>0, <2>2
  <2> QED
    BY <2>1, <2>3
<1>3. CASE b = "lock_sim_card_pin"
  <2>1. Break(c, d, b) = Then(Done(LockSim(d))) /\ Break(k, e, b) = Then(Done(LockSim(e)))
    BY <1>3 DEF Break, BreakService, ServiceIssues, MmsIssues, Permissions
  <2>2. Moves({"drawn"}, d, e, LockSim(d), LockSim(e))
    BY <1>0, SearchingTools
  <2>3. Good(Then(Done(LockSim(d))), Then(Done(LockSim(e))))
    BY <1>0, <2>2
  <2> QED
    BY <2>1, <2>3
<1>4. CASE b = "unseat_sim_card"
  <2>1. Break(c, d, b) = Then(Done(UnseatSim(d))) /\ Break(k, e, b) = Then(Done(UnseatSim(e)))
    BY <1>4 DEF Break, BreakService, ServiceIssues, MmsIssues, Permissions
  <2>2. Moves({"drawn"}, d, e, UnseatSim(d), UnseatSim(e))
    BY <1>0, SearchingTools
  <2>3. Good(Then(Done(UnseatSim(d))), Then(Done(UnseatSim(e))))
    BY <1>0, <2>2
  <2> QED
    BY <2>1, <2>3
<1>5. CASE b = "bad_network_preference"
  <2>1. Break(c, d, b) = Then(Done(SetNetworkMode(d, "only_2g"))) /\ Break(k, e, b) = Then(Done(SetNetworkMode(e, "only_2g")))
    BY <1>5 DEF Break, BreakMobile, ServiceIssues, MmsIssues, Permissions
  <2>2. Moves({"drawn"}, d, e, SetNetworkMode(d, "only_2g"), SetNetworkMode(e, "only_2g"))
    BY <1>0, SearchingTools
  <2>3. Good(Then(Done(SetNetworkMode(d, "only_2g"))), Then(Done(SetNetworkMode(e, "only_2g"))))
    BY <1>0, <2>2
  <2> QED
    BY <2>1, <2>3
<1>6. CASE b = "bad_vpn"
  <2>1. Break(c, d, b) = Then(Done(BreakVpn(d))) /\ Break(k, e, b) = Then(Done(BreakVpn(e)))
    BY <1>6 DEF Break, BreakMobile, ServiceIssues, MmsIssues, Permissions
  <2>2. Moves({"drawn"}, d, e, BreakVpn(d), BreakVpn(e))
    BY <1>0, SettingTools
  <2>3. Good(Then(Done(BreakVpn(d))), Then(Done(BreakVpn(e))))
    BY <1>0, <2>2
  <2> QED
    BY <2>1, <2>3
<1>7. CASE b = "data_mode_off"
  <2>1. Break(c, d, b) = Then(Done(TurnDataOff(d))) /\ Break(k, e, b) = Then(Done(TurnDataOff(e)))
    BY <1>7 DEF Break, BreakMobile, ServiceIssues, MmsIssues, Permissions
  <2>2. Moves({"drawn"}, d, e, TurnDataOff(d), TurnDataOff(e))
    BY <1>0, TurningTools
  <2>3. Good(Then(Done(TurnDataOff(d))), Then(Done(TurnDataOff(e))))
    BY <1>0, <2>2
  <2> QED
    BY <2>1, <2>3
<1>8. CASE b = "data_saver_mode_on"
  <2>1. Break(c, d, b) = Then(Done(TurnDataSaverOn(d))) /\ Break(k, e, b) = Then(Done(TurnDataSaverOn(e)))
    BY <1>8 DEF Break, BreakMobile, ServiceIssues, MmsIssues, Permissions
  <2>2. Moves({"drawn"}, d, e, TurnDataSaverOn(d), TurnDataSaverOn(e))
    BY <1>0, TurningTools
  <2>3. Good(Then(Done(TurnDataSaverOn(d))), Then(Done(TurnDataSaverOn(e))))
    BY <1>0, <2>2
  <2> QED
    BY <2>1, <2>3
<1>9. CASE b = "bad_wifi_calling"
  <2>1. Break(c, d, b) = Then(Done(SetWifiCallingOn(d))) /\ Break(k, e, b) = Then(Done(SetWifiCallingOn(e)))
    BY <1>9 DEF Break, BreakMms, ServiceIssues, MmsIssues, Permissions
  <2>2. Moves({"drawn"}, d, e, SetWifiCallingOn(d), SetWifiCallingOn(e))
    BY <1>0, SettingTools
  <2>3. Good(Then(Done(SetWifiCallingOn(d))), Then(Done(SetWifiCallingOn(e))))
    BY <1>0, <2>2
  <2> QED
    BY <2>1, <2>3
<1>10. CASE b = "break_apn_mms_setting"
  <2>1. Break(c, d, b) = Then(Done(BreakApnMms(d))) /\ Break(k, e, b) = Then(Done(BreakApnMms(e)))
    BY <1>10 DEF Break, BreakMms, ServiceIssues, MmsIssues, Permissions
  <2>2. Moves({"drawn"}, d, e, BreakApnMms(d), BreakApnMms(e))
    BY <1>0, SettingTools
  <2>3. Good(Then(Done(BreakApnMms(d))), Then(Done(BreakApnMms(e))))
    BY <1>0, <2>2
  <2> QED
    BY <2>1, <2>3
<1>11. CASE b = "break_app_sms_permission"
  <2>1. Break(c, d, b) = Then(Done(RemovePermission(d, "sms"))) /\ Break(k, e, b) = Then(Done(RemovePermission(e, "sms")))
    BY <1>11 DEF Break, BreakMms, ServiceIssues, MmsIssues, Permissions
  <2>2. Moves({"drawn"}, d, e, RemovePermission(d, "sms"), RemovePermission(e, "sms"))
    BY <1>0, SettingTools
  <2>3. Good(Then(Done(RemovePermission(d, "sms"))), Then(Done(RemovePermission(e, "sms"))))
    BY <1>0, <2>2
  <2> QED
    BY <2>1, <2>3
<1>12. CASE b = "break_app_storage_permission"
  <2>1. Break(c, d, b) = Then(Done(RemovePermission(d, "storage"))) /\ Break(k, e, b) = Then(Done(RemovePermission(e, "storage")))
    BY <1>12 DEF Break, BreakMms, ServiceIssues, MmsIssues, Permissions
  <2>2. Moves({"drawn"}, d, e, RemovePermission(d, "storage"), RemovePermission(e, "storage"))
    BY <1>0, SettingTools
  <2>3. Good(Then(Done(RemovePermission(d, "storage"))), Then(Done(RemovePermission(e, "storage"))))
    BY <1>0, <2>2
  <2> QED
    BY <2>1, <2>3
<1>13. CASE b = "break_app_both_permissions"
  <2>1. Break(c, d, b) = Then(Done(RemovePermission(RemovePermission(d, "sms"), "storage"))) /\ Break(k, e, b) = Then(Done(RemovePermission(RemovePermission(e, "sms"), "storage")))
    BY <1>13 DEF Break, BreakMms, ServiceIssues, MmsIssues, Permissions
  <2>2. Moves({"drawn"}, d, e, RemovePermission(RemovePermission(d, "sms"), "storage"), RemovePermission(RemovePermission(e, "sms"), "storage"))
    BY <1>0, TwoRemoved
  <2>3. Good(Then(Done(RemovePermission(RemovePermission(d, "sms"), "storage"))), Then(Done(RemovePermission(RemovePermission(e, "sms"), "storage"))))
    BY <1>0, <2>2
  <2> QED
    BY <2>1, <2>3
<1>14. CASE b \in {"contract_end_suspension", "overdue_bill_suspension"}
  <2> DEFINE d1 == Then(SuspendLineForOverdueBill(d))
             e1 == Then(SuspendLineForOverdueBill(e))
  <2>1. Break(c, d, b) = Then(Done(SimulateNetworkSearch(d1)))
        /\ Break(k, e, b) = Then(Done(SimulateNetworkSearch(e1)))
    BY <1>14 DEF Break, BreakService, ServiceIssues
  <2>2. Starts(c, k, d1, e1)
    BY OverdueBreaks
  <2> HIDE DEF d1, e1
  <2>3. Starts(c, k, Then(Done(SimulateNetworkSearch(d1))), Then(Done(SimulateNetworkSearch(e1))))
    BY <2>2, SearchStarts
  <2> QED
    BY <2>1, <2>3
<1>15. CASE b = "data_usage_exceeded"
  <2>1. Break(c, d, b) = Then(SetDataUsage(d, 151)) /\ Break(k, e, b) = Then(SetDataUsage(e, 151))
    BY <1>15 DEF Break, BreakMobile, ServiceIssues, MmsIssues, Permissions
  <2> QED
    BY <2>1, LineBreaks
<1>16. CASE b = "data_usage_exceeded_no_refuel"
  <2> DEFINE d1 == Then(RefuelData(c, d))
             e1 == Then(RefuelData(k, e))
  <2>1. Break(c, d, b) = Then(SetDataUsage(d1, 171)) /\ Break(k, e, b) = Then(SetDataUsage(e1, 171))
    BY <1>16 DEF Break, BreakMobile, ServiceIssues, MmsIssues, Permissions
  <2>2. Starts(c, k, d1, e1)
    BY RefuelBreaks
  <2> HIDE DEF d1, e1
  <2>3. Starts(c, k, Then(SetDataUsage(d1, 171)), Then(SetDataUsage(e1, 171)))
    BY <2>2, LineBreaks
  <2> QED
    BY <2>1, <2>3
<1>17. CASE b = "user_abroad_roaming_disabled_off"
  <2> DEFINE d1 == Abroad(d, FALSE, FALSE)
             e1 == Abroad(e, FALSE, FALSE)
  <2>1. Break(c, d, b) = Then(Done(SimulateNetworkSearch(d1)))
        /\ Break(k, e, b) = Then(Done(SimulateNetworkSearch(e1)))
    BY <1>17 DEF Break, BreakMobile, ServiceIssues, MmsIssues, Permissions
  <2>2. Starts(c, k, d1, e1)
    BY AbroadStarts
  <2> HIDE DEF d1, e1
  <2>3. Starts(c, k, Then(Done(SimulateNetworkSearch(d1))), Then(Done(SimulateNetworkSearch(e1))))
    BY <2>2, SearchStarts
  <2> QED
    BY <2>1, <2>3
<1>18. CASE b = "user_abroad_roaming_disabled_on"
  <2> DEFINE d1 == Abroad(d, TRUE, FALSE)
             e1 == Abroad(e, TRUE, FALSE)
  <2>1. Break(c, d, b) = Then(Done(SimulateNetworkSearch(d1)))
        /\ Break(k, e, b) = Then(Done(SimulateNetworkSearch(e1)))
    BY <1>18 DEF Break, BreakMobile, ServiceIssues, MmsIssues, Permissions
  <2>2. Starts(c, k, d1, e1)
    BY AbroadStarts
  <2> HIDE DEF d1, e1
  <2>3. Starts(c, k, Then(Done(SimulateNetworkSearch(d1))), Then(Done(SimulateNetworkSearch(e1))))
    BY <2>2, SearchStarts
  <2> QED
    BY <2>1, <2>3
<1>19. CASE b = "user_abroad_roaming_enabled_off"
  <2>1. Break(c, d, b) = Abroad(d, FALSE, TRUE) /\ Break(k, e, b) = Abroad(e, FALSE, TRUE)
    BY <1>19 DEF Break, BreakMobile, ServiceIssues, MmsIssues, Permissions
  <2> QED
    BY <2>1, AbroadStarts
<1>20. b \in {"airplane_mode_on", "bad_network_preference", "bad_vpn", "bad_wifi_calling",
  "break_apn_mms_setting", "break_apn_settings", "break_app_both_permissions",
  "break_app_sms_permission", "break_app_storage_permission", "contract_end_suspension",
  "data_mode_off", "data_saver_mode_on", "data_usage_exceeded", "data_usage_exceeded_no_refuel",
  "lock_sim_card_pin", "overdue_bill_suspension", "unseat_sim_card",
  "user_abroad_roaming_disabled_off", "user_abroad_roaming_disabled_on",
  "user_abroad_roaming_enabled_off"}
  <2>1. n \in 1..20
    BY DEF TaskOrder
  <2>2. \A i \in 1..20 : \/ i \in 1..5 \/ i \in 6..10 \/ i \in 11..15 \/ i \in 16..20
    OBVIOUS
  <2> QED
    BY <2>1, <2>2 DEF TaskOrder
<1> QED
  BY <1>1, <1>2, <1>3, <1>4, <1>5, <1>6, <1>7, <1>8, <1>9, <1>10, <1>11, <1>12, <1>13, <1>14, <1>15, <1>16, <1>17, <1>18, <1>19, <1>20

LEMMA HomeStarts ==
  ASSUME NEW c, NEW k, NEW roams \in BOOLEAN
  PROVE  Starts(c, k, Home(roams), Home(roams))
<1> DEFINE h == Home(roams)
<1>1. Shaped(h)
  <2>1. DOMAIN h = Fields
    BY DEF Home, Fields, PhoneFields, AccountFields
  <2>2. h = [f \in DOMAIN h |-> h[f]]
    BY DEF Home
  <2> QED
    BY <2>1, <2>2 DEF Shaped
<1>2. /\ h.bills = [b \in BillIds |-> IF b = "issued" THEN "issued" ELSE "none"]
      /\ h.drawn = [b \in BillIds |-> "seed"] /\ h.request = NoRequest
      /\ h.line_status = "active" /\ h.line_active = TRUE /\ h.line_roaming = roams /\ h.roaming_allowed = roams
      /\ h.exceeded = FALSE /\ h.data_used = 87 /\ h.data_refueling = 0
  BY DEF Home, BillIds
<1> HIDE DEF h
<1>3. Account(c, h)
  <2>1. NoRequest \in [bill : BillIds \cup {"none"}, paid : BOOLEAN]
    BY DEF NoRequest
  <2>2. h.bills \in [BillIds -> BillStatuses]
    BY <1>2 DEF BillStatuses
  <2> QED
    BY <1>1, <1>2, <2>1, <2>2 DEF Account
<1>4. Untroubled(h)
  <2>1. AwaitingBills(h) = {}
    BY <1>2 DEF AwaitingBills
  <2> QED
    BY <1>2, <2>1 DEF Untroubled, BillIds
<1>5. Derived(h)
  <2>1. (h.data_used >= PlanLimit + h.data_refueling) = FALSE
    BY <1>2 DEF PlanLimit
  <2>2. (h.line_status = "active") = TRUE
    BY <1>2
  <2> QED
    BY <1>2, <2>1, <2>2 DEF Derived
<1>6. Twin({"drawn"}, k, h, h)
  BY <1>1, <1>2 DEF Twin, Alike
<1>7. Agreed(h)
  BY <1>3, <1>4, UntroubledIs
<1>8. Starts(c, k, h, h)
  BY <1>3, <1>4, <1>5, <1>6, <1>7 DEF Starts, InStep
<1> QED
  BY <1>8 DEF h

\* One base task after another.
BreakNext(c, t, d, n) == IF TaskOrder[n] \in t THEN Break(c, d, TaskOrder[n]) ELSE d

BreakUpTo(c, t, roams, g, m) ==
  g = [n \in 0..m |-> IF n = 0 THEN Home(roams) ELSE BreakNext(c, t, g[n - 1], n)]

LEMMA BrokenSteps ==
  ASSUME NEW c, NEW t, NEW roams, NEW m \in Nat
  PROVE  \E g : BreakUpTo(c, t, roams, g, m)
<1> DEFINE Rule(g, j) == [n \in 0..j |-> IF n = 0 THEN Home(roams) ELSE BreakNext(c, t, g[n - 1], n)]
           S == {j \in Nat : \E g : g = Rule(g, j)}
<1>1. 0 \in S
  <2> DEFINE g0 == [n \in 0..0 |-> Home(roams)]
  <2>1. g0 = Rule(g0, 0)
    OBVIOUS
  <2> QED
    BY <2>1
<1>2. ASSUME NEW j \in Nat, j \in S PROVE j + 1 \in S
  <2>1. PICK g : g = Rule(g, j)
    BY <1>2
  <2> DEFINE g1 == [n \in 0..(j + 1) |-> IF n = j + 1 THEN BreakNext(c, t, g[j], j + 1) ELSE g[n]]
  <2>2. ASSUME NEW n \in 0..(j + 1)
        PROVE  g1[n] = IF n = 0 THEN Home(roams) ELSE BreakNext(c, t, g1[n - 1], n)
    <3>1. CASE n = 0
      <4>1. 0 \in 0..j /\ 0 # j + 1
        OBVIOUS
      <4>2. g[0] = Home(roams)
        BY <2>1, <4>1
      <4> QED
        BY <3>1, <4>1, <4>2
    <3>2. CASE n = j + 1
      <4>1. n # 0 /\ n - 1 = j /\ j \in 0..(j + 1) /\ j # j + 1
        BY <3>2
      <4>2. g1[n - 1] = g[j]
        BY <4>1
      <4> QED
        BY <3>2, <4>1, <4>2
    <3>3. CASE n # 0 /\ n # j + 1
      <4>1. n \in 0..j /\ n - 1 \in 0..(j + 1) /\ n - 1 # j + 1
        BY <3>3
      <4>2. g1[n] = g[n] /\ g1[n - 1] = g[n - 1]
        BY <3>3, <4>1
      <4>3. g[n] = BreakNext(c, t, g[n - 1], n)
        BY <2>1, <3>3, <4>1
      <4> QED
        BY <3>3, <4>2, <4>3
    <3> QED
      BY <3>1, <3>2, <3>3
  <2>3. g1 = [n \in 0..(j + 1) |-> g1[n]]
    OBVIOUS
  <2> HIDE DEF g1
  <2>4. g1 = Rule(g1, j + 1)
    BY <2>2, <2>3
  <2> QED
    BY <2>4
<1>3. \A j \in Nat : j \in S
  <2> HIDE DEF S
  <2> QED
    BY <1>1, <1>2, SetInduction
<1>4. PICK g : g = Rule(g, m)
  BY <1>3
<1>5. BreakUpTo(c, t, roams, g, m)
  BY <1>4, Zenon DEF BreakUpTo
<1> QED
  BY <1>5

BreaksDownTo(c, t, roams, g) ==
  /\ g[0] = Home(roams) /\ Broken(c, t, roams) = g[Len(TaskOrder)]
  /\ \A n \in 1..Len(TaskOrder) : g[n] = BreakNext(c, t, g[n - 1], n)

LEMMA BrokenIs ==
  ASSUME NEW c, NEW t, NEW roams
  PROVE  \E g : BreaksDownTo(c, t, roams, g)
<1> DEFINE N == Len(TaskOrder)
           Rule(g) == [n \in 0..N |-> IF n = 0 THEN Home(roams) ELSE BreakNext(c, t, g[n - 1], n)]
           upTo == CHOOSE g : g = Rule(g)
<1>1. N \in Nat
  BY DEF TaskOrder
<1>2. Broken(c, t, roams) = upTo[N]
  BY DEF Broken, BreakNext
<1> HIDE DEF N
<1>3. upTo = Rule(upTo)
  <2>1. PICK g : BreakUpTo(c, t, roams, g, N)
    BY <1>1, BrokenSteps
  <2>2. g = Rule(g)
    BY <2>1, Zenon DEF BreakUpTo
  <2> QED
    BY <2>2
<1> HIDE DEF upTo
<1>4. upTo[0] = Home(roams) /\ \A n \in 1..N : upTo[n] = BreakNext(c, t, upTo[n - 1], n)
  <2>1. 0 \in 0..N /\ \A n \in 1..N : n \in 0..N /\ n # 0
    BY <1>1
  <2> QED
    BY <1>3, <2>1
<1>5. BreaksDownTo(c, t, roams, upTo)
  BY <1>2, <1>4 DEF N, BreaksDownTo
<1> QED
  BY <1>5

LEMMA BrokenStarts ==
  ASSUME NEW c, c # "seed", NEW k, k # "seed", NEW t, NEW roams \in BOOLEAN
  PROVE  Starts(c, k, Broken(c, t, roams), Broken(k, t, roams))
<1> DEFINE N == Len(TaskOrder)
<1>1. N \in Nat /\ 1..N = DOMAIN TaskOrder
  BY DEF TaskOrder
<1>2. PICK g : BreaksDownTo(c, t, roams, g)
  BY BrokenIs
<1>3. PICK h : BreaksDownTo(k, t, roams, h)
  BY BrokenIs
<1> DEFINE S == {n \in Nat : n <= N => Starts(c, k, g[n], h[n])}
<1> HIDE DEF N
<1>4. 0 \in S
  BY <1>2, <1>3, HomeStarts DEF BreaksDownTo
<1>5. ASSUME NEW n \in Nat, n \in S PROVE n + 1 \in S
  <2>1. SUFFICES ASSUME n + 1 <= N PROVE Starts(c, k, g[n + 1], h[n + 1])
    OBVIOUS
  <2>2. n + 1 \in 1..N /\ n + 1 - 1 = n /\ n + 1 \in DOMAIN TaskOrder
    BY <1>1, <2>1
  <2>3. g[n + 1] = BreakNext(c, t, g[n], n + 1) /\ h[n + 1] = BreakNext(k, t, h[n], n + 1)
    BY <1>2, <1>3, <2>2 DEF BreaksDownTo, N
  <2>4. Starts(c, k, g[n], h[n])
    BY <1>1, <1>5, <2>1
  <2>5. Starts(c, k, Break(c, g[n], TaskOrder[n + 1]), Break(k, h[n], TaskOrder[n + 1]))
    BY <2>2, <2>4, Breaks
  <2> QED
    BY <2>3, <2>4, <2>5 DEF BreakNext
<1>6. \A n \in Nat : n \in S
  <2> HIDE DEF S
  <2> QED
    BY <1>4, <1>5, SetInduction
<1>7. Broken(c, t, roams) = g[N] /\ Broken(k, t, roams) = h[N]
  BY <1>2, <1>3 DEF BreaksDownTo, N
<1> QED
  BY <1>1, <1>6, <1>7

-----------------------------------------------------------------------------
(* The invariant of a task played.                                         *)

\* Calls of the reference in a task without an overdue bill.
RefCalls ==
  {call \in Calls : /\ Known(call)
                    /\ \/ call[2] \in WriteTools.user \ {"make_payment"}
                       \/ call[2] \in {"enable_roaming", "refuel_data"}}

TelecomTypes ==
  /\ DOMAIN todo = issues /\ \A b \in issues : todo[b] \in Seq(Calls)
  /\ detours \in Nat

\* The environment rebuilt is the live one up to the ids drawn.
Rebuilt ==
  "replay" \in Copies =>
    Used(env["live"]) \/ (~diverged /\ Twin({"drawn"}, "replay", env["live"], env["replay"]))

\* While only the reference is played, the gold environment is what the live one
\* is, up to what sync_tools would bring about.
OnReference ==
  "gold" \in Copies /\ detours = 0 /\ "overdue_bill_suspension" \notin issues =>
    /\ \A b \in issues : todo[b] \in Seq(RefCalls)
    /\ env["live"].request = NoRequest
    /\ Twin(Unseen, "gold", env["live"], env["gold"])

TelecomInv == TelecomTypes /\ InStep("live", env["live"]) /\ Rebuilt /\ OnReference

LEMMA UserCall ==
  ASSUME NEW tool \in WriteTools.user \ {"make_payment"}, NEW arg \in Arguments
  PROVE  User(tool, arg) \in RefCalls
<1>1. tool \in Tools /\ tool # "send_payment_request"
  BY DEF WriteTools, Tools
<1>2. User(tool, arg) \in Calls
  BY <1>1 DEF User, Calls
<1>3. User(tool, arg)[1] = "user" /\ User(tool, arg)[2] = tool
  BY DEF User
<1>4. tool \in WriteTools["user"]
  OBVIOUS
<1> QED
  BY <1>2, <1>3, <1>4 DEF RefCalls, Known

LEMMA AgentCall ==
  ASSUME NEW tool \in {"enable_roaming", "refuel_data"}
  PROVE  Agent(tool, "") \in RefCalls
<1>1. Agent(tool, "") \in Calls
  <2>1. tool \in Tools /\ tool # "send_payment_request" /\ "" \in Arguments
    BY DEF WriteTools, Tools, Arguments
  <2> QED
    BY <2>1 DEF Agent, Calls
<1>2. Agent(tool, "")[1] = "assistant" /\ Agent(tool, "")[2] = tool /\ tool \in WriteTools["assistant"]
  BY DEF Agent, WriteTools
<1> QED
  BY <1>1, <1>2 DEF RefCalls, Known

LEMMA ReferenceCalls ==
  ASSUME NEW b
  PROVE  /\ Fixes(b) \in Seq(Calls)
         /\ b # "overdue_bill_suspension" => Fixes(b) \in Seq(RefCalls)
<1>1. /\ <<>> \in Seq(RefCalls)
      /\ \A x \in RefCalls : <<x>> \in Seq(RefCalls)
      /\ \A x, y \in RefCalls : <<x, y>> \in Seq(RefCalls)
  OBVIOUS
<1>2. Seq(RefCalls) \subseteq Seq(Calls)
  <2>1. RefCalls \subseteq Calls
    BY DEF RefCalls
  <2> QED
    BY <2>1
<1>3. {"toggle_airplane_mode", "reset_apn_settings", "reboot_device", "reseat_sim_card",
       "set_network_mode_preference", "disconnect_vpn", "toggle_data", "toggle_data_saver_mode", "toggle_roaming",
       "toggle_wifi_calling", "grant_app_permission"} \subseteq WriteTools.user \ {"make_payment"}
  BY DEF WriteTools
<1>4. \A t \in {"toggle_airplane_mode", "reset_apn_settings", "reboot_device", "reseat_sim_card",
         "set_network_mode_preference", "disconnect_vpn", "toggle_data", "toggle_data_saver_mode", "toggle_roaming",
         "toggle_wifi_calling", "grant_app_permission"}, a \in Arguments : User(t, a) \in RefCalls
  BY <1>3, UserCall
<1>5. "" \in Arguments /\ "prefer_5g" \in Arguments /\ "sms" \in Arguments /\ "storage" \in Arguments
  BY DEF Arguments, Technology
<1>6. CASE b \in ServiceIssues /\ b # "overdue_bill_suspension"
  BY <1>1, <1>2, <1>4, <1>5, <1>6 DEF Fixes, FixesService
<1>7. CASE b = "overdue_bill_suspension"
  <2>1. Fixes(b) = <<Agent("send_payment_request", "overdue"), User("make_payment", ""),
                     Agent("resume_line", ""), User("reboot_device", "")>>
    BY <1>7 DEF Fixes, FixesService, ServiceIssues
  <2>2. /\ Agent("send_payment_request", "overdue") \in Calls /\ User("make_payment", "") \in Calls
        /\ Agent("resume_line", "") \in Calls /\ User("reboot_device", "") \in Calls
    <3>1. {"send_payment_request", "make_payment", "resume_line", "reboot_device"} \subseteq Tools
      BY DEF Tools, WriteTools
    <3>2. "" \in Arguments /\ "overdue" \in Arguments /\ "overdue" \in BillIds
      BY DEF Arguments, BillIds
    <3> QED
      BY <3>1, <3>2 DEF Agent, User, Calls
  <2>3. \A x, y, z, w \in Calls : <<x, y, z, w>> \in Seq(Calls)
    OBVIOUS
  <2> QED
    BY <1>7, <2>1, <2>2, <2>3
<1>8. CASE b \in MmsIssues
  BY <1>1, <1>2, <1>4, <1>5, <1>8 DEF Fixes, FixesMms, ServiceIssues, MmsIssues, Permissions
<1>9. CASE b \notin ServiceIssues /\ b \notin MmsIssues
  <2>1. Agent("enable_roaming", "") \in RefCalls /\ Agent("refuel_data", "") \in RefCalls
    BY AgentCall
  <2>2. FixesMobile(b) \in Seq(RefCalls)
    BY <1>1, <1>4, <1>5, <2>1 DEF FixesMobile
  <2>3. Fixes(b) = FixesMobile(b)
    BY <1>9 DEF Fixes
  <2>4. "overdue_bill_suspension" \in ServiceIssues
    BY DEF ServiceIssues
  <2> QED
    BY <1>2, <1>9, <2>2, <2>3, <2>4
<1> QED
  BY <1>6, <1>7, <1>8, <1>9

LEMMA Compared ==
  /\ "live" \in Copies /\ "live" # "seed" /\ "replay" # "seed" /\ "gold" # "seed"
  /\ {"drawn"} \in SUBSET Unseen /\ Unseen \in SUBSET Unseen
BY TelecomAssumption DEF Unseen

LEMMA TelecomStart == TelecomInit => TelecomInv
<1> SUFFICES ASSUME TelecomInit PROVE TelecomInv
  OBVIOUS
<1>1. PICK roams \in BOOLEAN : env = [c \in Copies |-> Broken(c, issues, roams)]
  BY DEF TelecomInit
<1>2. \A c \in Copies : env[c] = Broken(c, issues, roams)
  BY <1>1
<1>3. /\ Starts("live", "replay", Broken("live", issues, roams), Broken("replay", issues, roams))
      /\ Starts("live", "gold", Broken("live", issues, roams), Broken("gold", issues, roams))
  BY Compared, BrokenStarts
<1>4. InStep("live", env["live"]) /\ env["live"].request = NoRequest
  BY <1>2, <1>3, Compared DEF Starts, Untroubled
<1>5. Rebuilt
  BY <1>2, <1>3, Compared DEF Rebuilt, Starts, TelecomInit
<1>6. \A b \in issues : /\ todo[b] \in Seq(Calls)
                        /\ b # "overdue_bill_suspension" => todo[b] \in Seq(RefCalls)
  <2>1. \A b \in issues : todo[b] \in {<<>>, Fixes(b)}
    BY DEF TelecomInit, Reference
  <2>2. <<>> \in Seq(Calls) /\ <<>> \in Seq(RefCalls)
    OBVIOUS
  <2> QED
    BY <2>1, <2>2, ReferenceCalls
<1>7. DOMAIN todo = issues /\ detours \in Nat
  BY DEF TelecomInit, Reference
<1>8. OnReference
  <2>1. "gold" \in Copies => Twin(Unseen, "gold", env["live"], env["gold"])
    BY <1>2, <1>3, Compared DEF Starts, Twin, Alike, Unseen
  <2> QED
    BY <1>4, <1>6, <2>1 DEF OnReference
<1> QED
  BY <1>4, <1>5, <1>6, <1>7, <1>8 DEF TelecomInv, TelecomTypes

\* An environment has a twin, be it compared with one or not.
LEMMA HasTwin ==
  ASSUME NEW d, Account("live", d)
  PROVE  \E e : Twin({"drawn"}, "replay", d, e)
<1> DEFINE drawn == [b \in BillIds |-> IF d.drawn[b] = "seed" THEN "seed" ELSE "replay"]
           e == [d EXCEPT !.drawn = drawn]
<1>1. drawn \in [BillIds -> {"seed", "replay"}] /\ \A b \in BillIds : d.drawn[b] = "seed" <=> drawn[b] = "seed"
  OBVIOUS
<1> HIDE DEF drawn
<1>2. Shaped(d) /\ Shaped(e) /\ e.drawn = drawn /\ \A g \in Fields : g # "drawn" => e[g] = d[g]
  <2>1. "drawn" \in Fields
    BY DEF Fields, AccountFields
  <2> QED
    BY <2>1, FieldSet DEF Account
<1> HIDE DEF e
<1>3. Twin({"drawn"}, "replay", d, e)
  BY <1>1, <1>2 DEF Twin, Alike
<1> QED
  BY <1>3

LEMMA Answered ==
  ASSUME NEW d, NEW e, InStep("live", d), Twin({"drawn"}, "replay", d, e), NEW call \in Calls,
         call[2] = "refuel_data" => RoomForBill(d)
  PROVE  /\ InStep("live", GetResponse("live", call, d).db) /\ Ages(d, GetResponse("live", call, d).db)
         /\ \/ Used(GetResponse("live", call, d).db)
            \/ /\ Twin({"drawn"}, "replay", GetResponse("live", call, d).db, GetResponse("replay", call, e).db)
               /\ Content("live", call, d) = Content("replay", call, e)
<1> DEFINE r == MakeToolCall("live", call, d)
           s == MakeToolCall("replay", call, e)
           d1 == GetResponse("live", call, d).db
           e1 == GetResponse("replay", call, e).db
           unlike == {"drawn"}
<1>1. unlike \in SUBSET Unseen /\ "drawn" \in unlike /\ "replay" \notin {"live", "seed"}
  BY DEF Unseen
<1>2. Twin(unlike, "replay", d, e)
  OBVIOUS
<1>3. d1 = IF r.error THEN r.db ELSE SyncTools(r.db)
  BY DEF GetResponse, Done
<1>4. e1 = IF s.error THEN s.db ELSE SyncTools(s.db)
  BY DEF GetResponse, Done
<1>5. Content("live", call, d) = <<r.error, r.db.airplane_mode, r.db.tech, r.db.data, r.db.saver, r.db.vpn>>
      /\ Content("replay", call, e) = <<s.error, s.db.airplane_mode, s.db.tech, s.db.data, s.db.saver, s.db.vpn>>
  BY DEF Content
<1> HIDE DEF unlike
<1>6. /\ Sound("live", d, r)
      /\ Used(r.db) \/ Paired(unlike, "replay", r, s)
  BY <1>1, <1>2, CallAnswered
<1> HIDE DEF r, s, d1, e1
<1>7. Account("live", r.db) /\ Open(r.db) /\ Ages(d, r.db) /\ (r.error => r.db = d)
  BY <1>6 DEF Sound
<1>8. PICK x : Twin({"drawn"}, "replay", r.db, x)
  BY <1>7, HasTwin
<1>9. InStep("live", SyncTools(r.db)) /\ Ages(r.db, SyncTools(r.db))
  BY <1>1, <1>7, <1>8, Syncs DEF unlike
<1>10. InStep("live", d1) /\ Ages(d, d1) /\ (Used(r.db) => Used(d1))
  <2>1. Ages(d, SyncTools(r.db))
    BY <1>7, <1>9 DEF Ages
  <2>2. Used(r.db) => Used(SyncTools(r.db))
    BY <1>7, <1>9, UsedForGood
  <2> QED
    BY <1>3, <1>7, <1>9, <2>1, <2>2
<1>11. ASSUME Paired(unlike, "replay", r, s)
       PROVE  Twin({"drawn"}, "replay", d1, e1) /\ Content("live", call, d) = Content("replay", call, e)
  <2>1. r.error = s.error /\ Twin(unlike, "replay", r.db, s.db)
    BY <1>11 DEF Paired
  <2>2. Twin({"drawn"}, "replay", SyncTools(r.db), SyncTools(s.db))
    BY <1>1, <1>7, <2>1, Syncs
  <2>3. Twin({"drawn"}, "replay", d1, e1)
    <3>1. CASE r.error
      BY <1>3, <1>4, <2>1, <3>1 DEF unlike
    <3>2. CASE ~r.error
      BY <1>3, <1>4, <2>1, <2>2, <3>2
    <3> QED
      BY <3>1, <3>2
  <2>4. /\ r.db.airplane_mode = s.db.airplane_mode /\ r.db.tech = s.db.tech /\ r.db.data = s.db.data
        /\ r.db.saver = s.db.saver /\ r.db.vpn = s.db.vpn
    <3>1. \A f \in Fields \ Unseen : r.db[f] = s.db[f]
      <4>1. unlike \in SUBSET Unseen
        BY <1>1
      <4> HIDE DEF unlike, r, s, d1, e1
      <4> QED
        BY <2>1, <4>1, TwinFields
    <3>2. \A f \in {"airplane_mode", "tech", "data", "saver", "vpn"} : f \in Fields \ Unseen
      BY DEF Fields, PhoneFields, Unseen
    <3> QED
      BY <3>1, <3>2
  <2> QED
    BY <1>5, <2>1, <2>3, <2>4
<1>12. \/ Used(d1)
       \/ Twin({"drawn"}, "replay", d1, e1) /\ Content("live", call, d) = Content("replay", call, e)
  BY <1>6, <1>10, <1>11
<1> QED
  BY <1>10, <1>12 DEF d1, e1

\* A call that set_state does not repeat changes nothing.
LEMMA NotRepeated ==
  ASSUME NEW d, InStep("live", d), NEW call \in Calls, ~Replayed(call)
  PROVE  GetResponse("live", call, d).db = d
<1>1. call[2] \notin {"suspend_line", "resume_line", "send_payment_request", "enable_roaming", "disable_roaming",
         "refuel_data", "set_network_mode_preference", "toggle_airplane_mode", "reseat_sim_card", "toggle_data",
         "toggle_roaming", "toggle_data_saver_mode", "set_apn_settings", "reset_apn_settings",
         "toggle_wifi", "toggle_wifi_calling", "connect_vpn", "disconnect_vpn",
         "grant_app_permission", "reboot_device", "make_payment"}
  BY WritingTools DEF Replayed
<1>2. MakeToolCall("live", call, d) \in {Done(d), Raised(d)}
  BY <1>1 DEF MakeToolCall
<1>3. GetResponse("live", call, d).db \in {d, SyncTools(d)}
  BY <1>2 DEF GetResponse, Done, Raised
<1> QED
  BY <1>3, SyncIdle

LEMMA Performed ==
  ASSUME TelecomInv, NEW call \in Calls, NEW reference \in BOOLEAN, Perform(call, reference)
  PROVE  InStep("live", env'["live"]) /\ Rebuilt'
<1> DEFINE d == env["live"]
           e == env["replay"]
           d1 == GetResponse("live", call, d).db
           e1 == GetResponse("replay", call, e).db
<1>1. InStep("live", d) /\ Rebuilt /\ (call[2] = "refuel_data" => RoomForBill(d))
  BY DEF TelecomInv, Perform
<1>2. env'["live"] = d1 /\ ("replay" \in Copies => env'["replay"] = IF Replayed(call) THEN e1 ELSE e)
  BY Compared DEF Perform, Made
<1>3. diverged' <=> \/ diverged
                    \/ /\ "replay" \in Copies /\ Replayed(call)
                       /\ Content("replay", call, e) # Content("live", call, d)
  BY DEF Perform
<1>4. PICK x : Twin({"drawn"}, "replay", d, x)
  BY <1>1, HasTwin DEF InStep
<1>5. InStep("live", d1) /\ Ages(d, d1)
  BY <1>1, <1>4, Answered
<1>6. ASSUME "replay" \in Copies PROVE Used(d1) \/ (~diverged' /\ Twin({"drawn"}, "replay", d1, env'["replay"]))
  <2>1. CASE Used(d)
    <3>1. Account("live", d)
      BY <1>1 DEF InStep
    <3> HIDE DEF d, d1
    <3> QED
      BY <1>5, <2>1, <3>1, UsedForGood
  <2>2. CASE ~Used(d)
    <3>1. ~diverged /\ Twin({"drawn"}, "replay", d, e)
      BY <1>1, <1>6, <2>2 DEF Rebuilt
    <3>2. CASE Replayed(call)
      <4>1. Used(d1) \/ (Twin({"drawn"}, "replay", d1, e1) /\ Content("live", call, d) = Content("replay", call, e))
        BY <1>1, <3>1, Answered
      <4>2. env'["replay"] = e1
        BY <1>2, <1>6, <3>2
      <4>3. Content("live", call, d) = Content("replay", call, e) => ~diverged'
        BY <1>3, <3>1
      <4> HIDE DEF d, e, d1, e1
      <4> QED
        BY <4>1, <4>2, <4>3
    <3>3. CASE ~Replayed(call)
      <4>1. d1 = d
        BY <1>1, <3>3, NotRepeated
      <4> HIDE DEF d, e, d1, e1
      <4> QED
        BY <1>2, <1>3, <1>6, <3>1, <3>3, <4>1
    <3> QED
      BY <3>2, <3>3
  <2> QED
    BY <2>1, <2>2
<1> HIDE DEF d1, e1
<1>7. InStep("live", env'["live"])
  BY <1>2, <1>5
<1>8. Rebuilt'
  BY <1>2, <1>6 DEF Rebuilt
<1> QED
  BY <1>7, <1>8

\* A call of the reference leaves operator and user nothing to settle.
LEMMA ReferenceCall ==
  ASSUME NEW d, InStep("live", d), d.request = NoRequest, NEW call \in RefCalls,
         call[2] = "refuel_data" => RoomForBill(d)
  PROVE  \E x : /\ MakeToolCall("live", call, d) = Done(x)
                /\ Agreed(x) /\ x.request = NoRequest
                /\ x.line_status = d.line_status /\ x.line_active = d.line_active
<1>1. call \in Calls /\ Known(call) /\ Account("live", d) /\ Shaped(d) /\ Agreed(d)
  BY DEF RefCalls, InStep, Account
<1>2. \A f \in {"line_status", "line_active", "bills", "drawn", "request", "line_roaming", "data_refueling"} :
        f \in AccountFields /\ f \in Fields
  BY DEF AccountFields, Fields
<1>3. CASE call[2] \in WriteTools.user \ {"make_payment"}
  <2>1. {} \in SUBSET Unseen /\ Alike({}, d, d)
    BY <1>1 DEF Alike
  <2>2. PICK x, y : Moves({}, d, d, x, y) /\ MakeToolCall("live", call, d) = Done(x)
    BY <1>1, <1>3, <2>1, PhoneTools
  <2>3. \A f \in AccountFields : x[f] = d[f]
    BY <2>2 DEF Moves
  <2>4. Agreed(x)
    BY <1>1, <1>2, <2>3 DEF Agreed, AwaitingBills
  <2> QED
    BY <1>2, <2>2, <2>3, <2>4
<1>4. CASE call[2] = "enable_roaming"
  <2> DEFINE x == [d EXCEPT !.line_roaming = TRUE]
  <2>1. MakeToolCall("live", call, d) = Done(x)
    BY <1>1, <1>4 DEF MakeToolCall, Known, SetLineRoaming
  <2>2. \A f \in Fields : f # "line_roaming" => x[f] = d[f]
    BY <1>1, <1>2, FieldSet
  <2> HIDE DEF x
  <2>3. Agreed(x)
    BY <1>1, <1>2, <2>2 DEF Agreed, AwaitingBills
  <2> QED
    BY <1>2, <2>1, <2>2, <2>3
<1>5. CASE call[2] = "refuel_data"
  <2> DEFINE r == RefuelData("live", d)
  <2>1. MakeToolCall("live", call, d) = r
    BY <1>1, <1>5 DEF MakeToolCall, Known
  <2>2. r = Done(r.db)
    BY DEF RefuelData, Done
  <2> HIDE DEF r
  <2>3. PICK e : Twin({"drawn"}, "replay", d, e)
    BY <1>1, HasTwin
  <2>4. Account("live", r.db) /\ DraftMade(d, r.db)
    <3> DEFINE unlike == {"drawn"}
    <3>1. unlike \in SUBSET Unseen /\ "drawn" \in unlike /\ Twin(unlike, "replay", d, e)
      BY <2>3 DEF Unseen
    <3> HIDE DEF unlike
    <3>2. RoomForBill(d) /\ "live" # "seed" /\ "replay" # "seed"
      BY <1>5
    <3>3. Sound("live", d, r) /\ DraftMade(d, r.db)
      BY <3>1, <3>2, Refuels DEF r
    <3> QED
      BY <3>3 DEF Sound
  <2>5. r.db.request = d.request /\ r.db.line_status = d.line_status /\ r.db.line_active = d.line_active
    BY <1>2, <2>4 DEF DraftMade
  <2>6. AwaitingBills(r.db) = AwaitingBills(d)
    <3>1. DOMAIN d.bills = BillIds /\ DOMAIN r.db.bills = BillIds
      BY <1>1, <2>4 DEF Account
    <3>2. \A b \in BillIds : r.db.bills[b] = d.bills[b] \/ (r.db.bills[b] = "draft" /\ d.bills[b] = "none")
      BY <2>4 DEF DraftMade
    <3> QED
      BY <3>1, <3>2 DEF AwaitingBills
  <2>7. Agreed(r.db)
    BY <1>1, <2>5, <2>6 DEF Agreed
  <2> QED
    BY <2>1, <2>2, <2>5, <2>7
<1> QED
  BY <1>3, <1>4, <1>5 DEF RefCalls

LEMMA ReferencePerformed ==
  ASSUME TelecomInv, NEW call \in RefCalls, Perform(call, TRUE), "gold" \in Copies,
         env["live"].request = NoRequest, Twin(Unseen, "gold", env["live"], env["gold"])
  PROVE  env'["live"].request = NoRequest /\ Twin(Unseen, "gold", env'["live"], env'["gold"])
<1> DEFINE d == env["live"]
           e == env["gold"]
           r == MakeToolCall("live", call, d)
           s == MakeToolCall("gold", call, e)
<1>1. InStep("live", d) /\ (call[2] = "refuel_data" => RoomForBill(d)) /\ call \in Calls
  BY DEF TelecomInv, Perform, RefCalls
<1>2. env'["live"] = GetResponse("live", call, d).db /\ env'["gold"] = s.db
  BY Compared DEF Perform, Made
<1>3. PICK x : r = Done(x) /\ Agreed(x) /\ x.request = NoRequest
               /\ x.line_status = d.line_status /\ x.line_active = d.line_active
  BY <1>1, ReferenceCall
<1>4. env'["live"] = SyncTools(x)
  BY <1>2, <1>3 DEF GetResponse, Done
<1>5. call[2] # "send_payment_request"
  BY DEF RefCalls, WriteTools
<1>6. Sound("live", d, r) /\ Paired(Unseen, "gold", r, s)
  <2> DEFINE unlike == Unseen
  <2>1. unlike \in SUBSET Unseen /\ "drawn" \in unlike /\ "gold" \notin {"live", "seed"} /\ Twin(unlike, "gold", d, e)
    BY DEF Unseen
  <2> HIDE DEF unlike
  <2>2. Sound("live", d, r) /\ Paired(unlike, "gold", r, s)
    BY <1>1, <1>5, <2>1, CallAnswered
  <2> QED
    BY <2>2 DEF unlike
<1> HIDE DEF r, s, d, e
<1>7. Account("live", x) /\ Open(x) /\ Twin(Unseen, "gold", x, s.db)
  BY <1>3, <1>6 DEF Sound, Paired, Done
<1> DEFINE y == SyncTools(x)
<1>8. /\ InStep("live", y)
      /\ \A f \in Fields \ {"bills", "request", "line_active", "roaming_allowed", "exceeded"} : y[f] = x[f]
      /\ y.bills = x.bills /\ y.request = x.request
  BY <1>3, <1>7, Compared, Syncs
<1> HIDE DEF y
<1>9. y.line_active = x.line_active
  <2>1. y.line_status = x.line_status
    BY <1>8 DEF Fields, AccountFields
  <2> QED
    BY <1>1, <1>3, <1>8, <2>1 DEF InStep, Derived
<1>10. Twin(Unseen, "gold", y, s.db)
  <2>1. \A f \in Fields \ {"roaming_allowed", "exceeded"} : y[f] = x[f]
    BY <1>8, <1>9
  <2>2. Shaped(y) /\ y.drawn = x.drawn
    BY <1>8, <2>1 DEF InStep, Account, Fields, AccountFields
  <2> QED
    BY <1>7, <2>1, <2>2 DEF Twin, Alike, Unseen
<1> QED
  BY <1>2, <1>3, <1>4, <1>8, <1>10 DEF y

LEMMA DetoursAreCalls == ASSUME NEW call \in DetourCalls PROVE call \in Calls
<1>1. \A r \in {"assistant", "user"} : WriteTools[r] \union OtherTools[r] \subseteq Tools
  BY DEF Tools, WriteTools, OtherTools
<1>2. /\ {"", "sms", "storage", "issued", "overdue", "draft", "draft2"} \subseteq Arguments
      /\ DOMAIN Technology \subseteq Arguments
  BY DEF Arguments, BillIds
<1>3. {"send_payment_request", "set_network_mode_preference", "grant_app_permission", "toggle_data",
       "no_such_tool"} \subseteq Tools
  BY DEF Tools, WriteTools
<1>4. CASE \E r \in {"assistant", "user"} :
             call \in {r} \X ((WriteTools[r] \union OtherTools[r]) \ {"send_payment_request", "set_network_mode_preference",
                                                                     "grant_app_permission"}) \X {""}
  <2>1. PICK r \in {"assistant", "user"} :
             call \in {r} \X ((WriteTools[r] \union OtherTools[r]) \ {"send_payment_request", "set_network_mode_preference",
                                                                     "grant_app_permission"}) \X {""}
    BY <1>4
  <2> DEFINE tools == (WriteTools[r] \union OtherTools[r]) \ {"send_payment_request", "set_network_mode_preference",
                                                              "grant_app_permission"}
  <2>2. tools \subseteq Tools /\ "send_payment_request" \notin tools
    BY <1>1
  <2>3. call \in {r} \X tools \X {""}
    BY <2>1
  <2> HIDE DEF tools
  <2> QED
    BY <1>2, <2>2, <2>3 DEF Calls
<1>5. ASSUME NEW r \in {"assistant", "user"}, NEW t \in Tools, NEW a \in Arguments,
             t = "send_payment_request" => a \in BillIds
      PROVE  <<r, t, a>> \in Calls
  BY <1>5 DEF Calls
<1>6. CASE \E b \in {"issued", "overdue", "draft", "draft2"} : call = Agent("send_payment_request", b)
  <2>1. PICK b \in {"issued", "overdue", "draft", "draft2"} : call = Agent("send_payment_request", b)
    BY <1>6
  <2>2. b \in Arguments /\ b \in BillIds /\ "send_payment_request" \in Tools
    BY <1>2, <1>3 DEF BillIds
  <2> QED
    BY <1>5, <2>1, <2>2 DEF Agent
<1>7. CASE \E m \in DOMAIN Technology : call = User("set_network_mode_preference", m)
  <2>1. PICK m \in DOMAIN Technology : call = User("set_network_mode_preference", m)
    BY <1>7
  <2>2. m \in Arguments /\ "set_network_mode_preference" \in Tools
    BY <1>2, <1>3
  <2> QED
    BY <1>5, <2>1, <2>2 DEF User
<1>8. CASE \E p \in {"sms", "storage"} : call = User("grant_app_permission", p)
  <2>1. PICK p \in {"sms", "storage"} : call = User("grant_app_permission", p)
    BY <1>8
  <2>2. p \in Arguments /\ "grant_app_permission" \in Tools
    BY <1>2, <1>3
  <2> QED
    BY <1>5, <2>1, <2>2 DEF User
<1>9. CASE call = Agent("toggle_data", "") \/ call = User("no_such_tool", "")
  <2>1. "" \in Arguments /\ "toggle_data" \in Tools /\ "no_such_tool" \in Tools
    BY <1>2, <1>3
  <2> QED
    BY <1>5, <1>9, <2>1 DEF Agent, User
<1>10. CASE call \in {Agent("send_payment_request", b) : b \in {"issued", "overdue", "draft", "draft2"}}
  BY <1>6, <1>10, Zenon
<1>11. CASE call \in {User("set_network_mode_preference", m) : m \in DOMAIN Technology}
  BY <1>7, <1>11, Zenon
<1>12. CASE call \in {User("grant_app_permission", p) : p \in {"sms", "storage"}}
  BY <1>8, <1>12, Zenon
<1>13. CASE call \in {Agent("toggle_data", ""), User("no_such_tool", "")}
  BY <1>9, <1>13, Zenon
<1>14. CASE call \in UNION {{r} \X ((WriteTools[r] \union OtherTools[r]) \ {"send_payment_request",
                              "set_network_mode_preference", "grant_app_permission"}) \X {""} :
                            r \in {"assistant", "user"}}
  BY <1>4, <1>14, Zenon
<1> QED
  BY <1>10, <1>11, <1>12, <1>13, <1>14, Zenon DEF DetourCalls

LEMMA TelecomKept == TelecomInv /\ [TelecomNext]_telecomVars => TelecomInv'
<1>1. ASSUME TelecomInv, UNCHANGED telecomVars PROVE TelecomInv'
  BY <1>1 DEF telecomVars, TelecomInv, TelecomTypes, Rebuilt, OnReference
<1>2. ASSUME TelecomInv, Detour PROVE TelecomInv'
  <2>1. PICK call \in DetourCalls : Perform(call, FALSE)
    BY <1>2 DEF Detour
  <2>2. call \in Calls
    BY DetoursAreCalls
  <2>3. InStep("live", env'["live"]) /\ Rebuilt'
    BY <1>2, <2>1, <2>2, Performed
  <2>4. TelecomTypes'
    BY <1>2, <2>1 DEF Detour, Perform, TelecomInv, TelecomTypes
  <2>5. detours' # 0
    BY <1>2 DEF Detour, TelecomInv, TelecomTypes
  <2> QED
    BY <2>3, <2>4, <2>5 DEF TelecomInv, OnReference
<1>3. ASSUME TelecomInv, NEW b \in issues, FixCall(b) PROVE TelecomInv'
  <2> DEFINE call == Head(todo[b])
  <2>1. /\ todo[b] # <<>> /\ Perform(call, TRUE) /\ todo' = [todo EXCEPT ![b] = Tail(@)]
        /\ detours' = detours /\ issues' = issues
    BY <1>3 DEF FixCall, Perform
  <2>2. DOMAIN todo = issues /\ todo[b] \in Seq(Calls) /\ detours \in Nat
    BY <1>3 DEF TelecomInv, TelecomTypes
  <2>3. call \in Calls /\ Tail(todo[b]) \in Seq(Calls)
    BY <2>1, <2>2, HeadTailProperties
  <2>4. InStep("live", env'["live"]) /\ Rebuilt'
    <3> HIDE DEF call
    <3> QED
      BY <1>3, <2>1, <2>3, Performed
  <2>5. \A i \in issues : todo'[i] = IF i = b THEN Tail(todo[b]) ELSE todo[i]
    BY <2>1, <2>2
  <2>6. TelecomTypes'
    BY <1>3, <2>1, <2>2, <2>3, <2>5 DEF TelecomInv, TelecomTypes
  <2>7. OnReference'
    <3> SUFFICES ASSUME "gold" \in Copies, detours = 0, "overdue_bill_suspension" \notin issues
                 PROVE  /\ \A i \in issues : todo'[i] \in Seq(RefCalls)
                        /\ env'["live"].request = NoRequest
                        /\ Twin(Unseen, "gold", env'["live"], env'["gold"])
      BY <2>1 DEF OnReference
    <3>1. /\ \A i \in issues : todo[i] \in Seq(RefCalls)
          /\ env["live"].request = NoRequest
          /\ Twin(Unseen, "gold", env["live"], env["gold"])
      BY <1>3 DEF TelecomInv, OnReference
    <3>2. call \in RefCalls /\ Tail(todo[b]) \in Seq(RefCalls)
      BY <2>1, <3>1, HeadTailProperties
    <3> HIDE DEF call
    <3>3. env'["live"].request = NoRequest /\ Twin(Unseen, "gold", env'["live"], env'["gold"])
      BY <1>3, <2>1, <3>1, <3>2, ReferencePerformed
    <3> QED
      BY <2>5, <3>1, <3>2, <3>3
  <2> QED
    BY <2>4, <2>6, <2>7 DEF TelecomInv
<1> QED
  BY <1>1, <1>2, <1>3 DEF TelecomNext

LEMMA TelecomCorrect == Spec => []TelecomInv
<1>1. Init => TelecomInv
  BY TelecomStart DEF Init
<1>2. [Next]_domainsVars => [TelecomNext]_telecomVars
  BY DEF Next, domainsVars, TelecomStep, BankingPlayed, RetailPlayed, AirlinePlayed
<1> QED
  BY <1>1, <1>2, TelecomKept, PTL DEF Spec

\* AwaitingIsRequested, of Telecom: a bill awaits payment exactly when the user has
\* a request for it, no more than one does, and sync_tools leaves no request
\* paid behind, whatever agent and user call.
THEOREM RequestsAgree == Spec => []AwaitingIsRequested
<1>1. TelecomInv => AwaitingIsRequested
  BY DEF TelecomInv, InStep, Agreed, AwaitingIsRequested
<1> QED
  BY <1>1, TelecomCorrect, PTL

\* Environments that agree but for the ids drawn are the same up to ids.
LEMMA TwinsUpToIds ==
  ASSUME NEW c, NEW k, NEW d, NEW e, Account(c, d), Twin({"drawn"}, k, d, e), c # "seed", k # "seed"
  PROVE  UpToIds(e) = UpToIds(d)
<1> DEFINE seed(x) == [b \in DOMAIN x.bills |-> x.drawn[b] = "seed"]
<1>1. d = [f \in Fields |-> d[f]] /\ e = [f \in Fields |-> e[f]]
  BY DEF Twin, Alike, Shaped
<1>2. \A f \in Fields \ {"drawn"} : d[f] = e[f]
  BY DEF Twin, Alike
<1>3. d.bills = e.bills /\ DOMAIN d.bills = BillIds
  BY <1>2 DEF Fields, AccountFields, Account
<1>4. seed(e) = seed(d)
  BY <1>3 DEF Twin
<1>5. UpToIds(d) = [d EXCEPT !.drawn = seed(d)] /\ UpToIds(e) = [e EXCEPT !.drawn = seed(e)]
  BY DEF UpToIds
<1> HIDE DEF seed
<1>6. UpToIds(d) = [f \in Fields |-> IF f = "drawn" THEN seed(d) ELSE d[f]]
  BY <1>1, <1>5 DEF Fields, AccountFields
<1>7. UpToIds(e) = [f \in Fields |-> IF f = "drawn" THEN seed(e) ELSE e[f]]
  BY <1>1, <1>5 DEF Fields, AccountFields
<1> QED
  BY <1>2, <1>4, <1>6, <1>7

\* What the evaluator rebuilds, brought in step, while no drawn id has been used.
LEMMA RebuiltUpToIds ==
  ASSUME TelecomInv, "replay" \in Copies, ~Used(env["live"])
  PROVE  ~diverged /\ UpToIds(SyncTools(env["replay"])) = UpToIds(env["live"])
<1> DEFINE d == env["live"]
           e == env["replay"]
<1>1. InStep("live", d) /\ Account("live", d)
  BY DEF TelecomInv, InStep
<1>2. ~diverged /\ Twin({"drawn"}, "replay", d, e)
  BY DEF TelecomInv, Rebuilt
<1> HIDE DEF d, e
<1>3. Open(d) /\ SyncTools(d) = d
  BY <1>1, AgreedIsOpen, SyncIdle DEF InStep
<1>4. Twin({"drawn"}, "replay", SyncTools(d), SyncTools(e))
  <2> DEFINE unlike == {"drawn"}
  <2>1. unlike \in SUBSET Unseen /\ Twin(unlike, "replay", d, e)
    BY <1>2 DEF Unseen
  <2> HIDE DEF unlike
  <2> QED
    BY <1>1, <1>3, <2>1, Syncs
<1>5. UpToIds(SyncTools(e)) = UpToIds(d)
  BY <1>1, <1>3, <1>4, TwinsUpToIds
<1> QED
  BY <1>2, <1>5 DEF d, e

\* ReplayFaithful, of Telecom: the environment the evaluator rebuilds from the
\* recorded calls is the live one up to ids drawn at random, and set_state does
\* not raise, unless a bill with such an id was used.
THEOREM ReplayRebuilds ==
  ASSUME "replay" \in Copies
  PROVE  Spec => []ReplayFaithful
<1>1. TelecomInv => ReplayFaithful
  <2>1. ASSUME TelecomInv, ~DrawnIdUsed PROVE ~Used(env["live"])
    <3>1. DOMAIN env["live"].bills = BillIds
      BY <2>1 DEF TelecomInv, InStep, Account
    <3> QED
      BY <2>1, <3>1 DEF Used, DrawnIdUsed
  <2> QED
    BY <2>1, RebuiltUpToIds DEF ReplayFaithful
<1> QED
  BY <1>1, TelecomCorrect, PTL

-----------------------------------------------------------------------------
(* The invariant of tasks whose fix calls alone are made: what is still wrong.*)

\* A task is broken by its issues and mended by their calls.  S are the issues,
\* n counts, for every base task, the fix calls not made yet: what is wrong with
\* phone and account d then, part by part.
BaseTasks == {TaskOrder[i] : i \in DOMAIN TaskOrder}
\* What a search of the network finds service by.
Serves(d) ==
  /\ ~d.sim_missing /\ d.sim_status = "active" /\ ~d.airplane_mode
  /\ d.apn_name # "broken" /\ d.line_active

SimSick(d, S, n) ==
  /\ d.sim_missing <=> n["unseat_sim_card"] > 0
  /\ d.sim_status = IF "lock_sim_card_pin" \in S THEN "locked_pin" ELSE "active"
AirSick(d, n) == d.airplane_mode <=> n["airplane_mode_on"] > 0
\* Either reset of the APN waits for the reboot that completes it.
ApnSick(d, n) ==
  LET a == n["break_apn_settings"]
      m == n["break_apn_mms_setting"]
  IN  /\ d.apn_name = "broken" => a = 2 \/ (a = 1 /\ d.apn_reset)
      /\ a = 2 => d.apn_name = "broken"
      /\ ~d.mmsc => m = 2 \/ (m = 1 /\ d.apn_reset)
      /\ m = 2 => ~d.mmsc
      /\ d.apn_reset => a = 1 \/ m = 1
\* The bill is asked for, paid, and the line resumed, in this order.
LineSick(d, S, n) ==
  LET o == n["overdue_bill_suspension"]
      bill == d.bills["overdue"]
  IN  /\ d.line_status \in {"active", "suspended"}
      /\ d.line_status = "suspended" <=> o > 1 \/ "contract_end_suspension" \in S
      /\ o = 4 \/ "contract_end_suspension" \in S => bill = "overdue"
      /\ o = 3 => bill = "awaiting"
      /\ o \in 0..2 => bill = IF "overdue_bill_suspension" \in S THEN "paid"
                              ELSE IF "contract_end_suspension" \in S THEN "overdue" ELSE "none"
      /\ o # 3 => d.request = NoRequest
\* The phone does not look for a network when the line is resumed, but when it
\* is rebooted: the last call for an overdue bill.
Reached(d, n) ==
  /\ d.status = "connected" => Serves(d)
  /\ Serves(d) /\ n["overdue_bill_suspension"] # 1 => d.status = "connected"
  /\ d.tech = IF d.status = "connected" THEN Technology[d.mode] ELSE "none"
ModeSick(d, n) == d.mode = IF n["bad_network_preference"] > 0 THEN "only_2g" ELSE "prefer_5g"
SpeedSick(d, n) ==
  /\ d.data <=> n["data_mode_off"] = 0
  /\ d.saver <=> n["data_saver_mode_on"] > 0
  /\ d.vpn <=> n["bad_vpn"] > 0
  /\ n["bad_vpn"] > 0 => d.vpn_poor
WifiSick(d, n) ==
  /\ d.wifi_calling <=> n["bad_wifi_calling"] > 0
  /\ n["bad_wifi_calling"] > 0 => d.mms_over_wifi
UsageSick(d, S, n) ==
  IF "data_usage_exceeded" \in S
  THEN d.data_used = 151 /\ d.data_refueling = IF n["data_usage_exceeded"] > 0 THEN 0 ELSE 20
  ELSE IF "data_usage_exceeded_no_refuel" \in S
  THEN d.data_used = 171 /\ d.data_refueling = 20
  ELSE d.data_used = 87 /\ d.data_refueling = 0
RoamSick(d, S, n) ==
  /\ d.roaming \in BOOLEAN
  /\ d.abroad => S \cap Roaming # {}
  /\ "user_abroad_roaming_disabled_off" \in S =>
       /\ d.abroad
       /\ d.roaming <=> n["user_abroad_roaming_disabled_off"] = 0
       /\ d.line_roaming <=> n["user_abroad_roaming_disabled_off"] < 2
  /\ "user_abroad_roaming_disabled_on" \in S =>
       /\ d.abroad /\ d.roaming
       /\ d.line_roaming <=> n["user_abroad_roaming_disabled_on"] = 0
  /\ "user_abroad_roaming_enabled_off" \in S =>
       /\ d.abroad /\ d.line_roaming
       /\ d.roaming <=> n["user_abroad_roaming_enabled_off"] = 0
  /\ S \cap Roaming = {} => ~d.roaming
AppSick(d, n) ==
  /\ "sms" \in d.permissions <=> n["break_app_both_permissions"] < 2 /\ n["break_app_sms_permission"] = 0
  /\ "storage" \in d.permissions <=> n["break_app_both_permissions"] = 0 /\ n["break_app_storage_permission"] = 0

Ailing(d, S, n) ==
  /\ SimSick(d, S, n) /\ AirSick(d, n) /\ ApnSick(d, n) /\ LineSick(d, S, n) /\ Reached(d, n)
  /\ ModeSick(d, n) /\ SpeedSick(d, n) /\ WifiSick(d, n) /\ UsageSick(d, S, n)
  /\ RoamSick(d, S, n) /\ AppSick(d, n)

\* The calls left in the state at hand; all of them where none will be made.
CallsLeft ==
  [b \in BaseTasks |-> IF b \notin issues THEN 0
                       ELSE IF issues \cap Unfixable = {} THEN Len(todo[b]) ELSE Len(Fixes(b))]
\* The next call for issue b when k are left.
NextFix(b, k) == Fixes(b)[Len(Fixes(b)) - k + 1]
LeftToDo ==
  /\ \A b \in issues : /\ Len(todo[b]) <= Len(Fixes(b))
                       /\ \A k \in 1..Len(todo[b]) : todo[b][k] = NextFix(b, Len(todo[b]) - k + 1)
  /\ issues \cap Unfixable # {} => \A b \in issues : todo[b] = <<>>
\* Issues that get in each other's way exclude each other.
OneOf(S, group) == \A a, b \in S \cap group : a = b
Suspensions == {"overdue_bill_suspension", "contract_end_suspension"}
ApnIssues == {"break_apn_settings", "break_apn_mms_setting"}
Composed(S) == S \subseteq BaseTasks /\ \A g \in {Roaming, Usage, Permissions, Suspensions, ApnIssues} : OneOf(S, g)
OfManager == issues \subseteq UNION SelectionSets[manager] /\ manager \in Managers
IssueInv == OfManager /\ Composed(issues) /\ (detours = 0 => LeftToDo /\ Ailing(env["live"], issues, CallsLeft))
-----------------------------------------------------------------------------
(* What is kept when only some fields and some issues are touched.         *)

\* Only the fields in F are touched.
Touches(F, d, x) == Shaped(x) /\ \A f \in Fields \ F : x[f] = d[f]
\* The calls left and the issues are the same but for those in B.
Counted(S, n) == n \in [BaseTasks -> 0..4] /\ \A b \in BaseTasks : n[b] > 0 => b \in S
Turns(B, S, n, T, m) == \A b \in BaseTasks \ B : m[b] = n[b] /\ (b \in T <=> b \in S)
Searched(x) ==
  /\ x.status = (IF Serves(x) THEN "connected" ELSE "no_service")
  /\ x.tech = (IF Serves(x) THEN Technology[x.mode] ELSE "none")

LEMMA BaseTasksAre ==
  BaseTasks = {"airplane_mode_on", "bad_network_preference", "bad_vpn", "bad_wifi_calling",
  "break_apn_mms_setting", "break_apn_settings", "break_app_both_permissions",
  "break_app_sms_permission", "break_app_storage_permission", "contract_end_suspension",
  "data_mode_off", "data_saver_mode_on", "data_usage_exceeded", "data_usage_exceeded_no_refuel",
  "lock_sim_card_pin", "overdue_bill_suspension", "unseat_sim_card",
  "user_abroad_roaming_disabled_off", "user_abroad_roaming_disabled_on",
  "user_abroad_roaming_enabled_off"}
<1>1. DOMAIN TaskOrder = 1..20
  BY DEF TaskOrder
<1>2. 1..20 = {1, 2, 3, 4, 5, 6, 7, 8, 9, 10, 11, 12, 13, 14, 15, 16, 17, 18, 19, 20}
  OBVIOUS
<1>3. BaseTasks = {TaskOrder[i] : i \in {1, 2, 3, 4, 5, 6, 7, 8, 9, 10, 11, 12, 13, 14, 15, 16, 17, 18, 19, 20}}
  BY <1>1, <1>2 DEF BaseTasks
<1> QED
  BY <1>3 DEF TaskOrder

LEMMA PartsKept ==
  ASSUME NEW d, NEW x, NEW S, NEW T, NEW n, NEW m, NEW F, NEW B, Touches(F, d, x), Turns(B, S, n, T, m)
  PROVE  /\ F \cap {"sim_missing", "sim_status"} = {} /\ B \cap {"unseat_sim_card", "lock_sim_card_pin"} = {}
            => (SimSick(d, S, n) => SimSick(x, T, m))
         /\ F \cap {"airplane_mode"} = {} /\ B \cap {"airplane_mode_on"} = {} => (AirSick(d, n) => AirSick(x, m))
         /\ F \cap {"apn_name", "apn_reset", "mmsc"} = {} /\ B \cap ApnIssues = {} => (ApnSick(d, n) => ApnSick(x, m))
         /\ F \cap {"line_status", "bills", "request"} = {} /\ B \cap Suspensions = {}
            => (LineSick(d, S, n) => LineSick(x, T, m))
         /\ F \cap {"status", "tech", "mode", "sim_missing", "sim_status", "airplane_mode", "apn_name", "line_active"} = {}
            /\ B \cap {"overdue_bill_suspension"} = {}
            => (Reached(d, n) => Reached(x, m))
         /\ F \cap {"mode"} = {} /\ B \cap {"bad_network_preference"} = {} => (ModeSick(d, n) => ModeSick(x, m))
         /\ F \cap {"data", "saver", "vpn", "vpn_poor"} = {} /\ B \cap {"data_mode_off", "data_saver_mode_on", "bad_vpn"} = {}
            => (SpeedSick(d, n) => SpeedSick(x, m))
         /\ F \cap {"wifi_calling", "mms_over_wifi"} = {} /\ B \cap {"bad_wifi_calling"} = {}
            => (WifiSick(d, n) => WifiSick(x, m))
         /\ F \cap {"data_used", "data_refueling"} = {} /\ B \cap Usage = {} => (UsageSick(d, S, n) => UsageSick(x, T, m))
         /\ F \cap {"roaming", "abroad", "line_roaming"} = {} /\ B \cap Roaming = {}
            => (RoamSick(d, S, n) => RoamSick(x, T, m))
         /\ F \cap {"permissions"} = {} /\ B \cap Permissions = {} => (AppSick(d, n) => AppSick(x, m))
<1>0. /\ \A f \in Fields : f \notin F => x[f] = d[f]
      /\ \A b \in BaseTasks : b \notin B => m[b] = n[b] /\ (b \in T <=> b \in S)
  BY DEF Touches, Turns
<1>f. {"sim_missing", "sim_status", "airplane_mode", "apn_name", "apn_reset", "mmsc", "line_status", "bills",
       "request", "status", "tech", "mode", "line_active", "data", "saver", "vpn", "vpn_poor", "wifi_calling",
       "mms_over_wifi", "data_used", "data_refueling", "roaming", "abroad", "line_roaming", "permissions"} \subseteq Fields
  BY DEF Fields, PhoneFields, AccountFields
<1>1. F \cap {"sim_missing", "sim_status"} = {} /\ B \cap {"unseat_sim_card", "lock_sim_card_pin"} = {}
      => (SimSick(d, S, n) => SimSick(x, T, m))
  BY <1>0, <1>f, BaseTasksAre DEF SimSick
<1>2. F \cap {"airplane_mode"} = {} /\ B \cap {"airplane_mode_on"} = {} => (AirSick(d, n) => AirSick(x, m))
  BY <1>0, <1>f, BaseTasksAre DEF AirSick
<1>3. F \cap {"apn_name", "apn_reset", "mmsc"} = {} /\ B \cap ApnIssues = {} => (ApnSick(d, n) => ApnSick(x, m))
  BY <1>0, <1>f, BaseTasksAre DEF ApnSick, ApnIssues
<1>4. F \cap {"line_status", "bills", "request"} = {} /\ B \cap Suspensions = {}
      => (LineSick(d, S, n) => LineSick(x, T, m))
  BY <1>0, <1>f, BaseTasksAre DEF LineSick, Suspensions
<1>5. F \cap {"status", "tech", "mode", "sim_missing", "sim_status", "airplane_mode", "apn_name", "line_active"} = {}
      /\ B \cap {"overdue_bill_suspension"} = {}
      => (Reached(d, n) => Reached(x, m))
  BY <1>0, <1>f, BaseTasksAre DEF Reached, Serves
<1>6. F \cap {"mode"} = {} /\ B \cap {"bad_network_preference"} = {} => (ModeSick(d, n) => ModeSick(x, m))
  BY <1>0, <1>f, BaseTasksAre DEF ModeSick
<1>7. F \cap {"data", "saver", "vpn", "vpn_poor"} = {} /\ B \cap {"data_mode_off", "data_saver_mode_on", "bad_vpn"} = {}
      => (SpeedSick(d, n) => SpeedSick(x, m))
  BY <1>0, <1>f, BaseTasksAre DEF SpeedSick
<1>8. F \cap {"wifi_calling", "mms_over_wifi"} = {} /\ B \cap {"bad_wifi_calling"} = {}
      => (WifiSick(d, n) => WifiSick(x, m))
  BY <1>0, <1>f, BaseTasksAre DEF WifiSick
<1>9. F \cap {"data_used", "data_refueling"} = {} /\ B \cap Usage = {} => (UsageSick(d, S, n) => UsageSick(x, T, m))
  BY <1>0, <1>f, BaseTasksAre DEF UsageSick, Usage
<1>10. F \cap {"roaming", "abroad", "line_roaming"} = {} /\ B \cap Roaming = {}
       => (RoamSick(d, S, n) => RoamSick(x, T, m))
  BY <1>0, <1>f, BaseTasksAre DEF RoamSick, Roaming
<1>11. F \cap {"permissions"} = {} /\ B \cap Permissions = {} => (AppSick(d, n) => AppSick(x, m))
  BY <1>0, <1>f, BaseTasksAre DEF AppSick, Permissions
<1> QED
  BY <1>1, <1>2, <1>3, <1>4, <1>5, <1>6, <1>7, <1>8, <1>9, <1>10, <1>11

LEMMA SearchedReaches ==
  ASSUME NEW x, NEW n, Searched(x)
  PROVE  Reached(x, n)
BY DEF Searched, Reached

Put(d, f, v) == [d EXCEPT ![f] = v]

LEMMA PutTouches ==
  ASSUME NEW d, Shaped(d), NEW f \in Fields, NEW v
  PROVE  Touches({f}, d, Put(d, f, v)) /\ Put(d, f, v)[f] = v
BY FieldSet DEF Put, Touches

LEMMA TouchesOn ==
  ASSUME NEW d, NEW x, NEW y, NEW F, NEW G, Touches(F, d, x), Touches(G, x, y)
  PROVE  Touches(F \cup G, d, y)
BY DEF Touches

LEMMA TwoTouched ==
  ASSUME NEW d, Shaped(d), NEW f \in Fields, NEW v, NEW g \in Fields, NEW w, f # g
  PROVE  /\ Touches({f, g}, d, Put(Put(d, f, v), g, w))
         /\ Put(Put(d, f, v), g, w)[f] = v
         /\ Put(Put(d, f, v), g, w)[g] = w
<1> DEFINE e == Put(d, f, v)
           x == Put(e, g, w)
<1>1. Touches({f}, d, e) /\ e[f] = v
  BY PutTouches
<1> HIDE DEF e
<1>2. Touches({g}, e, x) /\ x[g] = w
  BY <1>1, PutTouches DEF Touches
<1> HIDE DEF x
<1>3. Touches({f} \cup {g}, d, x)
  BY <1>1, <1>2, TouchesOn
<1>4. {f} \cup {g} = {f, g}
  OBVIOUS
<1>5. x[f] = v
  BY <1>1, <1>2 DEF Touches
<1>6. Touches({f, g}, d, x) /\ x[f] = v /\ x[g] = w
  BY <1>2, <1>3, <1>4, <1>5
<1> QED
  BY <1>6 DEF x, e

LEMMA SearchIs ==
  ASSUME NEW d, Shaped(d)
  PROVE  Touches({"status", "tech"}, d, SimulateNetworkSearch(d)) /\ Searched(SimulateNetworkSearch(d))
<1> DEFINE status == IF Serves(d) THEN "connected" ELSE "no_service"
           tech == IF Serves(d) THEN Technology[d.mode] ELSE "none"
           x == Put(Put(d, "status", status), "tech", tech)
<1>1. SimulateNetworkSearch(d) = x
  <2>1. SimStatus(d) = "active" <=> ~d.sim_missing /\ d.sim_status = "active"
    BY DEF SimStatus
  <2> QED
    BY <2>1 DEF SimulateNetworkSearch, Serves, Put
<1>2. "status" \in Fields /\ "tech" \in Fields
  BY DEF Fields, PhoneFields
<1> HIDE DEF status, tech
<1>3. Touches({"status", "tech"}, d, x) /\ x["status"] = status /\ x["tech"] = tech
  BY <1>2, TwoTouched
<1> HIDE DEF x
<1>4. /\ x.sim_missing = d.sim_missing /\ x.sim_status = d.sim_status /\ x.airplane_mode = d.airplane_mode
      /\ x.apn_name = d.apn_name /\ x.line_active = d.line_active /\ x.mode = d.mode
  BY <1>3 DEF Touches, Fields, PhoneFields, AccountFields
<1>5. Searched(x)
  BY <1>3, <1>4 DEF Searched, Serves, status, tech
<1> QED
  BY <1>1, <1>3, <1>5

LEMMA PutAndSearched ==
  ASSUME NEW d, Shaped(d), NEW f \in Fields \ {"status", "tech"}, NEW v
  PROVE  /\ Touches({f, "status", "tech"}, d, SimulateNetworkSearch(Put(d, f, v)))
         /\ SimulateNetworkSearch(Put(d, f, v))[f] = v
         /\ Searched(SimulateNetworkSearch(Put(d, f, v)))
<1> DEFINE e == Put(d, f, v)
           x == SimulateNetworkSearch(e)
<1>1. Touches({f}, d, e) /\ e[f] = v
  BY PutTouches
<1> HIDE DEF e
<1>2. Touches({"status", "tech"}, e, x) /\ Searched(x)
  BY <1>1, SearchIs DEF Touches
<1> HIDE DEF x
<1>3. Touches({f} \cup {"status", "tech"}, d, x)
  BY <1>1, <1>2, TouchesOn
<1>4. {f} \cup {"status", "tech"} = {f, "status", "tech"}
  OBVIOUS
<1>5. x[f] = v
  BY <1>1, <1>2 DEF Touches
<1>6. Touches({f, "status", "tech"}, d, x) /\ x[f] = v /\ Searched(x)
  BY <1>2, <1>3, <1>4, <1>5
<1> QED
  BY <1>6 DEF x, e

LEMMA TwoAndSearched ==
  ASSUME NEW d, Shaped(d), NEW f \in Fields \ {"status", "tech"}, NEW v,
         NEW g \in Fields \ {"status", "tech"}, NEW w, f # g
  PROVE  /\ Touches({f, g, "status", "tech"}, d, SimulateNetworkSearch(Put(Put(d, f, v), g, w)))
         /\ SimulateNetworkSearch(Put(Put(d, f, v), g, w))[f] = v
         /\ SimulateNetworkSearch(Put(Put(d, f, v), g, w))[g] = w
         /\ Searched(SimulateNetworkSearch(Put(Put(d, f, v), g, w)))
<1> DEFINE e == Put(Put(d, f, v), g, w)
           x == SimulateNetworkSearch(e)
<1>1. Touches({f, g}, d, e) /\ e[f] = v /\ e[g] = w
  BY TwoTouched
<1> HIDE DEF e
<1>2. Touches({"status", "tech"}, e, x) /\ Searched(x)
  BY <1>1, SearchIs DEF Touches
<1> HIDE DEF x
<1>3. Touches({f, g} \cup {"status", "tech"}, d, x)
  BY <1>1, <1>2, TouchesOn
<1>4. {f, g} \cup {"status", "tech"} = {f, g, "status", "tech"}
  OBVIOUS
<1>5. x[f] = v /\ x[g] = w
  BY <1>1, <1>2 DEF Touches
<1>6. Touches({f, g, "status", "tech"}, d, x) /\ x[f] = v /\ x[g] = w /\ Searched(x)
  BY <1>2, <1>3, <1>4, <1>5
<1> QED
  BY <1>6 DEF x, e

\* A tool of the phone: sync_tools finds nothing to do after it.
LEMMA OnlyPhone ==
  ASSUME NEW c, NEW d, InStep(c, d), NEW F \in SUBSET PhoneFields, NEW x, Touches(F, d, x)
  PROVE  InStep(c, x) /\ Then(Done(x)) = x
<1>1. \A f \in AccountFields : f \in Fields /\ f \notin F
  BY DEF Fields, PhoneFields, AccountFields
<1>2. \A f \in AccountFields : x[f] = d[f]
  BY <1>1 DEF Touches
<1>3. Moves({}, d, d, x, x)
  BY <1>2 DEF Moves, Alike, Touches
<1>4. InStep(c, x)
  BY <1>3, PhoneCallAlone
<1> QED
  BY <1>4, SyncIdle DEF Then, Done

-----------------------------------------------------------------------------
(* What the tools of the phone do, each alone.                             *)

SearchedAfter(F, d, x) == Touches(F \cup {"status", "tech"}, d, x) /\ Searched(x)

LEMMA Puts ==
  ASSUME NEW d, Shaped(d), NEW f \in Fields \ {"status", "tech"}, NEW v
  PROVE  /\ SearchedAfter({f}, d, SimulateNetworkSearch(Put(d, f, v)))
         /\ SimulateNetworkSearch(Put(d, f, v))[f] = v
<1>1. {f} \cup {"status", "tech"} = {f, "status", "tech"}
  OBVIOUS
<1> QED
  BY <1>1, PutAndSearched DEF SearchedAfter

LEMMA PhoneFieldsAre ==
  /\ "airplane_mode" \in Fields \ {"status", "tech"} /\ "sim_missing" \in Fields \ {"status", "tech"}
  /\ "sim_status" \in Fields \ {"status", "tech"} /\ "mode" \in Fields \ {"status", "tech"}
  /\ "data" \in Fields \ {"status", "tech"} /\ "roaming" \in Fields \ {"status", "tech"}
  /\ "apn_name" \in Fields \ {"status", "tech"} /\ "apn_reset" \in Fields \ {"status", "tech"}
  /\ "mmsc" \in Fields \ {"status", "tech"} /\ "wifi_calling" \in Fields \ {"status", "tech"}
  /\ "mms_over_wifi" \in Fields \ {"status", "tech"} /\ "saver" \in Fields \ {"status", "tech"}
  /\ "vpn" \in Fields \ {"status", "tech"} /\ "vpn_poor" \in Fields \ {"status", "tech"}
  /\ "permissions" \in Fields \ {"status", "tech"} /\ "abroad" \in Fields \ {"status", "tech"}
  /\ PhoneFields \subseteq Fields
BY DEF Fields, PhoneFields

LEMMA PutOne ==
  ASSUME NEW d, Shaped(d), NEW f \in Fields \ {"status", "tech"}, NEW v, NEW x, x = Put(d, f, v)
  PROVE  Touches({f}, d, x) /\ x[f] = v
BY PutTouches

LEMMA PutTwo ==
  ASSUME NEW d, Shaped(d), NEW f \in Fields \ {"status", "tech"}, NEW v,
         NEW g \in Fields \ {"status", "tech"}, NEW w, f # g,
         NEW x, x = Put(Put(d, f, v), g, w)
  PROVE  Touches({f, g}, d, x) /\ x[f] = v /\ x[g] = w
BY TwoTouched

LEMMA PutSearch ==
  ASSUME NEW d, Shaped(d), NEW f \in Fields \ {"status", "tech"}, NEW v,
         NEW x, x = SimulateNetworkSearch(Put(d, f, v))
  PROVE  SearchedAfter({f}, d, x) /\ x[f] = v
BY Puts

LEMMA ModeIsSet ==
  ASSUME NEW d, Shaped(d), NEW m
  PROVE  SearchedAfter({"mode"}, d, SetNetworkMode(d, m)) /\ SetNetworkMode(d, m).mode = m
<1>1. SetNetworkMode(d, m) = SimulateNetworkSearch(Put(d, "mode", m))
  BY DEF SetNetworkMode, Put
<1>2. "mode" \in Fields \ {"status", "tech"}
  BY PhoneFieldsAre, Zenon
<1> QED
  BY <1>1, <1>2, PutSearch

LEMMA SearchersDo ==
  ASSUME NEW d, Shaped(d)
  PROVE  /\ SearchedAfter({"sim_missing"}, d, ReseatSim(d)) /\ ReseatSim(d).sim_missing = FALSE
         /\ SearchedAfter({"sim_missing"}, d, UnseatSim(d)) /\ UnseatSim(d).sim_missing = TRUE
         /\ SearchedAfter({"sim_status"}, d, LockSim(d)) /\ LockSim(d).sim_status = "locked_pin"
         /\ SearchedAfter({"data"}, d, ToggleData(d)) /\ (ToggleData(d).data <=> ~d.data)
         /\ SearchedAfter({"roaming"}, d, ToggleRoaming(d)) /\ (ToggleRoaming(d).roaming <=> ~d.roaming)
         /\ ToggleRoaming(d).roaming \in BOOLEAN
         /\ SearchedAfter({"apn_reset"}, d, ResetApn(d)) /\ ResetApn(d).apn_reset = TRUE
         /\ SearchedAfter({"apn_name"}, d, BreakApn(d)) /\ BreakApn(d).apn_name = "broken"
<1>2. SearchedAfter({"sim_missing"}, d, ReseatSim(d)) /\ ReseatSim(d).sim_missing = FALSE
  <2> DEFINE v == FALSE
  <2>1. ReseatSim(d) = SimulateNetworkSearch(Put(d, "sim_missing", v))
    BY DEF ReseatSim, Put
  <2> HIDE DEF v
  <2>2. "sim_missing" \in Fields \ {"status", "tech"}
    BY PhoneFieldsAre, Zenon
  <2>3. SearchedAfter({"sim_missing"}, d, ReseatSim(d)) /\ ReseatSim(d).sim_missing = v
    BY <2>1, <2>2, PutSearch
  <2> QED
    BY <2>3 DEF v
<1>3. SearchedAfter({"sim_missing"}, d, UnseatSim(d)) /\ UnseatSim(d).sim_missing = TRUE
  <2> DEFINE v == TRUE
  <2>1. UnseatSim(d) = SimulateNetworkSearch(Put(d, "sim_missing", v))
    BY DEF UnseatSim, Put
  <2> HIDE DEF v
  <2>2. "sim_missing" \in Fields \ {"status", "tech"}
    BY PhoneFieldsAre, Zenon
  <2>3. SearchedAfter({"sim_missing"}, d, UnseatSim(d)) /\ UnseatSim(d).sim_missing = v
    BY <2>1, <2>2, PutSearch
  <2> QED
    BY <2>3 DEF v
<1>4. SearchedAfter({"sim_status"}, d, LockSim(d)) /\ LockSim(d).sim_status = "locked_pin"
  <2> DEFINE v == "locked_pin"
  <2>1. LockSim(d) = SimulateNetworkSearch(Put(d, "sim_status", v))
    BY DEF LockSim, Put
  <2> HIDE DEF v
  <2>2. "sim_status" \in Fields \ {"status", "tech"}
    BY PhoneFieldsAre, Zenon
  <2>3. SearchedAfter({"sim_status"}, d, LockSim(d)) /\ LockSim(d).sim_status = v
    BY <2>1, <2>2, PutSearch
  <2> QED
    BY <2>3 DEF v
<1>5. SearchedAfter({"data"}, d, ToggleData(d)) /\ (ToggleData(d).data <=> ~d.data)
  <2> DEFINE v == ~d.data
  <2>1. ToggleData(d) = SimulateNetworkSearch(Put(d, "data", v))
    BY DEF ToggleData, Put
  <2> HIDE DEF v
  <2>2. "data" \in Fields \ {"status", "tech"}
    BY PhoneFieldsAre, Zenon
  <2>3. SearchedAfter({"data"}, d, ToggleData(d)) /\ ToggleData(d).data = v
    BY <2>1, <2>2, PutSearch
  <2> QED
    BY <2>3 DEF v
<1>6. /\ SearchedAfter({"roaming"}, d, ToggleRoaming(d)) /\ (ToggleRoaming(d).roaming <=> ~d.roaming)
      /\ ToggleRoaming(d).roaming \in BOOLEAN
  <2> DEFINE v == ~d.roaming
  <2>1. ToggleRoaming(d) = SimulateNetworkSearch(Put(d, "roaming", v))
    BY DEF ToggleRoaming, Put
  <2> HIDE DEF v
  <2>2. "roaming" \in Fields \ {"status", "tech"}
    BY PhoneFieldsAre, Zenon
  <2>3. SearchedAfter({"roaming"}, d, ToggleRoaming(d)) /\ ToggleRoaming(d).roaming = v
    BY <2>1, <2>2, PutSearch
  <2> QED
    BY <2>3 DEF v
<1>7. SearchedAfter({"apn_reset"}, d, ResetApn(d)) /\ ResetApn(d).apn_reset = TRUE
  <2> DEFINE v == TRUE
  <2>1. ResetApn(d) = SimulateNetworkSearch(Put(d, "apn_reset", v))
    BY DEF ResetApn, Put
  <2> HIDE DEF v
  <2>2. "apn_reset" \in Fields \ {"status", "tech"}
    BY PhoneFieldsAre, Zenon
  <2>3. SearchedAfter({"apn_reset"}, d, ResetApn(d)) /\ ResetApn(d).apn_reset = v
    BY <2>1, <2>2, PutSearch
  <2> QED
    BY <2>3 DEF v
<1>8. SearchedAfter({"apn_name"}, d, BreakApn(d)) /\ BreakApn(d).apn_name = "broken"
  <2> DEFINE v == "broken"
  <2>1. BreakApn(d) = SimulateNetworkSearch(Put(d, "apn_name", v))
    BY DEF BreakApn, Put
  <2> HIDE DEF v
  <2>2. "apn_name" \in Fields \ {"status", "tech"}
    BY PhoneFieldsAre, Zenon
  <2>3. SearchedAfter({"apn_name"}, d, BreakApn(d)) /\ BreakApn(d).apn_name = v
    BY <2>1, <2>2, PutSearch
  <2> QED
    BY <2>3 DEF v
<1> QED
  BY <1>2, <1>3, <1>4, <1>5, <1>6, <1>7, <1>8

LEMMA PermissionIsSet ==
  ASSUME NEW d, Shaped(d), NEW p
  PROVE  /\ Touches({"permissions"}, d, GrantPermission(d, p))
         /\ GrantPermission(d, p).permissions = d.permissions \cup {p}
         /\ Touches({"permissions"}, d, RemovePermission(d, p))
         /\ RemovePermission(d, p).permissions = d.permissions \ {p}
<1> DEFINE more == d.permissions \cup {p}
           less == d.permissions \ {p}
<1>1. GrantPermission(d, p) = Put(d, "permissions", more) /\ RemovePermission(d, p) = Put(d, "permissions", less)
  BY DEF GrantPermission, RemovePermission, Put
<1> HIDE DEF more, less
<1>2. "permissions" \in Fields \ {"status", "tech"}
  BY PhoneFieldsAre, Zenon
<1>3. /\ Touches({"permissions"}, d, GrantPermission(d, p)) /\ GrantPermission(d, p).permissions = more
      /\ Touches({"permissions"}, d, RemovePermission(d, p)) /\ RemovePermission(d, p).permissions = less
  BY <1>1, <1>2, PutOne
<1> QED
  BY <1>3 DEF more, less

LEMMA SettersDo ==
  ASSUME NEW d, Shaped(d)
  PROVE  /\ Touches({"saver"}, d, ToggleDataSaver(d)) /\ (ToggleDataSaver(d).saver <=> ~d.saver)
         /\ Touches({"wifi_calling"}, d, ToggleWifiCalling(d)) /\ (ToggleWifiCalling(d).wifi_calling <=> ~d.wifi_calling)
         /\ Touches({"wifi_calling", "mms_over_wifi"}, d, SetWifiCallingOn(d))
         /\ SetWifiCallingOn(d).wifi_calling = TRUE /\ SetWifiCallingOn(d).mms_over_wifi = TRUE
         /\ Touches({"mmsc"}, d, BreakApnMms(d)) /\ BreakApnMms(d).mmsc = FALSE
         /\ Touches({"vpn"}, d, DisconnectVpn(d)) /\ DisconnectVpn(d).vpn = FALSE
         /\ Touches({"vpn", "vpn_poor"}, d, BreakVpn(d)) /\ BreakVpn(d).vpn = TRUE /\ BreakVpn(d).vpn_poor = TRUE

<1>1. Touches({"saver"}, d, ToggleDataSaver(d)) /\ (ToggleDataSaver(d).saver <=> ~d.saver)
  <2> DEFINE v == ~d.saver
  <2>1. ToggleDataSaver(d) = Put(d, "saver", v)
    BY DEF ToggleDataSaver, Put
  <2> HIDE DEF v
  <2>2. "saver" \in Fields \ {"status", "tech"}
    BY PhoneFieldsAre, Zenon
  <2>3. Touches({"saver"}, d, ToggleDataSaver(d)) /\ ToggleDataSaver(d).saver = v
    BY <2>1, <2>2, PutOne
  <2> QED
    BY <2>3 DEF v
<1>2. Touches({"wifi_calling"}, d, ToggleWifiCalling(d)) /\ (ToggleWifiCalling(d).wifi_calling <=> ~d.wifi_calling)
  <2> DEFINE v == ~d.wifi_calling
  <2>1. ToggleWifiCalling(d) = Put(d, "wifi_calling", v)
    BY DEF ToggleWifiCalling, Put
  <2> HIDE DEF v
  <2>2. "wifi_calling" \in Fields \ {"status", "tech"}
    BY PhoneFieldsAre, Zenon
  <2>3. Touches({"wifi_calling"}, d, ToggleWifiCalling(d)) /\ ToggleWifiCalling(d).wifi_calling = v
    BY <2>1, <2>2, PutOne
  <2> QED
    BY <2>3 DEF v
<1>3. /\ Touches({"wifi_calling", "mms_over_wifi"}, d, SetWifiCallingOn(d))
      /\ SetWifiCallingOn(d).wifi_calling = TRUE /\ SetWifiCallingOn(d).mms_over_wifi = TRUE
  <2> DEFINE yes == TRUE
  <2>1. SetWifiCallingOn(d) = Put(Put(d, "wifi_calling", yes), "mms_over_wifi", yes)
    BY DEF SetWifiCallingOn, Put
  <2> HIDE DEF yes
  <2>2. "wifi_calling" \in Fields \ {"status", "tech"} /\ "mms_over_wifi" \in Fields \ {"status", "tech"}
    BY PhoneFieldsAre, Zenon
  <2>3. /\ Touches({"wifi_calling", "mms_over_wifi"}, d, SetWifiCallingOn(d))
        /\ SetWifiCallingOn(d).wifi_calling = yes /\ SetWifiCallingOn(d).mms_over_wifi = yes
    BY <2>1, <2>2, PutTwo
  <2> QED
    BY <2>3 DEF yes
<1>4. Touches({"mmsc"}, d, BreakApnMms(d)) /\ BreakApnMms(d).mmsc = FALSE
  <2> DEFINE v == FALSE
  <2>1. BreakApnMms(d) = Put(d, "mmsc", v)
    BY DEF BreakApnMms, Put
  <2> HIDE DEF v
  <2>2. "mmsc" \in Fields \ {"status", "tech"}
    BY PhoneFieldsAre, Zenon
  <2>3. Touches({"mmsc"}, d, BreakApnMms(d)) /\ BreakApnMms(d).mmsc = v
    BY <2>1, <2>2, PutOne
  <2> QED
    BY <2>3 DEF v
<1>5. Touches({"vpn"}, d, DisconnectVpn(d)) /\ DisconnectVpn(d).vpn = FALSE
  <2> DEFINE v == FALSE
  <2>1. DisconnectVpn(d) = Put(d, "vpn", v)
    BY DEF DisconnectVpn, Put
  <2> HIDE DEF v
  <2>2. "vpn" \in Fields \ {"status", "tech"}
    BY PhoneFieldsAre, Zenon
  <2>3. Touches({"vpn"}, d, DisconnectVpn(d)) /\ DisconnectVpn(d).vpn = v
    BY <2>1, <2>2, PutOne
  <2> QED
    BY <2>3 DEF v
<1>6. Touches({"vpn", "vpn_poor"}, d, BreakVpn(d)) /\ BreakVpn(d).vpn = TRUE /\ BreakVpn(d).vpn_poor = TRUE
  <2> DEFINE yes == TRUE
  <2>1. BreakVpn(d) = Put(Put(d, "vpn", yes), "vpn_poor", yes)
    BY DEF BreakVpn, ConnectVpn, Put
  <2> HIDE DEF yes
  <2>2. "vpn" \in Fields \ {"status", "tech"} /\ "vpn_poor" \in Fields \ {"status", "tech"}
    BY PhoneFieldsAre, Zenon
  <2>3. Touches({"vpn", "vpn_poor"}, d, BreakVpn(d)) /\ BreakVpn(d).vpn = yes /\ BreakVpn(d).vpn_poor = yes
    BY <2>1, <2>2, PutTwo
  <2> QED
    BY <2>3 DEF yes
<1> QED
  BY <1>1, <1>2, <1>3, <1>4, <1>5, <1>6

LEMMA AirplaneDoes ==
  ASSUME NEW d, Shaped(d)
  PROVE  /\ SearchedAfter({"airplane_mode", "vpn"}, d, ToggleAirplaneMode(d))
         /\ (ToggleAirplaneMode(d).airplane_mode <=> ~d.airplane_mode)
         /\ (ToggleAirplaneMode(d).vpn <=> d.vpn /\ d.airplane_mode)
<1> DEFINE on == ~d.airplane_mode
           vpn == d.vpn /\ d.airplane_mode
<1>1. ToggleAirplaneMode(d) = SimulateNetworkSearch(Put(Put(d, "airplane_mode", on), "vpn", vpn))
  BY DEF ToggleAirplaneMode, Put
<1> HIDE DEF on, vpn
<1>2. {"airplane_mode", "vpn"} \cup {"status", "tech"} = {"airplane_mode", "vpn", "status", "tech"}
  OBVIOUS
<1>4. "airplane_mode" \in Fields \ {"status", "tech"} /\ "vpn" \in Fields \ {"status", "tech"}
  BY PhoneFieldsAre, Zenon
<1>3. /\ SearchedAfter({"airplane_mode", "vpn"}, d, ToggleAirplaneMode(d))
      /\ ToggleAirplaneMode(d).airplane_mode = on /\ ToggleAirplaneMode(d).vpn = vpn
  BY <1>1, <1>2, <1>4, TwoAndSearched DEF SearchedAfter
<1> QED
  BY <1>3 DEF on, vpn

LEMMA RebootDoes ==
  ASSUME NEW d, Shaped(d)
  PROVE  /\ SearchedAfter({"apn_name", "apn_reset", "mmsc"}, d, RebootDevice(d))
         /\ d.apn_reset => /\ RebootDevice(d).apn_name = "internet" /\ ~RebootDevice(d).apn_reset
                           /\ RebootDevice(d).mmsc
         /\ ~d.apn_reset => /\ RebootDevice(d).apn_name = d.apn_name /\ RebootDevice(d).apn_reset = d.apn_reset
                            /\ RebootDevice(d).mmsc = d.mmsc
<1> DEFINE x == RebootDevice(d)
<1>0. /\ "apn_name" \in Fields \ {"status", "tech"} /\ "apn_reset" \in Fields \ {"status", "tech"}
      /\ "mmsc" \in Fields \ {"status", "tech"}
  BY PhoneFieldsAre, Zenon
<1>1. CASE d.apn_reset
  <2> DEFINE no == FALSE
             yes == TRUE
             e == Put(Put(d, "apn_name", "internet"), "apn_reset", no)
             y == Put(e, "mmsc", yes)
  <2>1. x = SimulateNetworkSearch(y)
    BY <1>1 DEF RebootDevice, Put
  <2> HIDE DEF no, yes
  <2>2. Touches({"apn_name", "apn_reset"}, d, e) /\ e["apn_name"] = "internet" /\ e["apn_reset"] = no
    BY <1>0, TwoTouched
  <2> HIDE DEF e, x
  <2>3. SearchedAfter({"mmsc"}, e, x) /\ x["mmsc"] = yes
    BY <2>1, <2>2, <1>0, PutSearch DEF Touches
  <2> HIDE DEF y
  <2>4. Touches({"apn_name", "apn_reset"} \cup ({"mmsc"} \cup {"status", "tech"}), d, x) /\ Searched(x)
    BY <2>2, <2>3, TouchesOn DEF SearchedAfter
  <2>5. {"apn_name", "apn_reset"} \cup ({"mmsc"} \cup {"status", "tech"})
        = {"apn_name", "apn_reset", "mmsc"} \cup {"status", "tech"}
    OBVIOUS
  <2>6. x.apn_name = "internet" /\ x.apn_reset = no
    BY <2>2, <2>3, <1>0 DEF SearchedAfter, Touches
  <2> QED
    BY <1>1, <2>3, <2>4, <2>5, <2>6 DEF SearchedAfter, x, no, yes
<1>2. CASE ~d.apn_reset
  <2>1. x = SimulateNetworkSearch(d)
    BY <1>2 DEF RebootDevice
  <2> HIDE DEF x
  <2>2. Touches({"status", "tech"}, d, x) /\ Searched(x)
    BY <2>1, SearchIs
  <2>3. SearchedAfter({"apn_name", "apn_reset", "mmsc"}, d, x)
    BY <2>2 DEF SearchedAfter, Touches
  <2>4. x.apn_name = d.apn_name /\ x.apn_reset = d.apn_reset /\ x.mmsc = d.mmsc
    BY <2>2, PhoneFieldsAre DEF Touches
  <2> QED
    BY <1>2, <2>3, <2>4 DEF x
<1> QED
  BY <1>1, <1>2

-----------------------------------------------------------------------------
(* What a call of the reference leaves in the live environment.            *)

After(call, d) == GetResponse("live", call, d).db

LEMMA PhoneAfter ==
  ASSUME NEW d, InStep("live", d), NEW call, NEW x, MakeToolCall("live", call, d) = Done(x),
         NEW F \in SUBSET PhoneFields, Touches(F, d, x)
  PROVE  After(call, d) = x
<1>1. SyncTools(x) = x
  BY OnlyPhone, SyncIdle
<1> QED
  BY <1>1 DEF After, GetResponse, Done

LEMMA PhoneCallsDo ==
  ASSUME NEW d, InStep("live", d)
  PROVE  /\ After(User("toggle_airplane_mode", ""), d) = ToggleAirplaneMode(d)
         /\ After(User("reseat_sim_card", ""), d) = ReseatSim(d)
         /\ After(User("reset_apn_settings", ""), d) = ResetApn(d)
         /\ After(User("reboot_device", ""), d) = RebootDevice(d)
         /\ After(User("set_network_mode_preference", "prefer_5g"), d) = SetNetworkMode(d, "prefer_5g")
         /\ After(User("disconnect_vpn", ""), d) = DisconnectVpn(d)
         /\ After(User("toggle_data", ""), d) = ToggleData(d)
         /\ After(User("toggle_data_saver_mode", ""), d) = ToggleDataSaver(d)
         /\ After(User("toggle_roaming", ""), d) = ToggleRoaming(d)
         /\ After(User("toggle_wifi_calling", ""), d) = ToggleWifiCalling(d)
         /\ After(User("grant_app_permission", "sms"), d) = GrantPermission(d, "sms")
         /\ After(User("grant_app_permission", "storage"), d) = GrantPermission(d, "storage")
<1>0. Shaped(d)
  BY DEF InStep, Account
<1>1. After(User("toggle_airplane_mode", ""), d) = ToggleAirplaneMode(d)
  <2>1. MakeToolCall("live", User("toggle_airplane_mode", ""), d) = Done(ToggleAirplaneMode(d))
    BY DEF MakeToolCall, User, WriteTools, OtherTools
  <2>2. Touches({"airplane_mode", "vpn", "status", "tech"}, d, ToggleAirplaneMode(d))
    <3>1. SearchedAfter({"airplane_mode", "vpn"}, d, ToggleAirplaneMode(d))
      BY <1>0, AirplaneDoes
    <3>2. {"airplane_mode", "vpn"} \cup {"status", "tech"} = {"airplane_mode", "vpn", "status", "tech"}
      OBVIOUS
    <3> QED
      BY <3>1, <3>2 DEF SearchedAfter
  <2>3. {"airplane_mode", "vpn", "status", "tech"} \in SUBSET PhoneFields
    BY DEF PhoneFields
  <2> QED
    BY <2>1, <2>2, <2>3, PhoneAfter
<1>2. After(User("reseat_sim_card", ""), d) = ReseatSim(d)
  <2>1. MakeToolCall("live", User("reseat_sim_card", ""), d) = Done(ReseatSim(d))
    BY DEF MakeToolCall, User, WriteTools, OtherTools
  <2>2. Touches({"sim_missing", "status", "tech"}, d, ReseatSim(d))
    <3>1. SearchedAfter({"sim_missing"}, d, ReseatSim(d))
      BY <1>0, SearchersDo
    <3>2. {"sim_missing"} \cup {"status", "tech"} = {"sim_missing", "status", "tech"}
      OBVIOUS
    <3> QED
      BY <3>1, <3>2 DEF SearchedAfter
  <2>3. {"sim_missing", "status", "tech"} \in SUBSET PhoneFields
    BY DEF PhoneFields
  <2> QED
    BY <2>1, <2>2, <2>3, PhoneAfter
<1>3. After(User("reset_apn_settings", ""), d) = ResetApn(d)
  <2>1. MakeToolCall("live", User("reset_apn_settings", ""), d) = Done(ResetApn(d))
    BY DEF MakeToolCall, User, WriteTools, OtherTools
  <2>2. Touches({"apn_reset", "status", "tech"}, d, ResetApn(d))
    <3>1. SearchedAfter({"apn_reset"}, d, ResetApn(d))
      BY <1>0, SearchersDo
    <3>2. {"apn_reset"} \cup {"status", "tech"} = {"apn_reset", "status", "tech"}
      OBVIOUS
    <3> QED
      BY <3>1, <3>2 DEF SearchedAfter
  <2>3. {"apn_reset", "status", "tech"} \in SUBSET PhoneFields
    BY DEF PhoneFields
  <2> QED
    BY <2>1, <2>2, <2>3, PhoneAfter
<1>4. After(User("reboot_device", ""), d) = RebootDevice(d)
  <2>1. MakeToolCall("live", User("reboot_device", ""), d) = Done(RebootDevice(d))
    BY DEF MakeToolCall, User, WriteTools, OtherTools
  <2>2. Touches({"apn_name", "apn_reset", "mmsc", "status", "tech"}, d, RebootDevice(d))
    <3>1. SearchedAfter({"apn_name", "apn_reset", "mmsc"}, d, RebootDevice(d))
      BY <1>0, RebootDoes
    <3>2. {"apn_name", "apn_reset", "mmsc"} \cup {"status", "tech"} = {"apn_name", "apn_reset", "mmsc", "status", "tech"}
      OBVIOUS
    <3> QED
      BY <3>1, <3>2 DEF SearchedAfter
  <2>3. {"apn_name", "apn_reset", "mmsc", "status", "tech"} \in SUBSET PhoneFields
    BY DEF PhoneFields
  <2> QED
    BY <2>1, <2>2, <2>3, PhoneAfter
<1>5. After(User("set_network_mode_preference", "prefer_5g"), d) = SetNetworkMode(d, "prefer_5g")
  <2>1. MakeToolCall("live", User("set_network_mode_preference", "prefer_5g"), d) = Done(SetNetworkMode(d, "prefer_5g"))
    BY DEF MakeToolCall, User, WriteTools, OtherTools
  <2>2. Touches({"mode", "status", "tech"}, d, SetNetworkMode(d, "prefer_5g"))
    <3>1. SearchedAfter({"mode"}, d, SetNetworkMode(d, "prefer_5g"))
      BY <1>0, ModeIsSet
    <3>2. {"mode"} \cup {"status", "tech"} = {"mode", "status", "tech"}
      OBVIOUS
    <3> QED
      BY <3>1, <3>2 DEF SearchedAfter
  <2>3. {"mode", "status", "tech"} \in SUBSET PhoneFields
    BY DEF PhoneFields
  <2> QED
    BY <2>1, <2>2, <2>3, PhoneAfter
<1>6. After(User("disconnect_vpn", ""), d) = DisconnectVpn(d)
  <2>1. MakeToolCall("live", User("disconnect_vpn", ""), d) = Done(DisconnectVpn(d))
    BY DEF MakeToolCall, User, WriteTools, OtherTools
  <2>2. Touches({"vpn"}, d, DisconnectVpn(d))
    BY <1>0, SettersDo
  <2>3. {"vpn"} \in SUBSET PhoneFields
    BY DEF PhoneFields
  <2> QED
    BY <2>1, <2>2, <2>3, PhoneAfter
<1>7. After(User("toggle_data", ""), d) = ToggleData(d)
  <2>1. MakeToolCall("live", User("toggle_data", ""), d) = Done(ToggleData(d))
    BY DEF MakeToolCall, User, WriteTools, OtherTools
  <2>2. Touches({"data", "status", "tech"}, d, ToggleData(d))
    <3>1. SearchedAfter({"data"}, d, ToggleData(d))
      BY <1>0, SearchersDo
    <3>2. {"data"} \cup {"status", "tech"} = {"data", "status", "tech"}
      OBVIOUS
    <3> QED
      BY <3>1, <3>2 DEF SearchedAfter
  <2>3. {"data", "status", "tech"} \in SUBSET PhoneFields
    BY DEF PhoneFields
  <2> QED
    BY <2>1, <2>2, <2>3, PhoneAfter
<1>8. After(User("toggle_data_saver_mode", ""), d) = ToggleDataSaver(d)
  <2>1. MakeToolCall("live", User("toggle_data_saver_mode", ""), d) = Done(ToggleDataSaver(d))
    BY DEF MakeToolCall, User, WriteTools, OtherTools
  <2>2. Touches({"saver"}, d, ToggleDataSaver(d))
    BY <1>0, SettersDo
  <2>3. {"saver"} \in SUBSET PhoneFields
    BY DEF PhoneFields
  <2> QED
    BY <2>1, <2>2, <2>3, PhoneAfter
<1>9. After(User("toggle_roaming", ""), d) = ToggleRoaming(d)
  <2>1. MakeToolCall("live", User("toggle_roaming", ""), d) = Done(ToggleRoaming(d))
    BY DEF MakeToolCall, User, WriteTools, OtherTools
  <2>2. Touches({"roaming", "status", "tech"}, d, ToggleRoaming(d))
    <3>1. SearchedAfter({"roaming"}, d, ToggleRoaming(d))
      BY <1>0, SearchersDo
    <3>2. {"roaming"} \cup {"status", "tech"} = {"roaming", "status", "tech"}
      OBVIOUS
    <3> QED
      BY <3>1, <3>2 DEF SearchedAfter
  <2>3. {"roaming", "status", "tech"} \in SUBSET PhoneFields
    BY DEF PhoneFields
  <2> QED
    BY <2>1, <2>2, <2>3, PhoneAfter
<1>10. After(User("toggle_wifi_calling", ""), d) = ToggleWifiCalling(d)
  <2>1. MakeToolCall("live", User("toggle_wifi_calling", ""), d) = Done(ToggleWifiCalling(d))
    BY DEF MakeToolCall, User, WriteTools, OtherTools
  <2>2. Touches({"wifi_calling"}, d, ToggleWifiCalling(d))
    BY <1>0, SettersDo
  <2>3. {"wifi_calling"} \in SUBSET PhoneFields
    BY DEF PhoneFields
  <2> QED
    BY <2>1, <2>2, <2>3, PhoneAfter
<1>11. After(User("grant_app_permission", "sms"), d) = GrantPermission(d, "sms")
  <2>1. MakeToolCall("live", User("grant_app_permission", "sms"), d) = Done(GrantPermission(d, "sms"))
    BY DEF MakeToolCall, User, WriteTools, OtherTools
  <2>2. Touches({"permissions"}, d, GrantPermission(d, "sms"))
    BY <1>0, PermissionIsSet
  <2>3. {"permissions"} \in SUBSET PhoneFields
    BY DEF PhoneFields
  <2> QED
    BY <2>1, <2>2, <2>3, PhoneAfter
<1>12. After(User("grant_app_permission", "storage"), d) = GrantPermission(d, "storage")
  <2>1. MakeToolCall("live", User("grant_app_permission", "storage"), d) = Done(GrantPermission(d, "storage"))
    BY DEF MakeToolCall, User, WriteTools, OtherTools
  <2>2. Touches({"permissions"}, d, GrantPermission(d, "storage"))
    BY <1>0, PermissionIsSet
  <2>3. {"permissions"} \in SUBSET PhoneFields
    BY DEF PhoneFields
  <2> QED
    BY <2>1, <2>2, <2>3, PhoneAfter
<1> QED
  BY <1>1, <1>2, <1>3, <1>4, <1>5, <1>6, <1>7, <1>8, <1>9, <1>10, <1>11, <1>12

-----------------------------------------------------------------------------
(* What sync_tools and the tools of the operator change in the live environment.*)

LEMMA Synced ==
  ASSUME NEW y, Account("live", y), Open(y)
  PROVE  /\ InStep("live", SyncTools(y))
         /\ Touches({"bills", "request", "line_active", "roaming_allowed", "exceeded"}, y, SyncTools(y))
         /\ Agreed(y) => SyncTools(y).bills = y.bills /\ SyncTools(y).request = y.request
<1>1. PICK e : Twin({"drawn"}, "replay", y, e)
  BY HasTwin
<1>2. {"drawn"} \in SUBSET Unseen
  BY DEF Unseen
<1> DEFINE x == SyncTools(y)
<1>3. /\ InStep("live", x)
      /\ \A f \in Fields \ {"bills", "request", "line_active", "roaming_allowed", "exceeded"} : x[f] = y[f]
      /\ Agreed(y) => x.bills = y.bills /\ x.request = y.request
  BY <1>1, <1>2, Syncs
<1> HIDE DEF x
<1>4. Shaped(x)
  BY <1>3 DEF InStep, Account
<1>5. Touches({"bills", "request", "line_active", "roaming_allowed", "exceeded"}, y, x)
  BY <1>3, <1>4 DEF Touches
<1> QED
  BY <1>3, <1>5 DEF x

\* What the phone is told of the line.
Told == {"roaming_allowed", "exceeded"}

\* A tool that leaves nothing to settle.
LEMMA SettledAfter ==
  ASSUME NEW d, InStep("live", d), NEW y, Account("live", y), Agreed(y),
         NEW F \in SUBSET Fields, Touches(F, d, y), y.line_status = d.line_status
  PROVE  /\ Touches(F \cup Told, d, SyncTools(y)) /\ InStep("live", SyncTools(y))
         /\ \A f \in Fields \ (Told \cup {"line_active"}) : SyncTools(y)[f] = y[f]
<1> DEFINE x == SyncTools(y)
<1>1. /\ InStep("live", x)
      /\ Touches({"bills", "request", "line_active", "roaming_allowed", "exceeded"}, y, x)
      /\ x.bills = y.bills /\ x.request = y.request
  BY AgreedIsOpen, Synced
<1> HIDE DEF x
<1>2. \A f \in Fields \ (Told \cup {"line_active"}) : x[f] = y[f]
  BY <1>1 DEF Touches, Told
<1>3. x.line_status = d.line_status
  BY <1>2 DEF Told, Fields, AccountFields
<1>4. x.line_active = d.line_active
  BY <1>1, <1>3 DEF InStep, Derived
<1>5. \A f \in Fields \ (F \cup Told) : x[f] = d[f]
  BY <1>2, <1>4 DEF Touches
<1>6. Touches(F \cup Told, d, x)
  BY <1>1, <1>5 DEF Touches
<1> QED
  BY <1>1, <1>2, <1>6 DEF x

LEMMA AccountFieldsAre ==
  {"line_status", "line_roaming", "data_used", "data_refueling", "bills", "drawn", "line_active",
   "roaming_allowed", "exceeded", "request"} \subseteq Fields
BY DEF Fields, AccountFields

LEMMA FieldKeepsAccount ==
  ASSUME NEW d, InStep("live", d), NEW f \in {"line_status", "line_roaming", "data_used", "data_refueling"}, NEW v
  PROVE  Account("live", Put(d, f, v)) /\ Agreed(Put(d, f, v)) /\ Touches({f}, d, Put(d, f, v)) /\ Put(d, f, v)[f] = v
<1> DEFINE y == Put(d, f, v)
<1>0. Shaped(d) /\ Account("live", d) /\ Agreed(d) /\ f \in Fields
  BY AccountFieldsAre DEF InStep, Account
<1>1. Touches({f}, d, y) /\ y[f] = v
  BY <1>0, PutTouches
<1> HIDE DEF y
<1>2. Shaped(y) /\ y.bills = d.bills /\ y.drawn = d.drawn /\ y.request = d.request
  BY <1>1, AccountFieldsAre DEF Touches
<1>3. Account("live", y) /\ Agreed(y)
  BY <1>0, <1>2, BillsKept
<1> QED
  BY <1>1, <1>3 DEF y

LEMMA LineRoamingSet ==
  ASSUME NEW d, InStep("live", d), NEW on
  PROVE  /\ Touches({"line_roaming"} \cup Told, d, Then(SetLineRoaming(d, on)))
         /\ Then(SetLineRoaming(d, on)).line_roaming = on /\ InStep("live", Then(SetLineRoaming(d, on)))
<1> DEFINE y == Put(d, "line_roaming", on)
           x == SyncTools(y)
<1>1. Then(SetLineRoaming(d, on)) = x
  BY DEF Then, SetLineRoaming, Done, Put
<1>2. Account("live", y) /\ Agreed(y) /\ Touches({"line_roaming"}, d, y) /\ y["line_roaming"] = on
  BY FieldKeepsAccount
<1> HIDE DEF y
<1>3. y.line_status = d.line_status
  BY <1>2, AccountFieldsAre DEF Touches
<1>4. {"line_roaming"} \in SUBSET Fields
  BY AccountFieldsAre
<1>5. /\ Touches({"line_roaming"} \cup Told, d, x) /\ InStep("live", x)
      /\ \A f \in Fields \ (Told \cup {"line_active"}) : x[f] = y[f]
  BY <1>2, <1>3, <1>4, SettledAfter
<1> HIDE DEF x
<1>6. x.line_roaming = on
  BY <1>2, <1>5, AccountFieldsAre DEF Told
<1> QED
  BY <1>1, <1>5, <1>6

LEMMA DataUsageSet ==
  ASSUME NEW d, InStep("live", d), NEW used
  PROVE  /\ Touches({"data_used"} \cup Told, d, Then(SetDataUsage(d, used)))
         /\ Then(SetDataUsage(d, used)).data_used = used /\ InStep("live", Then(SetDataUsage(d, used)))
<1> DEFINE y == Put(d, "data_used", used)
           x == SyncTools(y)
<1>1. Then(SetDataUsage(d, used)) = x
  BY DEF Then, SetDataUsage, Done, Put
<1>2. Account("live", y) /\ Agreed(y) /\ Touches({"data_used"}, d, y) /\ y["data_used"] = used
  BY FieldKeepsAccount
<1> HIDE DEF y
<1>3. y.line_status = d.line_status
  BY <1>2, AccountFieldsAre DEF Touches
<1>4. {"data_used"} \in SUBSET Fields
  BY AccountFieldsAre
<1>5. /\ Touches({"data_used"} \cup Told, d, x) /\ InStep("live", x)
      /\ \A f \in Fields \ (Told \cup {"line_active"}) : x[f] = y[f]
  BY <1>2, <1>3, <1>4, SettledAfter
<1> HIDE DEF x
<1>6. x.data_used = used
  BY <1>2, <1>5, AccountFieldsAre DEF Told
<1> QED
  BY <1>1, <1>5, <1>6

LEMMA Refueled ==
  ASSUME NEW d, InStep("live", d), RoomForBill(d)
  PROVE  /\ Touches({"data_refueling", "bills", "drawn"} \cup Told, d, Then(RefuelData("live", d)))
         /\ InStep("live", Then(RefuelData("live", d)))
         /\ Then(RefuelData("live", d)).data_refueling = d.data_refueling + 20
         /\ \A b \in BillIds \ {"draft", "draft2"} : Then(RefuelData("live", d)).bills[b] = d.bills[b]
         /\ ~RefuelData("live", d).error
<1> DEFINE r == RefuelData("live", d)
           y == r.db
           x == SyncTools(y)
<1>1. PICK e : Twin({"drawn"}, "replay", d, e)
  BY HasTwin DEF InStep
<1>2. Account("live", y) /\ DraftMade(d, y)
  <2> DEFINE unlike == {"drawn"}
  <2>1. unlike \in SUBSET Unseen /\ "drawn" \in unlike /\ Twin(unlike, "replay", d, e)
    BY <1>1 DEF Unseen
  <2> HIDE DEF unlike
  <2>2. "live" # "seed" /\ "replay" # "seed"
    OBVIOUS
  <2>3. Sound("live", d, r) /\ DraftMade(d, r.db)
    BY <2>1, <2>2, Refuels
  <2> QED
    BY <2>3 DEF Sound
<1>3. y.data_refueling = d.data_refueling + 20 /\ ~r.error
  <2>1. Shaped(d) /\ DOMAIN d = Fields
    BY DEF InStep, Account, Shaped
  <2>2. {"bills", "drawn", "data_refueling"} \subseteq Fields
    BY AccountFieldsAre
  <2> QED
    BY <2>1, <2>2 DEF RefuelData, Done
<1>4. Then(r) = x
  BY DEF Then
<1> HIDE DEF y
<1>5. Touches({"data_refueling", "bills", "drawn"}, d, y)
  BY <1>2 DEF DraftMade, Touches, Account
<1>6. y.request = d.request /\ y.line_status = d.line_status
  BY <1>5, AccountFieldsAre DEF Touches
<1>7. Agreed(y)
  <2>1. DOMAIN d.bills = BillIds /\ DOMAIN y.bills = BillIds
    BY <1>2 DEF Account, InStep
  <2>2. AwaitingBills(y) = AwaitingBills(d)
    BY <1>2, <2>1 DEF DraftMade, AwaitingBills
  <2> QED
    BY <1>6, <2>2 DEF InStep, Agreed
<1>8. {"data_refueling", "bills", "drawn"} \in SUBSET Fields
  BY AccountFieldsAre
<1>9. /\ Touches({"data_refueling", "bills", "drawn"} \cup Told, d, x) /\ InStep("live", x)
      /\ \A f \in Fields \ (Told \cup {"line_active"}) : x[f] = y[f]
  BY <1>2, <1>5, <1>6, <1>7, <1>8, SettledAfter
<1> HIDE DEF x
<1>10. x.data_refueling = y.data_refueling /\ x.bills = y.bills
  BY <1>9, AccountFieldsAre DEF Told
<1>11. \A b \in BillIds \ {"draft", "draft2"} : y.bills[b] = d.bills[b]
  BY <1>2 DEF DraftMade
<1> HIDE DEF r
<1>12. Touches({"data_refueling", "bills", "drawn"} \cup Told, d, Then(r)) /\ InStep("live", Then(r))
  BY <1>4, <1>9
<1>13. Then(r).data_refueling = d.data_refueling + 20
  BY <1>3, <1>4, <1>10
<1>14. \A b \in BillIds \ {"draft", "draft2"} : Then(r).bills[b] = d.bills[b]
  BY <1>4, <1>10, <1>11
<1> QED
  BY <1>3, <1>12, <1>13, <1>14 DEF r

\* What sync_tools makes of the bills, and of the line for the phone.
LEMMA SyncedBills ==
  ASSUME NEW y, Shaped(y)
  PROVE  /\ ~y.request.paid => SyncTools(y).bills = y.bills
         /\ y.request.paid => SyncTools(y).bills = [y.bills EXCEPT ![y.request.bill] = "paid"]
<1>1. DOMAIN y = Fields
  BY DEF Shaped
<1> QED
  BY <1>1, AccountFieldsAre DEF SyncTools

LEMMA LineResumed ==
  ASSUME NEW d, InStep("live", d), d.line_status = "suspended"
  PROVE  /\ Touches({"line_status", "line_active"} \cup Told, d, Then(ResumeLine(d)))
         /\ Then(ResumeLine(d)).line_status = "active" /\ InStep("live", Then(ResumeLine(d)))
         /\ ~ResumeLine(d).error
<1> DEFINE y == Put(d, "line_status", "active")
           x == SyncTools(y)
<1>1. Then(ResumeLine(d)) = x /\ ~ResumeLine(d).error
  BY DEF Then, ResumeLine, Done, Put
<1>2. Account("live", y) /\ Agreed(y) /\ Touches({"line_status"}, d, y) /\ y["line_status"] = "active"
  BY FieldKeepsAccount
<1> HIDE DEF y
<1>3. /\ InStep("live", x) /\ x.bills = y.bills /\ x.request = y.request
      /\ Touches({"bills", "request", "line_active", "roaming_allowed", "exceeded"}, y, x)
  BY <1>2, AgreedIsOpen, Synced
<1> HIDE DEF x
<1>4. \A f \in Fields \ ({"line_status", "line_active"} \cup Told) : x[f] = d[f]
  BY <1>2, <1>3 DEF Touches, Told
<1>5. x.line_status = "active"
  BY <1>2, <1>3, AccountFieldsAre DEF Touches
<1>6. Touches({"line_status", "line_active"} \cup Told, d, x)
  BY <1>3, <1>4 DEF Touches
<1> QED
  BY <1>1, <1>3, <1>5, <1>6

\* The bills of x are those of d but for the overdue one.
Overdues(d, x, status) ==
  x.bills["overdue"] = status /\ \A b \in BillIds \ {"overdue"} : x.bills[b] = d.bills[b]

LEMMA RequestSent ==
  ASSUME NEW d, InStep("live", d), d.request = NoRequest, d.bills["overdue"] = "overdue"
  PROVE  /\ Touches({"bills", "request"} \cup Told, d, Then(SendPaymentRequest(d, "overdue")))
         /\ Overdues(d, Then(SendPaymentRequest(d, "overdue")), "awaiting")
         /\ InStep("live", Then(SendPaymentRequest(d, "overdue")))
         /\ ~SendPaymentRequest(d, "overdue").error
<1> DEFINE bills == [d.bills EXCEPT !["overdue"] = "awaiting"]
           y == Put(d, "bills", bills)
           x == SyncTools(y)
<1>0. /\ Account("live", d) /\ Shaped(d) /\ d.bills \in [BillIds -> BillStatuses] /\ "overdue" \in BillIds
      /\ d.drawn["overdue"] \in {"seed", "live"}
  BY DEF InStep, Account, BillIds
<1>1. AwaitingBills(d) = {}
  BY DEF InStep, Agreed
<1>2. SendPaymentRequest(d, "overdue") = Done(y)
  BY <1>0, <1>1 DEF SendPaymentRequest, Put
<1>3. Account("live", y) /\ Open(y)
  <2>1. Sound("live", d, Done(y))
    BY <1>0, <1>1, BillAwaits DEF Put
  <2> QED
    BY <2>1 DEF Sound, Done
<1>4. bills["overdue"] = "awaiting" /\ \A b \in BillIds \ {"overdue"} : bills[b] = d.bills[b]
  BY <1>0
<1> HIDE DEF bills
<1>5. Touches({"bills"}, d, y) /\ y["bills"] = bills
  BY <1>0, AccountFieldsAre, PutTouches
<1>6. Then(Done(y)) = x /\ ~Done(y).error
  BY DEF Then, Done
<1> HIDE DEF y
<1>7. y.request = NoRequest /\ y.line_status = d.line_status /\ Shaped(y)
  BY <1>5, AccountFieldsAre DEF Touches
<1>8. /\ InStep("live", x) /\ x.bills = y.bills
      /\ Touches({"bills", "request", "line_active", "roaming_allowed", "exceeded"}, y, x)
  <2>1. ~y.request.paid
    BY <1>7 DEF NoRequest
  <2>2. x.bills = y.bills
    BY <1>7, <2>1, SyncedBills
  <2> QED
    BY <1>3, <2>2, Synced
<1> HIDE DEF x
<1>9. x.line_status = d.line_status
  BY <1>7, <1>8, AccountFieldsAre DEF Touches
<1>10. x.line_active = d.line_active
  BY <1>8, <1>9 DEF InStep, Derived
<1>11. Touches({"bills", "request"} \cup Told, d, x)
  BY <1>5, <1>8, <1>10 DEF Touches, Told
<1>12. Overdues(d, x, "awaiting")
  BY <1>4, <1>5, <1>8 DEF Overdues
<1> QED
  BY <1>2, <1>6, <1>8, <1>11, <1>12

LEMMA BillPaid ==
  ASSUME NEW d, InStep("live", d), d.bills["overdue"] = "awaiting"
  PROVE  /\ Touches({"bills", "request"} \cup Told, d, Then(Done(MakePayment(d))))
         /\ Overdues(d, Then(Done(MakePayment(d))), "paid")
         /\ Then(Done(MakePayment(d))).request = NoRequest
         /\ InStep("live", Then(Done(MakePayment(d))))
<1> DEFINE request == [d.request EXCEPT !.paid = TRUE]
           y == Put(d, "request", request)
           x == SyncTools(y)
<1>0. /\ Account("live", d) /\ Shaped(d) /\ d.bills \in [BillIds -> BillStatuses] /\ "overdue" \in BillIds
      /\ d.request \in [bill : BillIds \cup {"none"}, paid : BOOLEAN]
  BY DEF InStep, Account, BillIds
<1>1. AwaitingBills(d) = {"overdue"} /\ d.request.bill = "overdue"
  <2>1. "overdue" \in AwaitingBills(d)
    BY <1>0 DEF AwaitingBills
  <2>2. AwaitingBills(d) = (IF d.request = NoRequest THEN {} ELSE {d.request.bill})
    BY DEF InStep, Agreed
  <2> QED
    BY <2>1, <2>2
<1>2. MakePayment(d) = y
  BY <1>1 DEF MakePayment, Put
<1>3. Account("live", y) /\ Open(y)
  <2>1. PICK e : Twin({"drawn"}, "replay", d, e)
    BY <1>0, HasTwin
  <2>2. {"drawn"} \in SUBSET Unseen
    BY DEF Unseen
  <2>3. Sound("live", d, Done(MakePayment(d)))
    BY <2>1, <2>2, Pays
  <2> HIDE DEF y
  <2> QED
    BY <1>2, <2>3 DEF Sound, Done
<1>4. request.bill = "overdue" /\ request.paid
  BY <1>0, <1>1
<1> HIDE DEF request
<1>5. Touches({"request"}, d, y) /\ y["request"] = request
  BY <1>0, AccountFieldsAre, PutTouches
<1>6. Then(Done(y)) = x
  BY DEF Then, Done
<1> HIDE DEF y
<1>7. y.bills = d.bills /\ y.line_status = d.line_status /\ Shaped(y)
  BY <1>5, AccountFieldsAre DEF Touches
<1>8. /\ InStep("live", x) /\ x.bills = [d.bills EXCEPT !["overdue"] = "paid"]
      /\ Touches({"bills", "request", "line_active", "roaming_allowed", "exceeded"}, y, x)
  BY <1>3, <1>4, <1>5, <1>7, Synced, SyncedBills
<1> HIDE DEF x
<1>9. x.line_status = d.line_status
  BY <1>7, <1>8, AccountFieldsAre DEF Touches
<1>10. x.line_active = d.line_active
  BY <1>8, <1>9 DEF InStep, Derived
<1>11. Touches({"bills", "request"} \cup Told, d, x)
  BY <1>5, <1>8, <1>10 DEF Touches, Told
<1>12. Overdues(d, x, "paid")
  BY <1>0, <1>8 DEF Overdues
<1>13. x.request = NoRequest
  <2>1. DOMAIN x.bills = BillIds /\ DOMAIN d.bills = BillIds
    BY <1>0, <1>8
  <2>2. AwaitingBills(x) = {}
    BY <1>1, <1>12, <2>1 DEF AwaitingBills, Overdues
  <2> QED
    BY <1>8, <2>2 DEF InStep, Agreed
<1> QED
  BY <1>2, <1>6, <1>8, <1>11, <1>12, <1>13

\* An overdue bill suspends the line.
LEMMA LineSuspended ==
  ASSUME NEW d, InStep("live", d), d.line_status = "active", d.bills["overdue"] = "none"
  PROVE  /\ Touches({"line_status", "line_active", "bills"} \cup Told, d, Then(SuspendLineForOverdueBill(d)))
         /\ Overdues(d, Then(SuspendLineForOverdueBill(d)), "overdue")
         /\ Then(SuspendLineForOverdueBill(d)).line_status = "suspended"
         /\ InStep("live", Then(SuspendLineForOverdueBill(d)))
<1> DEFINE bills == [d.bills EXCEPT !["overdue"] = "overdue"]
           y == Put(Put(d, "bills", bills), "line_status", "suspended")
           x == SyncTools(y)
           r == SuspendLineForOverdueBill(d)
<1>0. /\ Account("live", d) /\ Shaped(d) /\ d.bills \in [BillIds -> BillStatuses] /\ "overdue" \in BillIds
  BY DEF InStep, Account, BillIds
<1>1. r = Done(y)
  BY <1>0 DEF SuspendLineForOverdueBill, Put
<1>2. bills["overdue"] = "overdue" /\ \A b \in BillIds \ {"overdue"} : bills[b] = d.bills[b]
  BY <1>0
<1> HIDE DEF bills
<1>3. Touches({"bills", "line_status"}, d, y) /\ y["bills"] = bills /\ y["line_status"] = "suspended"
  BY <1>0, AccountFieldsAre, TwoTouched
<1> HIDE DEF y
<1>4. Account("live", y) /\ y.request = d.request
  <2>1. PICK e : Twin({"drawn"}, "replay", d, e)
    BY <1>0, HasTwin
  <2>2. {"drawn"} \in SUBSET Unseen
    BY DEF Unseen
  <2> HIDE DEF r
  <2>3. Sound("live", d, r) /\ r.db.request = d.request
    BY <2>1, <2>2, Overdue DEF r
  <2> QED
    BY <1>1, <2>3 DEF Sound, Done
<1>5. Agreed(y)
  <2>1. DOMAIN d.bills = BillIds /\ DOMAIN y.bills = BillIds
    BY <1>0, <1>4 DEF Account
  <2>2. AwaitingBills(y) = AwaitingBills(d)
    BY <1>2, <1>3, <2>1 DEF AwaitingBills
  <2> QED
    BY <1>4, <2>2 DEF InStep, Agreed
<1>6. /\ InStep("live", x) /\ x.bills = y.bills /\ x.request = y.request
      /\ Touches({"bills", "request", "line_active", "roaming_allowed", "exceeded"}, y, x)
  BY <1>4, <1>5, AgreedIsOpen, Synced
<1>7. Then(r) = x
  BY <1>1 DEF Then, Done
<1> HIDE DEF x, r
<1>8. \A f \in Fields \ ({"line_status", "line_active", "bills"} \cup Told) : x[f] = d[f]
  BY <1>3, <1>4, <1>6 DEF Touches, Told
<1>9. Touches({"line_status", "line_active", "bills"} \cup Told, d, x)
  BY <1>6, <1>8 DEF Touches
<1>10. Overdues(d, x, "overdue") /\ x.line_status = "suspended"
  BY <1>2, <1>3, <1>6, AccountFieldsAre DEF Overdues, Touches
<1>11. /\ Touches({"line_status", "line_active", "bills"} \cup Told, d, Then(r))
       /\ Overdues(d, Then(r), "overdue") /\ Then(r).line_status = "suspended" /\ InStep("live", Then(r))
  BY <1>6, <1>7, <1>9, <1>10
<1> QED
  BY <1>11 DEF r

\* The calls of the operator in a reference.
LEMMA AgentAfter ==
  ASSUME NEW d, InStep("live", d)
  PROVE  /\ d.line_status = "suspended" => After(Agent("resume_line", ""), d) = Then(ResumeLine(d))
         /\ d.request = NoRequest /\ d.bills["overdue"] = "overdue" =>
              After(Agent("send_payment_request", "overdue"), d) = Then(SendPaymentRequest(d, "overdue"))
         /\ RoomForBill(d) => After(Agent("refuel_data", ""), d) = Then(RefuelData("live", d))
         /\ After(Agent("enable_roaming", ""), d) = Then(SetLineRoaming(d, TRUE))
         /\ After(User("make_payment", ""), d) = Then(Done(MakePayment(d)))
<1>0. \A r : ~r.error => (IF r.error THEN r ELSE Done(SyncTools(r.db))).db = Then(r)
  BY DEF Done, Then
<1>1. ASSUME d.line_status = "suspended" PROVE After(Agent("resume_line", ""), d) = Then(ResumeLine(d))
  <2>1. MakeToolCall("live", Agent("resume_line", ""), d) = ResumeLine(d)
    BY DEF MakeToolCall, Agent, WriteTools, OtherTools
  <2>2. ~ResumeLine(d).error
    BY <1>1, LineResumed
  <2> QED
    BY <1>0, <2>1, <2>2 DEF After, GetResponse
<1>2. ASSUME d.request = NoRequest, d.bills["overdue"] = "overdue"
      PROVE  After(Agent("send_payment_request", "overdue"), d) = Then(SendPaymentRequest(d, "overdue"))
  <2>1. MakeToolCall("live", Agent("send_payment_request", "overdue"), d) = SendPaymentRequest(d, "overdue")
    BY DEF MakeToolCall, Agent, WriteTools, OtherTools
  <2>2. ~SendPaymentRequest(d, "overdue").error
    BY <1>2, RequestSent
  <2> QED
    BY <1>0, <2>1, <2>2 DEF After, GetResponse
<1>3. ASSUME RoomForBill(d) PROVE After(Agent("refuel_data", ""), d) = Then(RefuelData("live", d))
  <2>1. MakeToolCall("live", Agent("refuel_data", ""), d) = RefuelData("live", d)
    BY DEF MakeToolCall, Agent, WriteTools, OtherTools
  <2>2. ~RefuelData("live", d).error
    BY <1>3, Refueled
  <2> QED
    BY <1>0, <2>1, <2>2 DEF After, GetResponse
<1>4. After(Agent("enable_roaming", ""), d) = Then(SetLineRoaming(d, TRUE))
  <2>1. MakeToolCall("live", Agent("enable_roaming", ""), d) = SetLineRoaming(d, TRUE)
    BY DEF MakeToolCall, Agent, WriteTools, OtherTools
  <2>2. ~SetLineRoaming(d, TRUE).error
    BY DEF SetLineRoaming, Done
  <2> QED
    BY <1>0, <2>1, <2>2 DEF After, GetResponse
<1>5. After(User("make_payment", ""), d) = Then(Done(MakePayment(d)))
  <2>1. MakeToolCall("live", User("make_payment", ""), d) = Done(MakePayment(d))
    BY DEF MakeToolCall, User, WriteTools, OtherTools
  <2>2. ~Done(MakePayment(d)).error
    BY DEF Done
  <2> QED
    BY <1>0, <2>1, <2>2 DEF After, GetResponse
<1> QED
  BY <1>1, <1>2, <1>3, <1>4, <1>5

-----------------------------------------------------------------------------
(* Each fix call mends its issue and no other.                             *)

\* Issue b is mended by one call more: n calls were left, m are then.
Mending(d, S, n, m, b) ==
  /\ InStep("live", d) /\ Ailing(d, S, n) /\ Composed(S) /\ Counted(S, n) /\ Counted(S, m)
  /\ b \in S /\ n[b] \in 1..Len(Fixes(b)) /\ m[b] = n[b] - 1 /\ Turns({b}, S, n, S, m)
  /\ b = "data_usage_exceeded" => RoomForBill(d)

LEMMA NoSibling ==
  ASSUME NEW S, Composed(S), NEW g \in {Roaming, Usage, Permissions, Suspensions, ApnIssues},
         NEW b \in S, b \in g, NEW c \in g, c # b
  PROVE  /\ c \notin S
         /\ \A n : Counted(S, n) /\ c \in BaseTasks => n[c] = 0
<1>1. c \notin S
  BY DEF Composed, OneOf
<1> QED
  BY <1>1 DEF Counted

LEMMA NextIs ==
  ASSUME NEW b, NEW k, NEW total, Len(Fixes(b)) = total
  PROVE  NextFix(b, k) = Fixes(b)[total - k + 1]
BY DEF NextFix

LEMMA NextCall ==
  ASSUME NEW b
  PROVE  /\ \A x : Fixes(b) = <<x>> => Len(Fixes(b)) = 1 /\ NextFix(b, 1) = x
         /\ \A x, y : Fixes(b) = <<x, y>> => Len(Fixes(b)) = 2 /\ NextFix(b, 2) = x /\ NextFix(b, 1) = y
         /\ \A x, y, z, w : Fixes(b) = <<x, y, z, w>> =>
              /\ Len(Fixes(b)) = 4 /\ NextFix(b, 4) = x /\ NextFix(b, 3) = y
              /\ NextFix(b, 2) = z /\ NextFix(b, 1) = w

<1>1. ASSUME NEW x, Fixes(b) = <<x>> PROVE Len(Fixes(b)) = 1 /\ NextFix(b, 1) = x
  <2>1. Len(Fixes(b)) = 1 /\ Fixes(b)[1] = x
    BY <1>1
  <2>2. NextFix(b, 1) = Fixes(b)[1 - 1 + 1]
    BY <2>1, NextIs, Zenon
  <2> QED
    BY <2>1, <2>2
<1>2. ASSUME NEW x, NEW y, Fixes(b) = <<x, y>> PROVE Len(Fixes(b)) = 2 /\ NextFix(b, 2) = x /\ NextFix(b, 1) = y
  <2>1. Len(Fixes(b)) = 2 /\ Fixes(b)[1] = x /\ Fixes(b)[2] = y
    BY <1>2
  <2>2. NextFix(b, 2) = Fixes(b)[2 - 2 + 1]
    BY <2>1, NextIs, Zenon
  <2>3. NextFix(b, 1) = Fixes(b)[2 - 1 + 1]
    BY <2>1, NextIs, Zenon
  
  <2> QED
    BY <2>1, <2>2, <2>3
<1>3. ASSUME NEW x, NEW y, NEW z, NEW w, Fixes(b) = <<x, y, z, w>>
      PROVE  /\ Len(Fixes(b)) = 4 /\ NextFix(b, 4) = x /\ NextFix(b, 3) = y
             /\ NextFix(b, 2) = z /\ NextFix(b, 1) = w
  <2>1. Len(Fixes(b)) = 4 /\ Fixes(b)[1] = x /\ Fixes(b)[2] = y /\ Fixes(b)[3] = z /\ Fixes(b)[4] = w
    BY <1>3
  <2>2. NextFix(b, 4) = Fixes(b)[4 - 4 + 1]
    BY <2>1, NextIs, Zenon
  <2>3. NextFix(b, 3) = Fixes(b)[4 - 3 + 1]
    BY <2>1, NextIs, Zenon
  <2>4. NextFix(b, 2) = Fixes(b)[4 - 2 + 1]
    BY <2>1, NextIs, Zenon
  <2>5. NextFix(b, 1) = Fixes(b)[4 - 1 + 1]
    BY <2>1, NextIs, Zenon
  <2> QED
    BY <2>1, <2>2, <2>3, <2>4, <2>5
<1> QED
  BY <1>1, <1>2, <1>3

LEMMA OneApn ==
  ASSUME NEW S, Composed(S), NEW n, Counted(S, n)
  PROVE  n["break_apn_settings"] = 0 \/ n["break_apn_mms_setting"] = 0
<1>1. {"break_apn_settings", "break_apn_mms_setting"} \subseteq BaseTasks
  BY BaseTasksAre
<1>2. "break_apn_settings" \notin S \/ "break_apn_mms_setting" \notin S
  BY DEF Composed, OneOf, ApnIssues
<1> QED
  BY <1>1, <1>2 DEF Counted

LEMMA AirplaneModeMended ==
  ASSUME NEW d, NEW S, NEW n, NEW m, Mending(d, S, n, m, "airplane_mode_on")
  PROVE  Ailing(After(NextFix("airplane_mode_on", n["airplane_mode_on"]), d), S, m)
<1>0. /\ InStep("live", d) /\ Shaped(d) /\ Ailing(d, S, n) /\ "airplane_mode_on" \in S
      /\ Turns({"airplane_mode_on"}, S, n, S, m)
  BY DEF Mending, InStep, Account
<1>1. /\ Len(Fixes("airplane_mode_on")) = 1
      /\ NextFix("airplane_mode_on", 1) = User("toggle_airplane_mode", "")
  <2>1. Fixes("airplane_mode_on") = <<User("toggle_airplane_mode", "")>>
    BY DEF Fixes, FixesService, ServiceIssues, MmsIssues, Permissions
  <2> QED
    BY <2>1, NextCall, Zenon
<1>2. n["airplane_mode_on"] \in {1} /\ m["airplane_mode_on"] = n["airplane_mode_on"] - 1
  <2>1. n["airplane_mode_on"] \in 1..1 /\ m["airplane_mode_on"] = n["airplane_mode_on"] - 1
    BY <1>1 DEF Mending
  <2> QED
    BY <2>1
<1>3. /\ m["bad_vpn"] = n["bad_vpn"] /\ m["data_mode_off"] = n["data_mode_off"]
      /\ m["data_saver_mode_on"] = n["data_saver_mode_on"]
  <2>2. /\ m["bad_vpn"] = n["bad_vpn"] /\ m["data_mode_off"] = n["data_mode_off"]
        /\ m["data_saver_mode_on"] = n["data_saver_mode_on"]
    BY <1>0, BaseTasksAre DEF Turns
  <2> QED
    BY <2>2
<1> QED
  <2> DEFINE x == ToggleAirplaneMode(d)
  <2>1. InStep("live", d)
    BY <1>0
  <2>2. After(NextFix("airplane_mode_on", n["airplane_mode_on"]), d) = x
    <3>1. NextFix("airplane_mode_on", 1) = User("toggle_airplane_mode", "") /\ n["airplane_mode_on"] = 1
      BY <1>1, <1>2
    <3> QED
      BY <1>0, <3>1, <2>1, PhoneCallsDo
  <2>3. /\ Touches({"airplane_mode", "vpn", "status", "tech"}, d, x) /\ Searched(x)
        /\ (x.airplane_mode <=> ~d.airplane_mode) /\ (x.vpn <=> d.vpn /\ d.airplane_mode)
    <3>1. {"airplane_mode", "vpn"} \cup {"status", "tech"} = {"airplane_mode", "vpn", "status", "tech"}
      OBVIOUS
    <3>2. /\ SearchedAfter({"airplane_mode", "vpn"}, d, x) /\ (x.airplane_mode <=> ~d.airplane_mode)
          /\ (x.vpn <=> d.vpn /\ d.airplane_mode)
      BY <1>0, AirplaneDoes, Zenon
    <3> QED
      BY <3>1, <3>2 DEF SearchedAfter
  <2> HIDE DEF x
  <2>4. /\ SimSick(x, S, m) /\ ApnSick(x, m) /\ LineSick(x, S, m) /\ ModeSick(x, m) /\ WifiSick(x, m)
        /\ UsageSick(x, S, m) /\ RoamSick(x, S, m) /\ AppSick(x, m)
    <3>1. /\ Touches({"airplane_mode", "vpn", "status", "tech"}, d, x)
          /\ Turns({"airplane_mode_on"}, S, n, S, m)
      BY <1>0, <2>3
    <3> QED
      BY <1>0, <3>1, PartsKept DEF Ailing, ApnIssues, Suspensions, Usage, Roaming, Permissions
  <2>5. x.data = d.data /\ x.saver = d.saver /\ x.vpn_poor = d.vpn_poor
    BY <2>3 DEF Touches, Fields, PhoneFields, AccountFields
  <2>6. AirSick(x, m)
    BY <1>0, <1>2, <1>3, <2>1, <2>3, <2>5 DEF Ailing, AirSick
  <2>7. Reached(x, m)
    BY <2>3, SearchedReaches
  <2>8. SpeedSick(x, m)
    BY <1>0, <1>2, <1>3, <2>1, <2>3, <2>5 DEF Ailing, SpeedSick, AirSick
  <2> QED
    BY <2>2, <2>4, <2>6, <2>7, <2>8 DEF Ailing

LEMMA SimCardMended ==
  ASSUME NEW d, NEW S, NEW n, NEW m, Mending(d, S, n, m, "unseat_sim_card")
  PROVE  Ailing(After(NextFix("unseat_sim_card", n["unseat_sim_card"]), d), S, m)
<1>0. /\ InStep("live", d) /\ Shaped(d) /\ Ailing(d, S, n) /\ "unseat_sim_card" \in S
      /\ Turns({"unseat_sim_card"}, S, n, S, m)
  BY DEF Mending, InStep, Account
<1>1. /\ Len(Fixes("unseat_sim_card")) = 1
      /\ NextFix("unseat_sim_card", 1) = User("reseat_sim_card", "")
  <2>1. Fixes("unseat_sim_card") = <<User("reseat_sim_card", "")>>
    BY DEF Fixes, FixesService, ServiceIssues, MmsIssues, Permissions
  <2> QED
    BY <2>1, NextCall, Zenon
<1>2. n["unseat_sim_card"] \in {1} /\ m["unseat_sim_card"] = n["unseat_sim_card"] - 1
  <2>1. n["unseat_sim_card"] \in 1..1 /\ m["unseat_sim_card"] = n["unseat_sim_card"] - 1
    BY <1>1 DEF Mending
  <2> QED
    BY <2>1
<1>3. m["lock_sim_card_pin"] = n["lock_sim_card_pin"]
  <2>2. m["lock_sim_card_pin"] = n["lock_sim_card_pin"]
    BY <1>0, BaseTasksAre DEF Turns
  <2> QED
    BY <2>2
<1> QED
  <2> DEFINE x == ReseatSim(d)
  <2>1. InStep("live", d)
    BY <1>0
  <2>2. After(NextFix("unseat_sim_card", n["unseat_sim_card"]), d) = x
    <3>1. NextFix("unseat_sim_card", 1) = User("reseat_sim_card", "") /\ n["unseat_sim_card"] = 1
      BY <1>1, <1>2
    <3> QED
      BY <1>0, <3>1, <2>1, PhoneCallsDo
  <2>3. Touches({"sim_missing", "status", "tech"}, d, x) /\ Searched(x) /\ x.sim_missing = FALSE
    <3>1. {"sim_missing"} \cup {"status", "tech"} = {"sim_missing", "status", "tech"}
      OBVIOUS
    <3>2. SearchedAfter({"sim_missing"}, d, x) /\ x.sim_missing = FALSE
      BY <1>0, SearchersDo, Zenon
    <3> QED
      BY <3>1, <3>2 DEF SearchedAfter
  <2> HIDE DEF x
  <2>4. /\ AirSick(x, m) /\ ApnSick(x, m) /\ LineSick(x, S, m) /\ ModeSick(x, m) /\ SpeedSick(x, m)
        /\ WifiSick(x, m) /\ UsageSick(x, S, m) /\ RoamSick(x, S, m) /\ AppSick(x, m)
    <3>1. /\ Touches({"sim_missing", "status", "tech"}, d, x)
          /\ Turns({"unseat_sim_card"}, S, n, S, m)
      BY <1>0, <2>3
    <3> QED
      BY <1>0, <3>1, PartsKept DEF Ailing, ApnIssues, Suspensions, Usage, Roaming, Permissions
  <2>5. x.sim_status = d.sim_status
    BY <2>3 DEF Touches, Fields, PhoneFields, AccountFields
  <2>6. SimSick(x, S, m)
    BY <1>0, <1>2, <1>3, <2>1, <2>3, <2>5 DEF Ailing, SimSick
  <2>7. Reached(x, m)
    BY <2>3, SearchedReaches
  <2> QED
    BY <2>2, <2>4, <2>6, <2>7 DEF Ailing

LEMMA ApnMended ==
  ASSUME NEW d, NEW S, NEW n, NEW m, Mending(d, S, n, m, "break_apn_settings")
  PROVE  Ailing(After(NextFix("break_apn_settings", n["break_apn_settings"]), d), S, m)
<1>0. /\ InStep("live", d) /\ Shaped(d) /\ Ailing(d, S, n) /\ "break_apn_settings" \in S
      /\ Turns({"break_apn_settings"}, S, n, S, m)
  BY DEF Mending, InStep, Account
<1>1. /\ Len(Fixes("break_apn_settings")) = 2
      /\ NextFix("break_apn_settings", 2) = User("reset_apn_settings", "")
      /\ NextFix("break_apn_settings", 1) = User("reboot_device", "")
  <2>1. Fixes("break_apn_settings") = <<User("reset_apn_settings", ""), User("reboot_device", "")>>
    BY DEF Fixes, FixesService, ServiceIssues, MmsIssues, Permissions
  <2> QED
    BY <2>1, NextCall, Zenon
<1>2. n["break_apn_settings"] \in {1, 2} /\ m["break_apn_settings"] = n["break_apn_settings"] - 1
  <2>1. n["break_apn_settings"] \in 1..2 /\ m["break_apn_settings"] = n["break_apn_settings"] - 1
    BY <1>1 DEF Mending
  <2> QED
    BY <2>1
<1>3. /\ "break_apn_mms_setting" \notin S /\ n["break_apn_mms_setting"] = 0
      /\ m["break_apn_mms_setting"] = 0
  <2>1. /\ "break_apn_mms_setting" \notin S /\ n["break_apn_mms_setting"] = 0
        /\ m["break_apn_mms_setting"] = 0
    BY <1>0, BaseTasksAre, NoSibling DEF Mending, ApnIssues
  <2> QED
    BY <2>1
<1>4. CASE n["break_apn_settings"] = 2
  <2> DEFINE x == ResetApn(d)
  <2>1. InStep("live", d)
    BY <1>0
  <2>2. After(NextFix("break_apn_settings", n["break_apn_settings"]), d) = x
    <3>1. NextFix("break_apn_settings", 2) = User("reset_apn_settings", "") /\ n["break_apn_settings"] = 2
      BY <1>1, <1>2, <1>4
    <3> QED
      BY <1>0, <3>1, <2>1, PhoneCallsDo
  <2>3. Touches({"apn_reset", "status", "tech"}, d, x) /\ Searched(x) /\ x.apn_reset = TRUE
    <3>1. {"apn_reset"} \cup {"status", "tech"} = {"apn_reset", "status", "tech"}
      OBVIOUS
    <3>2. SearchedAfter({"apn_reset"}, d, x) /\ x.apn_reset = TRUE
      BY <1>0, SearchersDo, Zenon
    <3> QED
      BY <3>1, <3>2 DEF SearchedAfter
  <2> HIDE DEF x
  <2>4. /\ SimSick(x, S, m) /\ AirSick(x, m) /\ LineSick(x, S, m) /\ ModeSick(x, m) /\ SpeedSick(x, m)
        /\ WifiSick(x, m) /\ UsageSick(x, S, m) /\ RoamSick(x, S, m) /\ AppSick(x, m)
    <3>1. /\ Touches({"apn_reset", "status", "tech"}, d, x)
          /\ Turns({"break_apn_settings"}, S, n, S, m)
      BY <1>0, <2>3
    <3> QED
      BY <1>0, <3>1, PartsKept DEF Ailing, Suspensions, Usage, Roaming, Permissions
  <2>5. x.apn_name = d.apn_name /\ x.mmsc = d.mmsc
    BY <2>3 DEF Touches, Fields, PhoneFields, AccountFields
  <2>6. ApnSick(x, m)
    BY <1>0, <1>2, <1>3, <1>4, <2>1, <2>3, <2>5 DEF Ailing, ApnSick
  <2>7. Reached(x, m)
    BY <2>3, SearchedReaches
  <2> QED
    BY <2>2, <2>4, <2>6, <2>7 DEF Ailing
<1>5. CASE n["break_apn_settings"] = 1
  <2> DEFINE x == RebootDevice(d)
  <2>1. InStep("live", d)
    BY <1>0
  <2>2. After(NextFix("break_apn_settings", n["break_apn_settings"]), d) = x
    <3>1. NextFix("break_apn_settings", 1) = User("reboot_device", "") /\ n["break_apn_settings"] = 1
      BY <1>1, <1>2, <1>5
    <3> QED
      BY <1>0, <3>1, <2>1, PhoneCallsDo
  <2>3. /\ Touches({"apn_name", "apn_reset", "mmsc", "status", "tech"}, d, x) /\ Searched(x)
        /\ (d.apn_reset => x.apn_name = "internet" /\ ~x.apn_reset /\ x.mmsc)
        /\ (~d.apn_reset => x.apn_name = d.apn_name /\ x.apn_reset = d.apn_reset /\ x.mmsc = d.mmsc)
    <3>1. {"apn_name", "apn_reset", "mmsc"} \cup {"status", "tech"} = {"apn_name", "apn_reset", "mmsc", "status", "tech"}
      OBVIOUS
    <3>2. /\ SearchedAfter({"apn_name", "apn_reset", "mmsc"}, d, x)
          /\ (d.apn_reset => x.apn_name = "internet" /\ ~x.apn_reset /\ x.mmsc)
          /\ (~d.apn_reset => x.apn_name = d.apn_name /\ x.apn_reset = d.apn_reset /\ x.mmsc = d.mmsc)
      BY <1>0, RebootDoes, Zenon
    <3> QED
      BY <3>1, <3>2 DEF SearchedAfter
  <2> HIDE DEF x
  <2>4. /\ SimSick(x, S, m) /\ AirSick(x, m) /\ LineSick(x, S, m) /\ ModeSick(x, m) /\ SpeedSick(x, m)
        /\ WifiSick(x, m) /\ UsageSick(x, S, m) /\ RoamSick(x, S, m) /\ AppSick(x, m)
    <3>1. /\ Touches({"apn_name", "apn_reset", "mmsc", "status", "tech"}, d, x)
          /\ Turns({"break_apn_settings"}, S, n, S, m)
      BY <1>0, <2>3
    <3> QED
      BY <1>0, <3>1, PartsKept DEF Ailing, Suspensions, Usage, Roaming, Permissions
  <2>5. ApnSick(x, m)
    BY <1>0, <1>2, <1>3, <1>5, <2>1, <2>3 DEF Ailing, ApnSick
  <2>6. Reached(x, m)
    BY <2>3, SearchedReaches
  <2> QED
    BY <2>2, <2>4, <2>5, <2>6 DEF Ailing
<1> QED
  BY <1>2, <1>4, <1>5

LEMMA ApnMmsMended ==
  ASSUME NEW d, NEW S, NEW n, NEW m, Mending(d, S, n, m, "break_apn_mms_setting")
  PROVE  Ailing(After(NextFix("break_apn_mms_setting", n["break_apn_mms_setting"]), d), S, m)
<1>0. /\ InStep("live", d) /\ Shaped(d) /\ Ailing(d, S, n) /\ "break_apn_mms_setting" \in S
      /\ Turns({"break_apn_mms_setting"}, S, n, S, m)
  BY DEF Mending, InStep, Account
<1>1. /\ Len(Fixes("break_apn_mms_setting")) = 2
      /\ NextFix("break_apn_mms_setting", 2) = User("reset_apn_settings", "")
      /\ NextFix("break_apn_mms_setting", 1) = User("reboot_device", "")
  <2>1. Fixes("break_apn_mms_setting") = <<User("reset_apn_settings", ""), User("reboot_device", "")>>
    BY DEF Fixes, FixesMms, ServiceIssues, MmsIssues, Permissions
  <2> QED
    BY <2>1, NextCall, Zenon
<1>2. n["break_apn_mms_setting"] \in {1, 2} /\ m["break_apn_mms_setting"] = n["break_apn_mms_setting"] - 1
  <2>1. n["break_apn_mms_setting"] \in 1..2 /\ m["break_apn_mms_setting"] = n["break_apn_mms_setting"] - 1
    BY <1>1 DEF Mending
  <2> QED
    BY <2>1
<1>3. "break_apn_settings" \notin S /\ n["break_apn_settings"] = 0 /\ m["break_apn_settings"] = 0
  <2>1. "break_apn_settings" \notin S /\ n["break_apn_settings"] = 0 /\ m["break_apn_settings"] = 0
    BY <1>0, BaseTasksAre, NoSibling DEF Mending, ApnIssues
  <2> QED
    BY <2>1
<1>4. CASE n["break_apn_mms_setting"] = 2
  <2> DEFINE x == ResetApn(d)
  <2>1. InStep("live", d)
    BY <1>0
  <2>2. After(NextFix("break_apn_mms_setting", n["break_apn_mms_setting"]), d) = x
    <3>1. NextFix("break_apn_mms_setting", 2) = User("reset_apn_settings", "") /\ n["break_apn_mms_setting"] = 2
      BY <1>1, <1>2, <1>4
    <3> QED
      BY <1>0, <3>1, <2>1, PhoneCallsDo
  <2>3. Touches({"apn_reset", "status", "tech"}, d, x) /\ Searched(x) /\ x.apn_reset = TRUE
    <3>1. {"apn_reset"} \cup {"status", "tech"} = {"apn_reset", "status", "tech"}
      OBVIOUS
    <3>2. SearchedAfter({"apn_reset"}, d, x) /\ x.apn_reset = TRUE
      BY <1>0, SearchersDo, Zenon
    <3> QED
      BY <3>1, <3>2 DEF SearchedAfter
  <2> HIDE DEF x
  <2>4. /\ SimSick(x, S, m) /\ AirSick(x, m) /\ LineSick(x, S, m) /\ ModeSick(x, m) /\ SpeedSick(x, m)
        /\ WifiSick(x, m) /\ UsageSick(x, S, m) /\ RoamSick(x, S, m) /\ AppSick(x, m)
    <3>1. /\ Touches({"apn_reset", "status", "tech"}, d, x)
          /\ Turns({"break_apn_mms_setting"}, S, n, S, m)
      BY <1>0, <2>3
    <3> QED
      BY <1>0, <3>1, PartsKept DEF Ailing, Suspensions, Usage, Roaming, Permissions
  <2>5. x.apn_name = d.apn_name /\ x.mmsc = d.mmsc
    BY <2>3 DEF Touches, Fields, PhoneFields, AccountFields
  <2>6. ApnSick(x, m)
    BY <1>0, <1>2, <1>3, <1>4, <2>1, <2>3, <2>5 DEF Ailing, ApnSick
  <2>7. Reached(x, m)
    BY <2>3, SearchedReaches
  <2> QED
    BY <2>2, <2>4, <2>6, <2>7 DEF Ailing
<1>5. CASE n["break_apn_mms_setting"] = 1
  <2> DEFINE x == RebootDevice(d)
  <2>1. InStep("live", d)
    BY <1>0
  <2>2. After(NextFix("break_apn_mms_setting", n["break_apn_mms_setting"]), d) = x
    <3>1. NextFix("break_apn_mms_setting", 1) = User("reboot_device", "") /\ n["break_apn_mms_setting"] = 1
      BY <1>1, <1>2, <1>5
    <3> QED
      BY <1>0, <3>1, <2>1, PhoneCallsDo
  <2>3. /\ Touches({"apn_name", "apn_reset", "mmsc", "status", "tech"}, d, x) /\ Searched(x)
        /\ (d.apn_reset => x.apn_name = "internet" /\ ~x.apn_reset /\ x.mmsc)
        /\ (~d.apn_reset => x.apn_name = d.apn_name /\ x.apn_reset = d.apn_reset /\ x.mmsc = d.mmsc)
    <3>1. {"apn_name", "apn_reset", "mmsc"} \cup {"status", "tech"} = {"apn_name", "apn_reset", "mmsc", "status", "tech"}
      OBVIOUS
    <3>2. /\ SearchedAfter({"apn_name", "apn_reset", "mmsc"}, d, x)
          /\ (d.apn_reset => x.apn_name = "internet" /\ ~x.apn_reset /\ x.mmsc)
          /\ (~d.apn_reset => x.apn_name = d.apn_name /\ x.apn_reset = d.apn_reset /\ x.mmsc = d.mmsc)
      BY <1>0, RebootDoes, Zenon
    <3> QED
      BY <3>1, <3>2 DEF SearchedAfter
  <2> HIDE DEF x
  <2>4. /\ SimSick(x, S, m) /\ AirSick(x, m) /\ LineSick(x, S, m) /\ ModeSick(x, m) /\ SpeedSick(x, m)
        /\ WifiSick(x, m) /\ UsageSick(x, S, m) /\ RoamSick(x, S, m) /\ AppSick(x, m)
    <3>1. /\ Touches({"apn_name", "apn_reset", "mmsc", "status", "tech"}, d, x)
          /\ Turns({"break_apn_mms_setting"}, S, n, S, m)
      BY <1>0, <2>3
    <3> QED
      BY <1>0, <3>1, PartsKept DEF Ailing, Suspensions, Usage, Roaming, Permissions
  <2>5. ApnSick(x, m)
    BY <1>0, <1>2, <1>3, <1>5, <2>1, <2>3 DEF Ailing, ApnSick
  <2>6. Reached(x, m)
    BY <2>3, SearchedReaches
  <2> QED
    BY <2>2, <2>4, <2>5, <2>6 DEF Ailing
<1> QED
  BY <1>2, <1>4, <1>5

LEMMA OverdueMended ==
  ASSUME NEW d, NEW S, NEW n, NEW m, Mending(d, S, n, m, "overdue_bill_suspension")
  PROVE  Ailing(After(NextFix("overdue_bill_suspension", n["overdue_bill_suspension"]), d), S, m)
<1>0. /\ InStep("live", d) /\ Shaped(d) /\ Ailing(d, S, n) /\ "overdue_bill_suspension" \in S
      /\ Turns({"overdue_bill_suspension"}, S, n, S, m)
  BY DEF Mending, InStep, Account
<1>1. /\ Len(Fixes("overdue_bill_suspension")) = 4
      /\ NextFix("overdue_bill_suspension", 4) = Agent("send_payment_request", "overdue")
      /\ NextFix("overdue_bill_suspension", 3) = User("make_payment", "")
      /\ NextFix("overdue_bill_suspension", 2) = Agent("resume_line", "")
      /\ NextFix("overdue_bill_suspension", 1) = User("reboot_device", "")
  <2>1. Fixes("overdue_bill_suspension") = <<Agent("send_payment_request", "overdue"),
                                            User("make_payment", ""),
                                            Agent("resume_line", ""),
                                            User("reboot_device", "")>>
    BY DEF Fixes, FixesService, ServiceIssues, MmsIssues, Permissions
  <2> QED
    BY <2>1, NextCall, Zenon
<1>2. n["overdue_bill_suspension"] \in {1, 2, 3, 4} /\ m["overdue_bill_suspension"] = n["overdue_bill_suspension"] - 1
  <2>1. n["overdue_bill_suspension"] \in 1..4 /\ m["overdue_bill_suspension"] = n["overdue_bill_suspension"] - 1
    BY <1>1 DEF Mending
  <2> QED
    BY <2>1
<1>3. /\ "contract_end_suspension" \notin S /\ n["contract_end_suspension"] = 0
      /\ m["contract_end_suspension"] = 0 /\ m["break_apn_mms_setting"] = n["break_apn_mms_setting"]
      /\ m["break_apn_settings"] = n["break_apn_settings"]
      /\ (n["break_apn_settings"] = 0 \/ n["break_apn_mms_setting"] = 0)
  <2>1. /\ "contract_end_suspension" \notin S /\ n["contract_end_suspension"] = 0
        /\ m["contract_end_suspension"] = 0
    BY <1>0, BaseTasksAre, NoSibling DEF Mending, Suspensions
  <2>2. /\ m["break_apn_mms_setting"] = n["break_apn_mms_setting"]
        /\ m["break_apn_settings"] = n["break_apn_settings"]
    BY <1>0, BaseTasksAre DEF Turns
  <2>3. n["break_apn_settings"] = 0 \/ n["break_apn_mms_setting"] = 0
    BY OneApn DEF Mending
  <2> QED
    BY <2>1, <2>2, <2>3
<1>4. CASE n["overdue_bill_suspension"] = 4
  <2> DEFINE x == Then(SendPaymentRequest(d, "overdue"))
  <2>1. d.request = NoRequest /\ d.bills["overdue"] = "overdue"
    BY <1>0, <1>4 DEF Ailing, LineSick
  <2>2. After(NextFix("overdue_bill_suspension", n["overdue_bill_suspension"]), d) = x
    <3>1. NextFix("overdue_bill_suspension", 4) = Agent("send_payment_request", "overdue") /\ n["overdue_bill_suspension"] = 4
      BY <1>1, <1>2, <1>4
    <3> QED
      BY <1>0, <3>1, <2>1, AgentAfter
  <2>3. /\ Touches({"bills", "request", "roaming_allowed", "exceeded"}, d, x)
        /\ Overdues(d, x, "awaiting")
    <3>1. {"bills", "request"} \cup Told = {"bills", "request", "roaming_allowed", "exceeded"}
      BY DEF Told
    <3> QED
      BY <1>0, <2>1, <3>1, RequestSent
  <2> HIDE DEF x
  <2>4. /\ SimSick(x, S, m) /\ AirSick(x, m) /\ ApnSick(x, m) /\ ModeSick(x, m) /\ SpeedSick(x, m)
        /\ WifiSick(x, m) /\ UsageSick(x, S, m) /\ RoamSick(x, S, m) /\ AppSick(x, m)
    <3>1. /\ Touches({"bills", "request", "roaming_allowed", "exceeded"}, d, x)
          /\ Turns({"overdue_bill_suspension"}, S, n, S, m)
      BY <1>0, <2>3
    <3> QED
      BY <1>0, <3>1, PartsKept DEF Ailing, ApnIssues, Usage, Roaming, Permissions
  <2>5. /\ x.airplane_mode = d.airplane_mode /\ x.apn_name = d.apn_name
        /\ x.line_active = d.line_active /\ x.line_status = d.line_status /\ x.mode = d.mode
        /\ x.sim_missing = d.sim_missing /\ x.sim_status = d.sim_status /\ x.status = d.status
        /\ x.tech = d.tech
    BY <2>3 DEF Touches, Fields, PhoneFields, AccountFields
  <2>6. LineSick(x, S, m)
    BY <1>0, <1>2, <1>3, <1>4, <2>1, <2>3, <2>5 DEF Ailing, LineSick, Overdues, BillIds, NoRequest
  <2>7. Reached(x, m)
    BY <1>0, <1>2, <1>3, <1>4, <2>1, <2>3, <2>5 DEF Ailing, Reached, Serves
  <2> QED
    BY <2>2, <2>4, <2>6, <2>7 DEF Ailing
<1>5. CASE n["overdue_bill_suspension"] = 3
  <2> DEFINE x == Then(Done(MakePayment(d)))
  <2>1. d.bills["overdue"] = "awaiting"
    BY <1>0, <1>5 DEF Ailing, LineSick
  <2>2. After(NextFix("overdue_bill_suspension", n["overdue_bill_suspension"]), d) = x
    <3>1. NextFix("overdue_bill_suspension", 3) = User("make_payment", "") /\ n["overdue_bill_suspension"] = 3
      BY <1>1, <1>2, <1>5
    <3> QED
      BY <1>0, <3>1, <2>1, AgentAfter
  <2>3. /\ Touches({"bills", "request", "roaming_allowed", "exceeded"}, d, x)
        /\ Overdues(d, x, "paid") /\ x.request = NoRequest
    <3>1. {"bills", "request"} \cup Told = {"bills", "request", "roaming_allowed", "exceeded"}
      BY DEF Told
    <3> QED
      BY <1>0, <2>1, <3>1, BillPaid
  <2> HIDE DEF x
  <2>4. /\ SimSick(x, S, m) /\ AirSick(x, m) /\ ApnSick(x, m) /\ ModeSick(x, m) /\ SpeedSick(x, m)
        /\ WifiSick(x, m) /\ UsageSick(x, S, m) /\ RoamSick(x, S, m) /\ AppSick(x, m)
    <3>1. /\ Touches({"bills", "request", "roaming_allowed", "exceeded"}, d, x)
          /\ Turns({"overdue_bill_suspension"}, S, n, S, m)
      BY <1>0, <2>3
    <3> QED
      BY <1>0, <3>1, PartsKept DEF Ailing, ApnIssues, Usage, Roaming, Permissions
  <2>5. /\ x.airplane_mode = d.airplane_mode /\ x.apn_name = d.apn_name
        /\ x.line_active = d.line_active /\ x.line_status = d.line_status /\ x.mode = d.mode
        /\ x.sim_missing = d.sim_missing /\ x.sim_status = d.sim_status /\ x.status = d.status
        /\ x.tech = d.tech
    BY <2>3 DEF Touches, Fields, PhoneFields, AccountFields
  <2>6. LineSick(x, S, m)
    BY <1>0, <1>2, <1>3, <1>5, <2>1, <2>3, <2>5 DEF Ailing, LineSick, Overdues, BillIds, NoRequest
  <2>7. Reached(x, m)
    BY <1>0, <1>2, <1>3, <1>5, <2>1, <2>3, <2>5 DEF Ailing, Reached, Serves
  <2> QED
    BY <2>2, <2>4, <2>6, <2>7 DEF Ailing
<1>6. CASE n["overdue_bill_suspension"] = 2
  <2> DEFINE x == Then(ResumeLine(d))
  <2>1. d.line_status = "suspended"
    BY <1>0, <1>6 DEF Ailing, LineSick
  <2>2. After(NextFix("overdue_bill_suspension", n["overdue_bill_suspension"]), d) = x
    <3>1. NextFix("overdue_bill_suspension", 2) = Agent("resume_line", "") /\ n["overdue_bill_suspension"] = 2
      BY <1>1, <1>2, <1>6
    <3> QED
      BY <1>0, <3>1, <2>1, AgentAfter
  <2>3. /\ Touches({"line_status", "line_active", "roaming_allowed", "exceeded"}, d, x)
        /\ x.line_status = "active"
    <3>1. {"line_status", "line_active"} \cup Told = {"line_status", "line_active", "roaming_allowed", "exceeded"}
      BY DEF Told
    <3> QED
      BY <1>0, <2>1, <3>1, LineResumed
  <2> HIDE DEF x
  <2>4. /\ SimSick(x, S, m) /\ AirSick(x, m) /\ ApnSick(x, m) /\ ModeSick(x, m) /\ SpeedSick(x, m)
        /\ WifiSick(x, m) /\ UsageSick(x, S, m) /\ RoamSick(x, S, m) /\ AppSick(x, m)
    <3>1. /\ Touches({"line_status", "line_active", "roaming_allowed", "exceeded"}, d, x)
          /\ Turns({"overdue_bill_suspension"}, S, n, S, m)
      BY <1>0, <2>3
    <3> QED
      BY <1>0, <3>1, PartsKept DEF Ailing, ApnIssues, Usage, Roaming, Permissions
  <2>5. /\ x.airplane_mode = d.airplane_mode /\ x.apn_name = d.apn_name /\ x.bills = d.bills
        /\ x.mode = d.mode /\ x.request = d.request /\ x.sim_missing = d.sim_missing
        /\ x.sim_status = d.sim_status /\ x.status = d.status /\ x.tech = d.tech
    BY <2>3 DEF Touches, Fields, PhoneFields, AccountFields
  <2>6. LineSick(x, S, m)
    BY <1>0, <1>2, <1>3, <1>6, <2>1, <2>3, <2>5 DEF Ailing, LineSick, Overdues, BillIds, NoRequest
  <2>7. Reached(x, m)
    <3>1. ~d.line_active
      BY <1>0, <2>1 DEF InStep, Derived
    <3>2. d.status # "connected"
      BY <1>0, <3>1 DEF Ailing, Reached, Serves
    <3> QED
      BY <1>0, <1>2, <1>6, <2>5, <3>2 DEF Ailing, Reached
  <2> QED
    BY <2>2, <2>4, <2>6, <2>7 DEF Ailing
<1>7. CASE n["overdue_bill_suspension"] = 1
  <2> DEFINE x == RebootDevice(d)
  <2>1. InStep("live", d)
    BY <1>0
  <2>2. After(NextFix("overdue_bill_suspension", n["overdue_bill_suspension"]), d) = x
    <3>1. NextFix("overdue_bill_suspension", 1) = User("reboot_device", "") /\ n["overdue_bill_suspension"] = 1
      BY <1>1, <1>2, <1>7
    <3> QED
      BY <1>0, <3>1, <2>1, PhoneCallsDo
  <2>3. /\ Touches({"apn_name", "apn_reset", "mmsc", "status", "tech"}, d, x) /\ Searched(x)
        /\ (d.apn_reset => x.apn_name = "internet" /\ ~x.apn_reset /\ x.mmsc)
        /\ (~d.apn_reset => x.apn_name = d.apn_name /\ x.apn_reset = d.apn_reset /\ x.mmsc = d.mmsc)
    <3>1. {"apn_name", "apn_reset", "mmsc"} \cup {"status", "tech"} = {"apn_name", "apn_reset", "mmsc", "status", "tech"}
      OBVIOUS
    <3>2. /\ SearchedAfter({"apn_name", "apn_reset", "mmsc"}, d, x)
          /\ (d.apn_reset => x.apn_name = "internet" /\ ~x.apn_reset /\ x.mmsc)
          /\ (~d.apn_reset => x.apn_name = d.apn_name /\ x.apn_reset = d.apn_reset /\ x.mmsc = d.mmsc)
      BY <1>0, RebootDoes, Zenon
    <3> QED
      BY <3>1, <3>2 DEF SearchedAfter
  <2> HIDE DEF x
  <2>4. /\ SimSick(x, S, m) /\ AirSick(x, m) /\ ModeSick(x, m) /\ SpeedSick(x, m) /\ WifiSick(x, m)
        /\ UsageSick(x, S, m) /\ RoamSick(x, S, m) /\ AppSick(x, m)
    <3>1. /\ Touches({"apn_name", "apn_reset", "mmsc", "status", "tech"}, d, x)
          /\ Turns({"overdue_bill_suspension"}, S, n, S, m)
      BY <1>0, <2>3
    <3> QED
      BY <1>0, <3>1, PartsKept DEF Ailing, Usage, Roaming, Permissions
  <2>5. x.bills = d.bills /\ x.line_status = d.line_status /\ x.request = d.request
    BY <2>3 DEF Touches, Fields, PhoneFields, AccountFields
  <2>6. ApnSick(x, m)
    BY <1>0, <1>2, <1>3, <1>7, <2>1, <2>3, <2>5 DEF Ailing, ApnSick
  <2>7. LineSick(x, S, m)
    BY <1>0, <1>2, <1>3, <1>7, <2>1, <2>3, <2>5 DEF Ailing, LineSick, Overdues, BillIds, NoRequest
  <2>8. Reached(x, m)
    BY <2>3, SearchedReaches
  <2> QED
    BY <2>2, <2>4, <2>6, <2>7, <2>8 DEF Ailing
<1> QED
  BY <1>2, <1>4, <1>5, <1>6, <1>7

LEMMA ModeMended ==
  ASSUME NEW d, NEW S, NEW n, NEW m, Mending(d, S, n, m, "bad_network_preference")
  PROVE  Ailing(After(NextFix("bad_network_preference", n["bad_network_preference"]), d), S, m)
<1>0. /\ InStep("live", d) /\ Shaped(d) /\ Ailing(d, S, n) /\ "bad_network_preference" \in S
      /\ Turns({"bad_network_preference"}, S, n, S, m)
  BY DEF Mending, InStep, Account
<1>1. /\ Len(Fixes("bad_network_preference")) = 1
      /\ NextFix("bad_network_preference", 1) = User("set_network_mode_preference", "prefer_5g")
  <2>1. Fixes("bad_network_preference") = <<User("set_network_mode_preference", "prefer_5g")>>
    BY DEF Fixes, FixesMobile, ServiceIssues, MmsIssues, Permissions
  <2> QED
    BY <2>1, NextCall, Zenon
<1>2. n["bad_network_preference"] \in {1} /\ m["bad_network_preference"] = n["bad_network_preference"] - 1
  <2>1. n["bad_network_preference"] \in 1..1 /\ m["bad_network_preference"] = n["bad_network_preference"] - 1
    BY <1>1 DEF Mending
  <2> QED
    BY <2>1
<1>3. "bad_network_preference" \in BaseTasks
  <2> QED
    BY BaseTasksAre
<1> QED
  <2> DEFINE x == SetNetworkMode(d, "prefer_5g")
  <2>1. InStep("live", d)
    BY <1>0
  <2>2. After(NextFix("bad_network_preference", n["bad_network_preference"]), d) = x
    <3>1. NextFix("bad_network_preference", 1) = User("set_network_mode_preference", "prefer_5g") /\ n["bad_network_preference"] = 1
      BY <1>1, <1>2
    <3> QED
      BY <1>0, <3>1, <2>1, PhoneCallsDo
  <2>3. Touches({"mode", "status", "tech"}, d, x) /\ Searched(x) /\ x.mode = "prefer_5g"
    <3>1. {"mode"} \cup {"status", "tech"} = {"mode", "status", "tech"}
      OBVIOUS
    <3>2. SearchedAfter({"mode"}, d, x) /\ x.mode = "prefer_5g"
      BY <1>0, ModeIsSet
    <3> QED
      BY <3>1, <3>2 DEF SearchedAfter
  <2> HIDE DEF x
  <2>4. /\ SimSick(x, S, m) /\ AirSick(x, m) /\ ApnSick(x, m) /\ LineSick(x, S, m) /\ SpeedSick(x, m)
        /\ WifiSick(x, m) /\ UsageSick(x, S, m) /\ RoamSick(x, S, m) /\ AppSick(x, m)
    <3>1. /\ Touches({"mode", "status", "tech"}, d, x)
          /\ Turns({"bad_network_preference"}, S, n, S, m)
      BY <1>0, <2>3
    <3> QED
      BY <1>0, <3>1, PartsKept DEF Ailing, ApnIssues, Suspensions, Usage, Roaming, Permissions
  <2>5. Reached(x, m)
    BY <2>3, SearchedReaches
  <2>6. ModeSick(x, m)
    BY <1>0, <1>2, <1>3, <2>1, <2>3 DEF Ailing, ModeSick
  <2> QED
    BY <2>2, <2>4, <2>5, <2>6 DEF Ailing

LEMMA VpnMended ==
  ASSUME NEW d, NEW S, NEW n, NEW m, Mending(d, S, n, m, "bad_vpn")
  PROVE  Ailing(After(NextFix("bad_vpn", n["bad_vpn"]), d), S, m)
<1>0. /\ InStep("live", d) /\ Shaped(d) /\ Ailing(d, S, n) /\ "bad_vpn" \in S
      /\ Turns({"bad_vpn"}, S, n, S, m)
  BY DEF Mending, InStep, Account
<1>1. Len(Fixes("bad_vpn")) = 1 /\ NextFix("bad_vpn", 1) = User("disconnect_vpn", "")
  <2>1. Fixes("bad_vpn") = <<User("disconnect_vpn", "")>>
    BY DEF Fixes, FixesMobile, ServiceIssues, MmsIssues, Permissions
  <2> QED
    BY <2>1, NextCall, Zenon
<1>2. n["bad_vpn"] \in {1} /\ m["bad_vpn"] = n["bad_vpn"] - 1
  <2>1. n["bad_vpn"] \in 1..1 /\ m["bad_vpn"] = n["bad_vpn"] - 1
    BY <1>1 DEF Mending
  <2> QED
    BY <2>1
<1>3. m["data_mode_off"] = n["data_mode_off"] /\ m["data_saver_mode_on"] = n["data_saver_mode_on"]
  <2>2. /\ m["data_mode_off"] = n["data_mode_off"]
        /\ m["data_saver_mode_on"] = n["data_saver_mode_on"]
    BY <1>0, BaseTasksAre DEF Turns
  <2> QED
    BY <2>2
<1> QED
  <2> DEFINE x == DisconnectVpn(d)
  <2>1. InStep("live", d)
    BY <1>0
  <2>2. After(NextFix("bad_vpn", n["bad_vpn"]), d) = x
    <3>1. NextFix("bad_vpn", 1) = User("disconnect_vpn", "") /\ n["bad_vpn"] = 1
      BY <1>1, <1>2
    <3> QED
      BY <1>0, <3>1, <2>1, PhoneCallsDo
  <2>3. Touches({"vpn"}, d, x) /\ x.vpn = FALSE
    BY <1>0, SettersDo, Zenon
  <2> HIDE DEF x
  <2>4. /\ SimSick(x, S, m) /\ AirSick(x, m) /\ ApnSick(x, m) /\ LineSick(x, S, m) /\ Reached(x, m)
        /\ ModeSick(x, m) /\ WifiSick(x, m) /\ UsageSick(x, S, m) /\ RoamSick(x, S, m)
        /\ AppSick(x, m)
    <3>1. /\ Touches({"vpn"}, d, x)
          /\ Turns({"bad_vpn"}, S, n, S, m)
      BY <1>0, <2>3
    <3> QED
      BY <1>0, <3>1, PartsKept DEF Ailing, ApnIssues, Suspensions, Usage, Roaming, Permissions
  <2>5. x.data = d.data /\ x.saver = d.saver /\ x.vpn_poor = d.vpn_poor
    BY <2>3 DEF Touches, Fields, PhoneFields, AccountFields
  <2>6. SpeedSick(x, m)
    BY <1>0, <1>2, <1>3, <2>1, <2>3, <2>5 DEF Ailing, SpeedSick
  <2> QED
    BY <2>2, <2>4, <2>6 DEF Ailing

LEMMA DataMended ==
  ASSUME NEW d, NEW S, NEW n, NEW m, Mending(d, S, n, m, "data_mode_off")
  PROVE  Ailing(After(NextFix("data_mode_off", n["data_mode_off"]), d), S, m)
<1>0. /\ InStep("live", d) /\ Shaped(d) /\ Ailing(d, S, n) /\ "data_mode_off" \in S
      /\ Turns({"data_mode_off"}, S, n, S, m)
  BY DEF Mending, InStep, Account
<1>1. Len(Fixes("data_mode_off")) = 1 /\ NextFix("data_mode_off", 1) = User("toggle_data", "")
  <2>1. Fixes("data_mode_off") = <<User("toggle_data", "")>>
    BY DEF Fixes, FixesMobile, ServiceIssues, MmsIssues, Permissions
  <2> QED
    BY <2>1, NextCall, Zenon
<1>2. n["data_mode_off"] \in {1} /\ m["data_mode_off"] = n["data_mode_off"] - 1
  <2>1. n["data_mode_off"] \in 1..1 /\ m["data_mode_off"] = n["data_mode_off"] - 1
    BY <1>1 DEF Mending
  <2> QED
    BY <2>1
<1>3. m["bad_vpn"] = n["bad_vpn"] /\ m["data_saver_mode_on"] = n["data_saver_mode_on"]
  <2>2. m["bad_vpn"] = n["bad_vpn"] /\ m["data_saver_mode_on"] = n["data_saver_mode_on"]
    BY <1>0, BaseTasksAre DEF Turns
  <2> QED
    BY <2>2
<1> QED
  <2> DEFINE x == ToggleData(d)
  <2>1. InStep("live", d)
    BY <1>0
  <2>2. After(NextFix("data_mode_off", n["data_mode_off"]), d) = x
    <3>1. NextFix("data_mode_off", 1) = User("toggle_data", "") /\ n["data_mode_off"] = 1
      BY <1>1, <1>2
    <3> QED
      BY <1>0, <3>1, <2>1, PhoneCallsDo
  <2>3. Touches({"data", "status", "tech"}, d, x) /\ Searched(x) /\ (x.data <=> ~d.data)
    <3>1. {"data"} \cup {"status", "tech"} = {"data", "status", "tech"}
      OBVIOUS
    <3>2. SearchedAfter({"data"}, d, x) /\ (x.data <=> ~d.data)
      BY <1>0, SearchersDo, Zenon
    <3> QED
      BY <3>1, <3>2 DEF SearchedAfter
  <2> HIDE DEF x
  <2>4. /\ SimSick(x, S, m) /\ AirSick(x, m) /\ ApnSick(x, m) /\ LineSick(x, S, m) /\ ModeSick(x, m)
        /\ WifiSick(x, m) /\ UsageSick(x, S, m) /\ RoamSick(x, S, m) /\ AppSick(x, m)
    <3>1. /\ Touches({"data", "status", "tech"}, d, x)
          /\ Turns({"data_mode_off"}, S, n, S, m)
      BY <1>0, <2>3
    <3> QED
      BY <1>0, <3>1, PartsKept DEF Ailing, ApnIssues, Suspensions, Usage, Roaming, Permissions
  <2>5. x.saver = d.saver /\ x.vpn = d.vpn /\ x.vpn_poor = d.vpn_poor
    BY <2>3 DEF Touches, Fields, PhoneFields, AccountFields
  <2>6. Reached(x, m)
    BY <2>3, SearchedReaches
  <2>7. SpeedSick(x, m)
    BY <1>0, <1>2, <1>3, <2>1, <2>3, <2>5 DEF Ailing, SpeedSick
  <2> QED
    BY <2>2, <2>4, <2>6, <2>7 DEF Ailing

LEMMA SaverMended ==
  ASSUME NEW d, NEW S, NEW n, NEW m, Mending(d, S, n, m, "data_saver_mode_on")
  PROVE  Ailing(After(NextFix("data_saver_mode_on", n["data_saver_mode_on"]), d), S, m)
<1>0. /\ InStep("live", d) /\ Shaped(d) /\ Ailing(d, S, n) /\ "data_saver_mode_on" \in S
      /\ Turns({"data_saver_mode_on"}, S, n, S, m)
  BY DEF Mending, InStep, Account
<1>1. /\ Len(Fixes("data_saver_mode_on")) = 1
      /\ NextFix("data_saver_mode_on", 1) = User("toggle_data_saver_mode", "")
  <2>1. Fixes("data_saver_mode_on") = <<User("toggle_data_saver_mode", "")>>
    BY DEF Fixes, FixesMobile, ServiceIssues, MmsIssues, Permissions
  <2> QED
    BY <2>1, NextCall, Zenon
<1>2. n["data_saver_mode_on"] \in {1} /\ m["data_saver_mode_on"] = n["data_saver_mode_on"] - 1
  <2>1. n["data_saver_mode_on"] \in 1..1 /\ m["data_saver_mode_on"] = n["data_saver_mode_on"] - 1
    BY <1>1 DEF Mending
  <2> QED
    BY <2>1
<1>3. m["bad_vpn"] = n["bad_vpn"] /\ m["data_mode_off"] = n["data_mode_off"]
  <2>2. m["bad_vpn"] = n["bad_vpn"] /\ m["data_mode_off"] = n["data_mode_off"]
    BY <1>0, BaseTasksAre DEF Turns
  <2> QED
    BY <2>2
<1> QED
  <2> DEFINE x == ToggleDataSaver(d)
  <2>1. InStep("live", d)
    BY <1>0
  <2>2. After(NextFix("data_saver_mode_on", n["data_saver_mode_on"]), d) = x
    <3>1. NextFix("data_saver_mode_on", 1) = User("toggle_data_saver_mode", "") /\ n["data_saver_mode_on"] = 1
      BY <1>1, <1>2
    <3> QED
      BY <1>0, <3>1, <2>1, PhoneCallsDo
  <2>3. Touches({"saver"}, d, x) /\ (x.saver <=> ~d.saver)
    BY <1>0, SettersDo, Zenon
  <2> HIDE DEF x
  <2>4. /\ SimSick(x, S, m) /\ AirSick(x, m) /\ ApnSick(x, m) /\ LineSick(x, S, m) /\ Reached(x, m)
        /\ ModeSick(x, m) /\ WifiSick(x, m) /\ UsageSick(x, S, m) /\ RoamSick(x, S, m)
        /\ AppSick(x, m)
    <3>1. /\ Touches({"saver"}, d, x)
          /\ Turns({"data_saver_mode_on"}, S, n, S, m)
      BY <1>0, <2>3
    <3> QED
      BY <1>0, <3>1, PartsKept DEF Ailing, ApnIssues, Suspensions, Usage, Roaming, Permissions
  <2>5. x.data = d.data /\ x.vpn = d.vpn /\ x.vpn_poor = d.vpn_poor
    BY <2>3 DEF Touches, Fields, PhoneFields, AccountFields
  <2>6. SpeedSick(x, m)
    BY <1>0, <1>2, <1>3, <2>1, <2>3, <2>5 DEF Ailing, SpeedSick
  <2> QED
    BY <2>2, <2>4, <2>6 DEF Ailing

LEMMA UsageMended ==
  ASSUME NEW d, NEW S, NEW n, NEW m, Mending(d, S, n, m, "data_usage_exceeded")
  PROVE  Ailing(After(NextFix("data_usage_exceeded", n["data_usage_exceeded"]), d), S, m)
<1>0. /\ InStep("live", d) /\ Shaped(d) /\ Ailing(d, S, n) /\ "data_usage_exceeded" \in S
      /\ Turns({"data_usage_exceeded"}, S, n, S, m) /\ RoomForBill(d)
  BY DEF Mending, InStep, Account
<1>1. /\ Len(Fixes("data_usage_exceeded")) = 1
      /\ NextFix("data_usage_exceeded", 1) = Agent("refuel_data", "")
  <2>1. Fixes("data_usage_exceeded") = <<Agent("refuel_data", "")>>
    BY DEF Fixes, FixesMobile, ServiceIssues, MmsIssues, Permissions
  <2> QED
    BY <2>1, NextCall, Zenon
<1>2. n["data_usage_exceeded"] \in {1} /\ m["data_usage_exceeded"] = n["data_usage_exceeded"] - 1
  <2>1. n["data_usage_exceeded"] \in 1..1 /\ m["data_usage_exceeded"] = n["data_usage_exceeded"] - 1
    BY <1>1 DEF Mending
  <2> QED
    BY <2>1
<1>3. /\ "data_usage_exceeded_no_refuel" \notin S /\ n["data_usage_exceeded_no_refuel"] = 0
      /\ m["data_usage_exceeded_no_refuel"] = 0
      /\ m["contract_end_suspension"] = n["contract_end_suspension"]
      /\ m["overdue_bill_suspension"] = n["overdue_bill_suspension"]
  <2>1. /\ "data_usage_exceeded_no_refuel" \notin S /\ n["data_usage_exceeded_no_refuel"] = 0
        /\ m["data_usage_exceeded_no_refuel"] = 0
    BY <1>0, BaseTasksAre, NoSibling DEF Mending, Usage
  <2>2. /\ m["contract_end_suspension"] = n["contract_end_suspension"]
        /\ m["overdue_bill_suspension"] = n["overdue_bill_suspension"]
    BY <1>0, BaseTasksAre DEF Turns
  <2> QED
    BY <2>1, <2>2
<1> QED
  <2> DEFINE x == Then(RefuelData("live", d))
  <2>1. RoomForBill(d)
    BY <1>0
  <2>2. After(NextFix("data_usage_exceeded", n["data_usage_exceeded"]), d) = x
    <3>1. NextFix("data_usage_exceeded", 1) = Agent("refuel_data", "") /\ n["data_usage_exceeded"] = 1
      BY <1>1, <1>2
    <3> QED
      BY <1>0, <3>1, <2>1, AgentAfter
  <2>3. /\ Touches({"data_refueling", "bills", "drawn", "roaming_allowed", "exceeded"}, d, x)
        /\ x.data_refueling = d.data_refueling + 20
        /\ (\A b \in BillIds \ {"draft", "draft2"} : x.bills[b] = d.bills[b])
    <3>1. {"data_refueling", "bills", "drawn"} \cup Told = {"data_refueling", "bills", "drawn", "roaming_allowed", "exceeded"}
      BY DEF Told
    <3> QED
      BY <1>0, <2>1, <3>1, Refueled
  <2> HIDE DEF x
  <2>4. /\ SimSick(x, S, m) /\ AirSick(x, m) /\ ApnSick(x, m) /\ Reached(x, m) /\ ModeSick(x, m)
        /\ SpeedSick(x, m) /\ WifiSick(x, m) /\ RoamSick(x, S, m) /\ AppSick(x, m)
    <3>1. /\ Touches({"data_refueling", "bills", "drawn", "roaming_allowed", "exceeded"}, d, x)
          /\ Turns({"data_usage_exceeded"}, S, n, S, m)
      BY <1>0, <2>3
    <3> QED
      BY <1>0, <3>1, PartsKept DEF Ailing, ApnIssues, Roaming, Permissions
  <2>5. x.data_used = d.data_used /\ x.line_status = d.line_status /\ x.request = d.request
    BY <2>3 DEF Touches, Fields, PhoneFields, AccountFields
  <2>6. LineSick(x, S, m)
    BY <1>0, <1>2, <1>3, <2>1, <2>3, <2>5 DEF Ailing, LineSick, Overdues, BillIds, NoRequest
  <2>7. UsageSick(x, S, m)
    BY <1>0, <1>2, <1>3, <2>1, <2>3, <2>5 DEF Ailing, UsageSick
  <2> QED
    BY <2>2, <2>4, <2>6, <2>7 DEF Ailing

LEMMA RoamingOffMended ==
  ASSUME NEW d, NEW S, NEW n, NEW m, Mending(d, S, n, m, "user_abroad_roaming_disabled_off")
  PROVE  Ailing(After(NextFix("user_abroad_roaming_disabled_off", n["user_abroad_roaming_disabled_off"]), d), S, m)
<1>0. /\ InStep("live", d) /\ Shaped(d) /\ Ailing(d, S, n) /\ "user_abroad_roaming_disabled_off" \in S
      /\ Turns({"user_abroad_roaming_disabled_off"}, S, n, S, m)
  BY DEF Mending, InStep, Account
<1>1. /\ Len(Fixes("user_abroad_roaming_disabled_off")) = 2
      /\ NextFix("user_abroad_roaming_disabled_off", 2) = Agent("enable_roaming", "")
      /\ NextFix("user_abroad_roaming_disabled_off", 1) = User("toggle_roaming", "")
  <2>1. Fixes("user_abroad_roaming_disabled_off") = <<Agent("enable_roaming", ""), User("toggle_roaming", "")>>
    BY DEF Fixes, FixesMobile, ServiceIssues, MmsIssues, Permissions
  <2> QED
    BY <2>1, NextCall, Zenon
<1>2. n["user_abroad_roaming_disabled_off"] \in {1, 2} /\ m["user_abroad_roaming_disabled_off"] = n["user_abroad_roaming_disabled_off"] - 1
  <2>1. n["user_abroad_roaming_disabled_off"] \in 1..2 /\ m["user_abroad_roaming_disabled_off"] = n["user_abroad_roaming_disabled_off"] - 1
    BY <1>1 DEF Mending
  <2> QED
    BY <2>1
<1>3. /\ "user_abroad_roaming_disabled_on" \notin S /\ n["user_abroad_roaming_disabled_on"] = 0
      /\ m["user_abroad_roaming_disabled_on"] = 0 /\ "user_abroad_roaming_enabled_off" \notin S
      /\ n["user_abroad_roaming_enabled_off"] = 0 /\ m["user_abroad_roaming_enabled_off"] = 0
  <2>1. /\ "user_abroad_roaming_disabled_on" \notin S /\ n["user_abroad_roaming_disabled_on"] = 0
        /\ m["user_abroad_roaming_disabled_on"] = 0 /\ "user_abroad_roaming_enabled_off" \notin S
        /\ n["user_abroad_roaming_enabled_off"] = 0 /\ m["user_abroad_roaming_enabled_off"] = 0
    BY <1>0, BaseTasksAre, NoSibling DEF Mending, Roaming
  <2> QED
    BY <2>1
<1>4. CASE n["user_abroad_roaming_disabled_off"] = 2
  <2> DEFINE x == Then(SetLineRoaming(d, TRUE))
  <2>1. InStep("live", d)
    BY <1>0
  <2>2. After(NextFix("user_abroad_roaming_disabled_off", n["user_abroad_roaming_disabled_off"]), d) = x
    <3>1. NextFix("user_abroad_roaming_disabled_off", 2) = Agent("enable_roaming", "") /\ n["user_abroad_roaming_disabled_off"] = 2
      BY <1>1, <1>2, <1>4
    <3> QED
      BY <1>0, <3>1, <2>1, AgentAfter
  <2>3. Touches({"line_roaming", "roaming_allowed", "exceeded"}, d, x) /\ x.line_roaming = TRUE
    <3>1. {"line_roaming"} \cup Told = {"line_roaming", "roaming_allowed", "exceeded"}
      BY DEF Told
    <3> QED
      BY <1>0, <2>1, <3>1, LineRoamingSet
  <2> HIDE DEF x
  <2>4. /\ SimSick(x, S, m) /\ AirSick(x, m) /\ ApnSick(x, m) /\ LineSick(x, S, m) /\ Reached(x, m)
        /\ ModeSick(x, m) /\ SpeedSick(x, m) /\ WifiSick(x, m) /\ UsageSick(x, S, m) /\ AppSick(x, m)
    <3>1. /\ Touches({"line_roaming", "roaming_allowed", "exceeded"}, d, x)
          /\ Turns({"user_abroad_roaming_disabled_off"}, S, n, S, m)
      BY <1>0, <2>3
    <3> QED
      BY <1>0, <3>1, PartsKept DEF Ailing, ApnIssues, Suspensions, Usage, Permissions
  <2>5. x.abroad = d.abroad /\ x.roaming = d.roaming
    BY <2>3 DEF Touches, Fields, PhoneFields, AccountFields
  <2>6. RoamSick(x, S, m)
    BY <1>0, <1>2, <1>3, <1>4, <2>1, <2>3, <2>5 DEF Ailing, RoamSick, Roaming
  <2> QED
    BY <2>2, <2>4, <2>6 DEF Ailing
<1>5. CASE n["user_abroad_roaming_disabled_off"] = 1
  <2> DEFINE x == ToggleRoaming(d)
  <2>1. InStep("live", d)
    BY <1>0
  <2>2. After(NextFix("user_abroad_roaming_disabled_off", n["user_abroad_roaming_disabled_off"]), d) = x
    <3>1. NextFix("user_abroad_roaming_disabled_off", 1) = User("toggle_roaming", "") /\ n["user_abroad_roaming_disabled_off"] = 1
      BY <1>1, <1>2, <1>5
    <3> QED
      BY <1>0, <3>1, <2>1, PhoneCallsDo
  <2>3. /\ Touches({"roaming", "status", "tech"}, d, x) /\ Searched(x) /\ (x.roaming <=> ~d.roaming)
        /\ x.roaming \in BOOLEAN
    <3>1. {"roaming"} \cup {"status", "tech"} = {"roaming", "status", "tech"}
      OBVIOUS
    <3>2. SearchedAfter({"roaming"}, d, x) /\ (x.roaming <=> ~d.roaming) /\ x.roaming \in BOOLEAN
      BY <1>0, SearchersDo, Zenon
    <3> QED
      BY <3>1, <3>2 DEF SearchedAfter
  <2> HIDE DEF x
  <2>4. /\ SimSick(x, S, m) /\ AirSick(x, m) /\ ApnSick(x, m) /\ LineSick(x, S, m) /\ ModeSick(x, m)
        /\ SpeedSick(x, m) /\ WifiSick(x, m) /\ UsageSick(x, S, m) /\ AppSick(x, m)
    <3>1. /\ Touches({"roaming", "status", "tech"}, d, x)
          /\ Turns({"user_abroad_roaming_disabled_off"}, S, n, S, m)
      BY <1>0, <2>3
    <3> QED
      BY <1>0, <3>1, PartsKept DEF Ailing, ApnIssues, Suspensions, Usage, Permissions
  <2>5. x.abroad = d.abroad /\ x.line_roaming = d.line_roaming
    BY <2>3 DEF Touches, Fields, PhoneFields, AccountFields
  <2>6. Reached(x, m)
    BY <2>3, SearchedReaches
  <2>7. RoamSick(x, S, m)
    BY <1>0, <1>2, <1>3, <1>5, <2>1, <2>3, <2>5 DEF Ailing, RoamSick, Roaming
  <2> QED
    BY <2>2, <2>4, <2>6, <2>7 DEF Ailing
<1> QED
  BY <1>2, <1>4, <1>5

LEMMA LineRoamingMended ==
  ASSUME NEW d, NEW S, NEW n, NEW m, Mending(d, S, n, m, "user_abroad_roaming_disabled_on")
  PROVE  Ailing(After(NextFix("user_abroad_roaming_disabled_on", n["user_abroad_roaming_disabled_on"]), d), S, m)
<1>0. /\ InStep("live", d) /\ Shaped(d) /\ Ailing(d, S, n) /\ "user_abroad_roaming_disabled_on" \in S
      /\ Turns({"user_abroad_roaming_disabled_on"}, S, n, S, m)
  BY DEF Mending, InStep, Account
<1>1. /\ Len(Fixes("user_abroad_roaming_disabled_on")) = 1
      /\ NextFix("user_abroad_roaming_disabled_on", 1) = Agent("enable_roaming", "")
  <2>1. Fixes("user_abroad_roaming_disabled_on") = <<Agent("enable_roaming", "")>>
    BY DEF Fixes, FixesMobile, ServiceIssues, MmsIssues, Permissions
  <2> QED
    BY <2>1, NextCall, Zenon
<1>2. n["user_abroad_roaming_disabled_on"] \in {1} /\ m["user_abroad_roaming_disabled_on"] = n["user_abroad_roaming_disabled_on"] - 1
  <2>1. n["user_abroad_roaming_disabled_on"] \in 1..1 /\ m["user_abroad_roaming_disabled_on"] = n["user_abroad_roaming_disabled_on"] - 1
    BY <1>1 DEF Mending
  <2> QED
    BY <2>1
<1>3. /\ "user_abroad_roaming_disabled_off" \notin S /\ n["user_abroad_roaming_disabled_off"] = 0
      /\ m["user_abroad_roaming_disabled_off"] = 0 /\ "user_abroad_roaming_enabled_off" \notin S
      /\ n["user_abroad_roaming_enabled_off"] = 0 /\ m["user_abroad_roaming_enabled_off"] = 0
  <2>1. /\ "user_abroad_roaming_disabled_off" \notin S /\ n["user_abroad_roaming_disabled_off"] = 0
        /\ m["user_abroad_roaming_disabled_off"] = 0 /\ "user_abroad_roaming_enabled_off" \notin S
        /\ n["user_abroad_roaming_enabled_off"] = 0 /\ m["user_abroad_roaming_enabled_off"] = 0
    BY <1>0, BaseTasksAre, NoSibling DEF Mending, Roaming
  <2> QED
    BY <2>1
<1> QED
  <2> DEFINE x == Then(SetLineRoaming(d, TRUE))
  <2>1. InStep("live", d)
    BY <1>0
  <2>2. After(NextFix("user_abroad_roaming_disabled_on", n["user_abroad_roaming_disabled_on"]), d) = x
    <3>1. NextFix("user_abroad_roaming_disabled_on", 1) = Agent("enable_roaming", "") /\ n["user_abroad_roaming_disabled_on"] = 1
      BY <1>1, <1>2
    <3> QED
      BY <1>0, <3>1, <2>1, AgentAfter
  <2>3. Touches({"line_roaming", "roaming_allowed", "exceeded"}, d, x) /\ x.line_roaming = TRUE
    <3>1. {"line_roaming"} \cup Told = {"line_roaming", "roaming_allowed", "exceeded"}
      BY DEF Told
    <3> QED
      BY <1>0, <2>1, <3>1, LineRoamingSet
  <2> HIDE DEF x
  <2>4. /\ SimSick(x, S, m) /\ AirSick(x, m) /\ ApnSick(x, m) /\ LineSick(x, S, m) /\ Reached(x, m)
        /\ ModeSick(x, m) /\ SpeedSick(x, m) /\ WifiSick(x, m) /\ UsageSick(x, S, m) /\ AppSick(x, m)
    <3>1. /\ Touches({"line_roaming", "roaming_allowed", "exceeded"}, d, x)
          /\ Turns({"user_abroad_roaming_disabled_on"}, S, n, S, m)
      BY <1>0, <2>3
    <3> QED
      BY <1>0, <3>1, PartsKept DEF Ailing, ApnIssues, Suspensions, Usage, Permissions
  <2>5. x.abroad = d.abroad /\ x.roaming = d.roaming
    BY <2>3 DEF Touches, Fields, PhoneFields, AccountFields
  <2>6. RoamSick(x, S, m)
    BY <1>0, <1>2, <1>3, <2>1, <2>3, <2>5 DEF Ailing, RoamSick, Roaming
  <2> QED
    BY <2>2, <2>4, <2>6 DEF Ailing

LEMMA PhoneRoamingMended ==
  ASSUME NEW d, NEW S, NEW n, NEW m, Mending(d, S, n, m, "user_abroad_roaming_enabled_off")
  PROVE  Ailing(After(NextFix("user_abroad_roaming_enabled_off", n["user_abroad_roaming_enabled_off"]), d), S, m)
<1>0. /\ InStep("live", d) /\ Shaped(d) /\ Ailing(d, S, n) /\ "user_abroad_roaming_enabled_off" \in S
      /\ Turns({"user_abroad_roaming_enabled_off"}, S, n, S, m)
  BY DEF Mending, InStep, Account
<1>1. /\ Len(Fixes("user_abroad_roaming_enabled_off")) = 1
      /\ NextFix("user_abroad_roaming_enabled_off", 1) = User("toggle_roaming", "")
  <2>1. Fixes("user_abroad_roaming_enabled_off") = <<User("toggle_roaming", "")>>
    BY DEF Fixes, FixesMobile, ServiceIssues, MmsIssues, Permissions
  <2> QED
    BY <2>1, NextCall, Zenon
<1>2. n["user_abroad_roaming_enabled_off"] \in {1} /\ m["user_abroad_roaming_enabled_off"] = n["user_abroad_roaming_enabled_off"] - 1
  <2>1. n["user_abroad_roaming_enabled_off"] \in 1..1 /\ m["user_abroad_roaming_enabled_off"] = n["user_abroad_roaming_enabled_off"] - 1
    BY <1>1 DEF Mending
  <2> QED
    BY <2>1
<1>3. /\ "user_abroad_roaming_disabled_off" \notin S /\ n["user_abroad_roaming_disabled_off"] = 0
      /\ m["user_abroad_roaming_disabled_off"] = 0 /\ "user_abroad_roaming_disabled_on" \notin S
      /\ n["user_abroad_roaming_disabled_on"] = 0 /\ m["user_abroad_roaming_disabled_on"] = 0
  <2>1. /\ "user_abroad_roaming_disabled_off" \notin S /\ n["user_abroad_roaming_disabled_off"] = 0
        /\ m["user_abroad_roaming_disabled_off"] = 0 /\ "user_abroad_roaming_disabled_on" \notin S
        /\ n["user_abroad_roaming_disabled_on"] = 0 /\ m["user_abroad_roaming_disabled_on"] = 0
    BY <1>0, BaseTasksAre, NoSibling DEF Mending, Roaming
  <2> QED
    BY <2>1
<1> QED
  <2> DEFINE x == ToggleRoaming(d)
  <2>1. InStep("live", d)
    BY <1>0
  <2>2. After(NextFix("user_abroad_roaming_enabled_off", n["user_abroad_roaming_enabled_off"]), d) = x
    <3>1. NextFix("user_abroad_roaming_enabled_off", 1) = User("toggle_roaming", "") /\ n["user_abroad_roaming_enabled_off"] = 1
      BY <1>1, <1>2
    <3> QED
      BY <1>0, <3>1, <2>1, PhoneCallsDo
  <2>3. /\ Touches({"roaming", "status", "tech"}, d, x) /\ Searched(x) /\ (x.roaming <=> ~d.roaming)
        /\ x.roaming \in BOOLEAN
    <3>1. {"roaming"} \cup {"status", "tech"} = {"roaming", "status", "tech"}
      OBVIOUS
    <3>2. SearchedAfter({"roaming"}, d, x) /\ (x.roaming <=> ~d.roaming) /\ x.roaming \in BOOLEAN
      BY <1>0, SearchersDo, Zenon
    <3> QED
      BY <3>1, <3>2 DEF SearchedAfter
  <2> HIDE DEF x
  <2>4. /\ SimSick(x, S, m) /\ AirSick(x, m) /\ ApnSick(x, m) /\ LineSick(x, S, m) /\ ModeSick(x, m)
        /\ SpeedSick(x, m) /\ WifiSick(x, m) /\ UsageSick(x, S, m) /\ AppSick(x, m)
    <3>1. /\ Touches({"roaming", "status", "tech"}, d, x)
          /\ Turns({"user_abroad_roaming_enabled_off"}, S, n, S, m)
      BY <1>0, <2>3
    <3> QED
      BY <1>0, <3>1, PartsKept DEF Ailing, ApnIssues, Suspensions, Usage, Permissions
  <2>5. x.abroad = d.abroad /\ x.line_roaming = d.line_roaming
    BY <2>3 DEF Touches, Fields, PhoneFields, AccountFields
  <2>6. Reached(x, m)
    BY <2>3, SearchedReaches
  <2>7. RoamSick(x, S, m)
    BY <1>0, <1>2, <1>3, <2>1, <2>3, <2>5 DEF Ailing, RoamSick, Roaming
  <2> QED
    BY <2>2, <2>4, <2>6, <2>7 DEF Ailing

LEMMA WifiMended ==
  ASSUME NEW d, NEW S, NEW n, NEW m, Mending(d, S, n, m, "bad_wifi_calling")
  PROVE  Ailing(After(NextFix("bad_wifi_calling", n["bad_wifi_calling"]), d), S, m)
<1>0. /\ InStep("live", d) /\ Shaped(d) /\ Ailing(d, S, n) /\ "bad_wifi_calling" \in S
      /\ Turns({"bad_wifi_calling"}, S, n, S, m)
  BY DEF Mending, InStep, Account
<1>1. /\ Len(Fixes("bad_wifi_calling")) = 1
      /\ NextFix("bad_wifi_calling", 1) = User("toggle_wifi_calling", "")
  <2>1. Fixes("bad_wifi_calling") = <<User("toggle_wifi_calling", "")>>
    BY DEF Fixes, FixesMms, ServiceIssues, MmsIssues, Permissions
  <2> QED
    BY <2>1, NextCall, Zenon
<1>2. n["bad_wifi_calling"] \in {1} /\ m["bad_wifi_calling"] = n["bad_wifi_calling"] - 1
  <2>1. n["bad_wifi_calling"] \in 1..1 /\ m["bad_wifi_calling"] = n["bad_wifi_calling"] - 1
    BY <1>1 DEF Mending
  <2> QED
    BY <2>1
<1>3. "bad_wifi_calling" \in BaseTasks
  <2> QED
    BY BaseTasksAre
<1> QED
  <2> DEFINE x == ToggleWifiCalling(d)
  <2>1. InStep("live", d)
    BY <1>0
  <2>2. After(NextFix("bad_wifi_calling", n["bad_wifi_calling"]), d) = x
    <3>1. NextFix("bad_wifi_calling", 1) = User("toggle_wifi_calling", "") /\ n["bad_wifi_calling"] = 1
      BY <1>1, <1>2
    <3> QED
      BY <1>0, <3>1, <2>1, PhoneCallsDo
  <2>3. Touches({"wifi_calling"}, d, x) /\ (x.wifi_calling <=> ~d.wifi_calling)
    BY <1>0, SettersDo, Zenon
  <2> HIDE DEF x
  <2>4. /\ SimSick(x, S, m) /\ AirSick(x, m) /\ ApnSick(x, m) /\ LineSick(x, S, m) /\ Reached(x, m)
        /\ ModeSick(x, m) /\ SpeedSick(x, m) /\ UsageSick(x, S, m) /\ RoamSick(x, S, m)
        /\ AppSick(x, m)
    <3>1. /\ Touches({"wifi_calling"}, d, x)
          /\ Turns({"bad_wifi_calling"}, S, n, S, m)
      BY <1>0, <2>3
    <3> QED
      BY <1>0, <3>1, PartsKept DEF Ailing, ApnIssues, Suspensions, Usage, Roaming, Permissions
  <2>5. x.mms_over_wifi = d.mms_over_wifi
    BY <2>3 DEF Touches, Fields, PhoneFields, AccountFields
  <2>6. WifiSick(x, m)
    BY <1>0, <1>2, <1>3, <2>1, <2>3, <2>5 DEF Ailing, WifiSick
  <2> QED
    BY <2>2, <2>4, <2>6 DEF Ailing

LEMMA PermissionsMended ==
  ASSUME NEW d, NEW S, NEW n, NEW m, Mending(d, S, n, m, "break_app_both_permissions")
  PROVE  Ailing(After(NextFix("break_app_both_permissions", n["break_app_both_permissions"]), d), S, m)
<1>0. /\ InStep("live", d) /\ Shaped(d) /\ Ailing(d, S, n) /\ "break_app_both_permissions" \in S
      /\ Turns({"break_app_both_permissions"}, S, n, S, m)
  BY DEF Mending, InStep, Account
<1>1. /\ Len(Fixes("break_app_both_permissions")) = 2
      /\ NextFix("break_app_both_permissions", 2) = User("grant_app_permission", "sms")
      /\ NextFix("break_app_both_permissions", 1) = User("grant_app_permission", "storage")
  <2>1. Fixes("break_app_both_permissions") = <<User("grant_app_permission", "sms"), User("grant_app_permission", "storage")>>
    BY DEF Fixes, FixesMms, ServiceIssues, MmsIssues, Permissions
  <2> QED
    BY <2>1, NextCall, Zenon
<1>2. n["break_app_both_permissions"] \in {1, 2} /\ m["break_app_both_permissions"] = n["break_app_both_permissions"] - 1
  <2>1. n["break_app_both_permissions"] \in 1..2 /\ m["break_app_both_permissions"] = n["break_app_both_permissions"] - 1
    BY <1>1 DEF Mending
  <2> QED
    BY <2>1
<1>3. /\ "break_app_sms_permission" \notin S /\ n["break_app_sms_permission"] = 0
      /\ m["break_app_sms_permission"] = 0 /\ "break_app_storage_permission" \notin S
      /\ n["break_app_storage_permission"] = 0 /\ m["break_app_storage_permission"] = 0
  <2>1. /\ "break_app_sms_permission" \notin S /\ n["break_app_sms_permission"] = 0
        /\ m["break_app_sms_permission"] = 0 /\ "break_app_storage_permission" \notin S
        /\ n["break_app_storage_permission"] = 0 /\ m["break_app_storage_permission"] = 0
    BY <1>0, BaseTasksAre, NoSibling DEF Mending, Permissions
  <2> QED
    BY <2>1
<1>4. CASE n["break_app_both_permissions"] = 2
  <2> DEFINE x == GrantPermission(d, "sms")
  <2>1. InStep("live", d)
    BY <1>0
  <2>2. After(NextFix("break_app_both_permissions", n["break_app_both_permissions"]), d) = x
    <3>1. NextFix("break_app_both_permissions", 2) = User("grant_app_permission", "sms") /\ n["break_app_both_permissions"] = 2
      BY <1>1, <1>2, <1>4
    <3> QED
      BY <1>0, <3>1, <2>1, PhoneCallsDo
  <2>3. Touches({"permissions"}, d, x) /\ x.permissions = d.permissions \cup {"sms"}
    BY <1>0, PermissionIsSet
  <2> HIDE DEF x
  <2>4. /\ SimSick(x, S, m) /\ AirSick(x, m) /\ ApnSick(x, m) /\ LineSick(x, S, m) /\ Reached(x, m)
        /\ ModeSick(x, m) /\ SpeedSick(x, m) /\ WifiSick(x, m) /\ UsageSick(x, S, m)
        /\ RoamSick(x, S, m)
    <3>1. /\ Touches({"permissions"}, d, x)
          /\ Turns({"break_app_both_permissions"}, S, n, S, m)
      BY <1>0, <2>3
    <3> QED
      BY <1>0, <3>1, PartsKept DEF Ailing, ApnIssues, Suspensions, Usage, Roaming
  <2>5. AppSick(x, m)
    BY <1>0, <1>2, <1>3, <1>4, <2>1, <2>3 DEF Ailing, AppSick
  <2> QED
    BY <2>2, <2>4, <2>5 DEF Ailing
<1>5. CASE n["break_app_both_permissions"] = 1
  <2> DEFINE x == GrantPermission(d, "storage")
  <2>1. InStep("live", d)
    BY <1>0
  <2>2. After(NextFix("break_app_both_permissions", n["break_app_both_permissions"]), d) = x
    <3>1. NextFix("break_app_both_permissions", 1) = User("grant_app_permission", "storage") /\ n["break_app_both_permissions"] = 1
      BY <1>1, <1>2, <1>5
    <3> QED
      BY <1>0, <3>1, <2>1, PhoneCallsDo
  <2>3. Touches({"permissions"}, d, x) /\ x.permissions = d.permissions \cup {"storage"}
    BY <1>0, PermissionIsSet
  <2> HIDE DEF x
  <2>4. /\ SimSick(x, S, m) /\ AirSick(x, m) /\ ApnSick(x, m) /\ LineSick(x, S, m) /\ Reached(x, m)
        /\ ModeSick(x, m) /\ SpeedSick(x, m) /\ WifiSick(x, m) /\ UsageSick(x, S, m)
        /\ RoamSick(x, S, m)
    <3>1. /\ Touches({"permissions"}, d, x)
          /\ Turns({"break_app_both_permissions"}, S, n, S, m)
      BY <1>0, <2>3
    <3> QED
      BY <1>0, <3>1, PartsKept DEF Ailing, ApnIssues, Suspensions, Usage, Roaming
  <2>5. AppSick(x, m)
    BY <1>0, <1>2, <1>3, <1>5, <2>1, <2>3 DEF Ailing, AppSick
  <2> QED
    BY <2>2, <2>4, <2>5 DEF Ailing
<1> QED
  BY <1>2, <1>4, <1>5

LEMMA SmsMended ==
  ASSUME NEW d, NEW S, NEW n, NEW m, Mending(d, S, n, m, "break_app_sms_permission")
  PROVE  Ailing(After(NextFix("break_app_sms_permission", n["break_app_sms_permission"]), d), S, m)
<1>0. /\ InStep("live", d) /\ Shaped(d) /\ Ailing(d, S, n) /\ "break_app_sms_permission" \in S
      /\ Turns({"break_app_sms_permission"}, S, n, S, m)
  BY DEF Mending, InStep, Account
<1>1. /\ Len(Fixes("break_app_sms_permission")) = 1
      /\ NextFix("break_app_sms_permission", 1) = User("grant_app_permission", "sms")
  <2>1. Fixes("break_app_sms_permission") = <<User("grant_app_permission", "sms")>>
    BY DEF Fixes, FixesMms, ServiceIssues, MmsIssues, Permissions
  <2> QED
    BY <2>1, NextCall, Zenon
<1>2. n["break_app_sms_permission"] \in {1} /\ m["break_app_sms_permission"] = n["break_app_sms_permission"] - 1
  <2>1. n["break_app_sms_permission"] \in 1..1 /\ m["break_app_sms_permission"] = n["break_app_sms_permission"] - 1
    BY <1>1 DEF Mending
  <2> QED
    BY <2>1
<1>3. /\ "break_app_both_permissions" \notin S /\ n["break_app_both_permissions"] = 0
      /\ m["break_app_both_permissions"] = 0 /\ "break_app_storage_permission" \notin S
      /\ n["break_app_storage_permission"] = 0 /\ m["break_app_storage_permission"] = 0
  <2>1. /\ "break_app_both_permissions" \notin S /\ n["break_app_both_permissions"] = 0
        /\ m["break_app_both_permissions"] = 0 /\ "break_app_storage_permission" \notin S
        /\ n["break_app_storage_permission"] = 0 /\ m["break_app_storage_permission"] = 0
    BY <1>0, BaseTasksAre, NoSibling DEF Mending, Permissions
  <2> QED
    BY <2>1
<1> QED
  <2> DEFINE x == GrantPermission(d, "sms")
  <2>1. InStep("live", d)
    BY <1>0
  <2>2. After(NextFix("break_app_sms_permission", n["break_app_sms_permission"]), d) = x
    <3>1. NextFix("break_app_sms_permission", 1) = User("grant_app_permission", "sms") /\ n["break_app_sms_permission"] = 1
      BY <1>1, <1>2
    <3> QED
      BY <1>0, <3>1, <2>1, PhoneCallsDo
  <2>3. Touches({"permissions"}, d, x) /\ x.permissions = d.permissions \cup {"sms"}
    BY <1>0, PermissionIsSet
  <2> HIDE DEF x
  <2>4. /\ SimSick(x, S, m) /\ AirSick(x, m) /\ ApnSick(x, m) /\ LineSick(x, S, m) /\ Reached(x, m)
        /\ ModeSick(x, m) /\ SpeedSick(x, m) /\ WifiSick(x, m) /\ UsageSick(x, S, m)
        /\ RoamSick(x, S, m)
    <3>1. /\ Touches({"permissions"}, d, x)
          /\ Turns({"break_app_sms_permission"}, S, n, S, m)
      BY <1>0, <2>3
    <3> QED
      BY <1>0, <3>1, PartsKept DEF Ailing, ApnIssues, Suspensions, Usage, Roaming
  <2>5. AppSick(x, m)
    BY <1>0, <1>2, <1>3, <2>1, <2>3 DEF Ailing, AppSick
  <2> QED
    BY <2>2, <2>4, <2>5 DEF Ailing

LEMMA StorageMended ==
  ASSUME NEW d, NEW S, NEW n, NEW m, Mending(d, S, n, m, "break_app_storage_permission")
  PROVE  Ailing(After(NextFix("break_app_storage_permission", n["break_app_storage_permission"]), d), S, m)
<1>0. /\ InStep("live", d) /\ Shaped(d) /\ Ailing(d, S, n) /\ "break_app_storage_permission" \in S
      /\ Turns({"break_app_storage_permission"}, S, n, S, m)
  BY DEF Mending, InStep, Account
<1>1. /\ Len(Fixes("break_app_storage_permission")) = 1
      /\ NextFix("break_app_storage_permission", 1) = User("grant_app_permission", "storage")
  <2>1. Fixes("break_app_storage_permission") = <<User("grant_app_permission", "storage")>>
    BY DEF Fixes, FixesMms, ServiceIssues, MmsIssues, Permissions
  <2> QED
    BY <2>1, NextCall, Zenon
<1>2. n["break_app_storage_permission"] \in {1} /\ m["break_app_storage_permission"] = n["break_app_storage_permission"] - 1
  <2>1. n["break_app_storage_permission"] \in 1..1 /\ m["break_app_storage_permission"] = n["break_app_storage_permission"] - 1
    BY <1>1 DEF Mending
  <2> QED
    BY <2>1
<1>3. /\ "break_app_both_permissions" \notin S /\ n["break_app_both_permissions"] = 0
      /\ m["break_app_both_permissions"] = 0 /\ "break_app_sms_permission" \notin S
      /\ n["break_app_sms_permission"] = 0 /\ m["break_app_sms_permission"] = 0
  <2>1. /\ "break_app_both_permissions" \notin S /\ n["break_app_both_permissions"] = 0
        /\ m["break_app_both_permissions"] = 0 /\ "break_app_sms_permission" \notin S
        /\ n["break_app_sms_permission"] = 0 /\ m["break_app_sms_permission"] = 0
    BY <1>0, BaseTasksAre, NoSibling DEF Mending, Permissions
  <2> QED
    BY <2>1
<1> QED
  <2> DEFINE x == GrantPermission(d, "storage")
  <2>1. InStep("live", d)
    BY <1>0
  <2>2. After(NextFix("break_app_storage_permission", n["break_app_storage_permission"]), d) = x
    <3>1. NextFix("break_app_storage_permission", 1) = User("grant_app_permission", "storage") /\ n["break_app_storage_permission"] = 1
      BY <1>1, <1>2
    <3> QED
      BY <1>0, <3>1, <2>1, PhoneCallsDo
  <2>3. Touches({"permissions"}, d, x) /\ x.permissions = d.permissions \cup {"storage"}
    BY <1>0, PermissionIsSet
  <2> HIDE DEF x
  <2>4. /\ SimSick(x, S, m) /\ AirSick(x, m) /\ ApnSick(x, m) /\ LineSick(x, S, m) /\ Reached(x, m)
        /\ ModeSick(x, m) /\ SpeedSick(x, m) /\ WifiSick(x, m) /\ UsageSick(x, S, m)
        /\ RoamSick(x, S, m)
    <3>1. /\ Touches({"permissions"}, d, x)
          /\ Turns({"break_app_storage_permission"}, S, n, S, m)
      BY <1>0, <2>3
    <3> QED
      BY <1>0, <3>1, PartsKept DEF Ailing, ApnIssues, Suspensions, Usage, Roaming
  <2>5. AppSick(x, m)
    BY <1>0, <1>2, <1>3, <2>1, <2>3 DEF Ailing, AppSick
  <2> QED
    BY <2>2, <2>4, <2>5 DEF Ailing

-----------------------------------------------------------------------------
(* Each base task breaks what its fix calls mend.                          *)

\* Issue b is one more of those in T; m calls mend them.
Breaking(d, S, n, T, m, b) ==
  /\ InStep("live", d) /\ Untroubled(d) /\ Ailing(d, S, n) /\ Composed(T) /\ Counted(S, n) /\ Counted(T, m)
  /\ b \notin S /\ b \in T /\ S \subseteq T /\ m[b] = Len(Fixes(b)) /\ Turns({b}, S, n, T, m)
  /\ b = "airplane_mode_on" => "bad_vpn" \notin S

LEMMA PhoneThen ==
  ASSUME NEW d, InStep("live", d), NEW F \in SUBSET PhoneFields, NEW x, Touches(F, d, x)
  PROVE  Then(Done(x)) = x /\ InStep("live", x)
BY OnlyPhone

LEMMA SearchedThen ==
  ASSUME NEW d, InStep("live", d), NEW F \in SUBSET PhoneFields, NEW x, SearchedAfter(F, d, x)
  PROVE  Then(Done(x)) = x /\ InStep("live", x)
<1>1. F \cup {"status", "tech"} \in SUBSET PhoneFields
  BY DEF PhoneFields
<1> QED
  BY <1>1, OnlyPhone DEF SearchedAfter

LEMMA RoamingTurned ==
  ASSUME NEW d, Shaped(d), d.roaming \in BOOLEAN, NEW on \in BOOLEAN
  PROVE  SearchedAfter({"roaming"}, d, TurnRoaming(d, on)) /\ (TurnRoaming(d, on).roaming <=> on)
         /\ TurnRoaming(d, on).roaming \in BOOLEAN
<1> DEFINE e == ToggleRoaming(d)
           x == ToggleRoaming(e)
<1>1. SearchedAfter({"roaming"}, d, e) /\ (e.roaming <=> ~d.roaming) /\ e.roaming \in BOOLEAN
  BY SearchersDo, Zenon
<1>2. TurnRoaming(d, on) = IF d.roaming # on THEN e ELSE x
  BY DEF TurnRoaming
<1> HIDE DEF e
<1>3. Shaped(e)
  BY <1>1 DEF SearchedAfter, Touches
<1>4. SearchedAfter({"roaming"}, e, x) /\ (x.roaming <=> ~e.roaming) /\ x.roaming \in BOOLEAN
  BY <1>3, SearchersDo, Zenon
<1> HIDE DEF x
<1>5. SearchedAfter({"roaming"}, d, x)
  BY <1>1, <1>4 DEF SearchedAfter, Touches
<1> QED
  BY <1>1, <1>2, <1>4, <1>5

LEMMA AbroadDoes ==
  ASSUME NEW d, InStep("live", d), d.roaming \in BOOLEAN, NEW on \in BOOLEAN, NEW allowed \in BOOLEAN
  PROVE  /\ Touches({"abroad", "roaming", "line_roaming", "status", "tech", "roaming_allowed", "exceeded"}, d,
                    Abroad(d, on, allowed))
         /\ Abroad(d, on, allowed).abroad = TRUE /\ (Abroad(d, on, allowed).roaming <=> on)
         /\ Abroad(d, on, allowed).roaming \in BOOLEAN
         /\ Abroad(d, on, allowed).line_roaming = allowed /\ Searched(Abroad(d, on, allowed))
         /\ InStep("live", Abroad(d, on, allowed))
<1> DEFINE yes == TRUE
           d1 == Put(d, "abroad", yes)
           d2 == TurnRoaming(d1, on)
           x == Then(SetLineRoaming(d2, allowed))
<1>1. Abroad(d, on, allowed) = Then(SetLineRoaming(Then(Done(TurnRoaming(Then(Done(d1)), on))), allowed))
  BY DEF Abroad, Put
<1> HIDE DEF yes
<1>2. "abroad" \in Fields /\ {"abroad"} \in SUBSET PhoneFields /\ {"roaming"} \in SUBSET PhoneFields /\ Shaped(d)
  BY DEF Fields, PhoneFields, InStep, Account
<1>3. Touches({"abroad"}, d, d1) /\ d1["abroad"] = yes
  BY <1>2, PutTouches
<1> HIDE DEF d1
<1>4. Then(Done(d1)) = d1 /\ InStep("live", d1) /\ Shaped(d1) /\ d1.roaming \in BOOLEAN
  BY <1>2, <1>3, PhoneThen, PhoneFieldsAre DEF Touches
<1>5. SearchedAfter({"roaming"}, d1, d2) /\ (d2.roaming <=> on) /\ d2.roaming \in BOOLEAN
  BY <1>4, RoamingTurned
<1>6. Abroad(d, on, allowed) = Then(SetLineRoaming(Then(Done(d2)), allowed))
  BY <1>1, <1>4
<1> HIDE DEF d2
<1>7. Then(Done(d2)) = d2 /\ InStep("live", d2)
  BY <1>2, <1>4, <1>5, SearchedThen
<1>8. Abroad(d, on, allowed) = x
  BY <1>6, <1>7
<1>9. /\ Touches({"line_roaming"} \cup Told, d2, x) /\ x.line_roaming = allowed /\ InStep("live", x)
  BY <1>7, LineRoamingSet
<1> HIDE DEF x
<1>10. Touches({"abroad", "roaming", "line_roaming", "status", "tech", "roaming_allowed", "exceeded"}, d, x)
  BY <1>3, <1>5, <1>9 DEF Touches, SearchedAfter, Told
<1>11. x.abroad = yes /\ x.roaming = d2.roaming
  BY <1>3, <1>5, <1>9, PhoneFieldsAre DEF Touches, SearchedAfter, Told
<1>12. /\ x.sim_missing = d2.sim_missing /\ x.sim_status = d2.sim_status /\ x.airplane_mode = d2.airplane_mode
       /\ x.apn_name = d2.apn_name /\ x.line_active = d2.line_active /\ x.status = d2.status /\ x.tech = d2.tech
       /\ x.mode = d2.mode
  BY <1>9 DEF Touches, Told, Fields, PhoneFields, AccountFields
<1>13. Searched(x)
  BY <1>5, <1>12 DEF SearchedAfter, Searched, Serves
<1> QED
  BY <1>5, <1>8, <1>9, <1>10, <1>11, <1>13 DEF yes

LEMMA SearchThen ==
  ASSUME NEW d, InStep("live", d)
  PROVE  /\ Touches({"status", "tech"}, d, Then(Done(SimulateNetworkSearch(d))))
         /\ Searched(Then(Done(SimulateNetworkSearch(d))))
<1>1. Touches({"status", "tech"}, d, SimulateNetworkSearch(d)) /\ Searched(SimulateNetworkSearch(d))
  BY SearchIs DEF InStep, Account
<1>2. {"status", "tech"} \in SUBSET PhoneFields
  BY DEF PhoneFields
<1> QED
  BY <1>1, <1>2, PhoneThen

\* Of both suspensions.
LEMMA SuspensionDoes ==
  ASSUME NEW d, InStep("live", d), d.line_status = "active", d.bills["overdue"] = "none",
         NEW x, x = Then(Done(SimulateNetworkSearch(Then(SuspendLineForOverdueBill(d)))))
  PROVE  /\ Touches({"line_status", "line_active", "bills", "status", "tech", "roaming_allowed", "exceeded"}, d, x)
         /\ Overdues(d, x, "overdue") /\ x.line_status = "suspended" /\ Searched(x)
<1> DEFINE y == Then(SuspendLineForOverdueBill(d))
<1>1. /\ Touches({"line_status", "line_active", "bills"} \cup Told, d, y)
      /\ Overdues(d, y, "overdue") /\ y.line_status = "suspended" /\ InStep("live", y)
  BY LineSuspended
<1>2. x = Then(Done(SimulateNetworkSearch(y)))
  OBVIOUS
<1> HIDE DEF y
<1>3. Touches({"status", "tech"}, y, x) /\ Searched(x)
  BY <1>1, <1>2, SearchThen
<1>4. Touches({"line_status", "line_active", "bills", "status", "tech", "roaming_allowed", "exceeded"}, d, x)
  BY <1>1, <1>3 DEF Touches, Told
<1>5. x.bills = y.bills /\ x.line_status = y.line_status
  BY <1>3, AccountFieldsAre DEF Touches
<1> QED
  BY <1>1, <1>3, <1>4, <1>5 DEF Overdues

LEMMA PastRefuel ==
  ASSUME NEW d, InStep("live", d), RoomForBill(d), NEW x, x = Then(SetDataUsage(Then(RefuelData("live", d)), 171))
  PROVE  /\ Touches({"data_used", "data_refueling", "bills", "drawn", "roaming_allowed", "exceeded"}, d, x)
         /\ x.data_used = 171 /\ x.data_refueling = d.data_refueling + 20
         /\ \A b \in BillIds \ {"draft", "draft2"} : x.bills[b] = d.bills[b]
<1> DEFINE y == Then(RefuelData("live", d))
           used == 171
<1>1. /\ Touches({"data_refueling", "bills", "drawn"} \cup Told, d, y) /\ InStep("live", y)
      /\ y.data_refueling = d.data_refueling + 20
      /\ \A b \in BillIds \ {"draft", "draft2"} : y.bills[b] = d.bills[b]
  BY Refueled
<1>2. x = Then(SetDataUsage(y, used))
  OBVIOUS
<1> HIDE DEF y, used
<1>3. Touches({"data_used"} \cup Told, y, x) /\ x.data_used = used
  BY <1>1, <1>2, DataUsageSet
<1>4. Touches({"data_used", "data_refueling", "bills", "drawn", "roaming_allowed", "exceeded"}, d, x)
  BY <1>1, <1>3 DEF Touches, Told
<1>5. x.bills = y.bills /\ x.data_refueling = y.data_refueling
  BY <1>3, AccountFieldsAre DEF Touches, Told
<1> QED
  BY <1>1, <1>3, <1>4, <1>5 DEF used

LEMMA AirplaneModeBroken ==
  ASSUME NEW d, NEW S, NEW n, NEW T, NEW m, Breaking(d, S, n, T, m, "airplane_mode_on")
  PROVE  Ailing(Break("live", d, "airplane_mode_on"), T, m)
<1> DEFINE x == ToggleAirplaneMode(d)
<1>0. /\ InStep("live", d) /\ Shaped(d) /\ Ailing(d, S, n) /\ "airplane_mode_on" \notin S /\ "airplane_mode_on" \in T
      /\ Turns({"airplane_mode_on"}, S, n, T, m) /\ "airplane_mode_on" \in BaseTasks
  BY BaseTasksAre DEF Breaking, InStep, Account
<1>1. n["airplane_mode_on"] = 0 /\ m["airplane_mode_on"] = 1
  <2>1. Fixes("airplane_mode_on") = <<User("toggle_airplane_mode", "")>>
    BY DEF Fixes, FixesService, ServiceIssues, MmsIssues, Permissions
  <2>2. Len(Fixes("airplane_mode_on")) = 1
    BY <2>1, NextCall, Zenon
  <2>3. m["airplane_mode_on"] = 1
    BY <2>2 DEF Breaking
  <2>4. n["airplane_mode_on"] = 0
    BY <1>0 DEF Breaking, Counted
  <2> QED
    BY <2>3, <2>4
<1>2. /\ m["bad_vpn"] = n["bad_vpn"] /\ ("bad_vpn" \in T <=> "bad_vpn" \in S)
      /\ m["data_mode_off"] = n["data_mode_off"] /\ ("data_mode_off" \in T <=> "data_mode_off" \in S)
      /\ m["data_saver_mode_on"] = n["data_saver_mode_on"]
      /\ ("data_saver_mode_on" \in T <=> "data_saver_mode_on" \in S) /\ n["bad_vpn"] = 0
  BY <1>0, BaseTasksAre DEF Turns, Breaking, Counted
<1>3. ~d.airplane_mode
  BY <1>0, <1>1, <1>2 DEF Ailing, AirSick
<1>4. /\ SearchedAfter({"airplane_mode", "vpn"}, d, x) /\ (x.airplane_mode <=> ~d.airplane_mode)
      /\ (x.vpn <=> d.vpn /\ d.airplane_mode)
  BY <1>0, AirplaneDoes, Zenon
<1>5. Break("live", d, "airplane_mode_on") = Then(Done(x))
  BY <1>3 DEF Break, BreakService, ServiceIssues, MmsIssues, Permissions, TurnAirplaneModeOn
<1>6. /\ Touches({"airplane_mode", "vpn", "status", "tech"}, d, x) /\ Searched(x)
      /\ (x.airplane_mode <=> ~d.airplane_mode) /\ (x.vpn <=> d.vpn /\ d.airplane_mode)
  <2>1. {"airplane_mode", "vpn"} \cup {"status", "tech"} = {"airplane_mode", "vpn", "status", "tech"}
    OBVIOUS
  <2> HIDE DEF x
  <2> QED
    BY <1>4, <2>1 DEF SearchedAfter
<1>7. Break("live", d, "airplane_mode_on") = x
  <2>1. {"airplane_mode", "vpn", "status", "tech"} \in SUBSET PhoneFields
    BY DEF PhoneFields
  <2> HIDE DEF x
  <2> QED
    BY <1>0, <1>5, <1>6, <2>1, PhoneThen
<1> HIDE DEF x
<1>8. /\ SimSick(x, T, m) /\ ApnSick(x, m) /\ LineSick(x, T, m) /\ ModeSick(x, m) /\ WifiSick(x, m)
      /\ UsageSick(x, T, m) /\ RoamSick(x, T, m) /\ AppSick(x, m)
  <2>1. /\ Touches({"airplane_mode", "vpn", "status", "tech"}, d, x)
        /\ Turns({"airplane_mode_on"}, S, n, T, m)
    BY <1>0, <1>6
  <2> QED
    BY <1>0, <2>1, PartsKept DEF Ailing, ApnIssues, Suspensions, Usage, Roaming, Permissions
<1>9. x.data = d.data /\ x.saver = d.saver /\ x.vpn_poor = d.vpn_poor
  BY <1>6 DEF Touches, Fields, PhoneFields, AccountFields
<1>10. AirSick(x, m)
  BY <1>0, <1>1, <1>2, <1>3, <1>6, <1>9 DEF Ailing, AirSick
<1>11. Reached(x, m)
  BY <1>6, SearchedReaches
<1>12. SpeedSick(x, m)
  BY <1>0, <1>1, <1>2, <1>3, <1>6, <1>9 DEF Ailing, SpeedSick
<1> QED
  BY <1>7, <1>8, <1>10, <1>11, <1>12 DEF Ailing

LEMMA ApnBroken ==
  ASSUME NEW d, NEW S, NEW n, NEW T, NEW m, Breaking(d, S, n, T, m, "break_apn_settings")
  PROVE  Ailing(Break("live", d, "break_apn_settings"), T, m)
<1> DEFINE x == BreakApn(d)
<1>0. /\ InStep("live", d) /\ Shaped(d) /\ Ailing(d, S, n) /\ "break_apn_settings" \notin S /\ "break_apn_settings" \in T
      /\ Turns({"break_apn_settings"}, S, n, T, m) /\ "break_apn_settings" \in BaseTasks
  BY BaseTasksAre DEF Breaking, InStep, Account
<1>1. n["break_apn_settings"] = 0 /\ m["break_apn_settings"] = 2
  <2>1. Fixes("break_apn_settings") = <<User("reset_apn_settings", ""), User("reboot_device", "")>>
    BY DEF Fixes, FixesService, ServiceIssues, MmsIssues, Permissions
  <2>2. Len(Fixes("break_apn_settings")) = 2
    BY <2>1, NextCall, Zenon
  <2>3. m["break_apn_settings"] = 2
    BY <2>2 DEF Breaking
  <2>4. n["break_apn_settings"] = 0
    BY <1>0 DEF Breaking, Counted
  <2> QED
    BY <2>3, <2>4
<1>2. /\ "break_apn_mms_setting" \notin S /\ "break_apn_mms_setting" \notin T
      /\ n["break_apn_mms_setting"] = 0 /\ m["break_apn_mms_setting"] = 0
  <2>1. {"break_apn_mms_setting"} \subseteq BaseTasks /\ "break_apn_mms_setting" \notin T
    BY <1>0, BaseTasksAre, NoSibling DEF Breaking, ApnIssues
  <2> QED
    BY <2>1 DEF Breaking, Counted
<1>3. SearchedAfter({"apn_name"}, d, x) /\ x.apn_name = "broken"
  BY <1>0, SearchersDo, Zenon
<1>4. Break("live", d, "break_apn_settings") = Then(Done(x))
  BY DEF Break, BreakService, ServiceIssues, MmsIssues, Permissions
<1>5. Touches({"apn_name", "status", "tech"}, d, x) /\ Searched(x) /\ x.apn_name = "broken"
  <2>1. {"apn_name"} \cup {"status", "tech"} = {"apn_name", "status", "tech"}
    OBVIOUS
  <2> HIDE DEF x
  <2> QED
    BY <1>3, <2>1 DEF SearchedAfter
<1>6. Break("live", d, "break_apn_settings") = x
  <2>1. {"apn_name", "status", "tech"} \in SUBSET PhoneFields
    BY DEF PhoneFields
  <2> HIDE DEF x
  <2> QED
    BY <1>0, <1>4, <1>5, <2>1, PhoneThen
<1> HIDE DEF x
<1>7. /\ SimSick(x, T, m) /\ AirSick(x, m) /\ LineSick(x, T, m) /\ ModeSick(x, m) /\ SpeedSick(x, m)
      /\ WifiSick(x, m) /\ UsageSick(x, T, m) /\ RoamSick(x, T, m) /\ AppSick(x, m)
  <2>1. /\ Touches({"apn_name", "status", "tech"}, d, x)
        /\ Turns({"break_apn_settings"}, S, n, T, m)
    BY <1>0, <1>5
  <2> QED
    BY <1>0, <2>1, PartsKept DEF Ailing, Suspensions, Usage, Roaming, Permissions
<1>8. x.apn_reset = d.apn_reset /\ x.mmsc = d.mmsc
  BY <1>5 DEF Touches, Fields, PhoneFields, AccountFields
<1>9. ApnSick(x, m)
  BY <1>0, <1>1, <1>2, <1>5, <1>8 DEF Ailing, ApnSick
<1>10. Reached(x, m)
  BY <1>5, SearchedReaches
<1> QED
  BY <1>6, <1>7, <1>9, <1>10 DEF Ailing

LEMMA SimLocked ==
  ASSUME NEW d, NEW S, NEW n, NEW T, NEW m, Breaking(d, S, n, T, m, "lock_sim_card_pin")
  PROVE  Ailing(Break("live", d, "lock_sim_card_pin"), T, m)
<1> DEFINE x == LockSim(d)
<1>0. /\ InStep("live", d) /\ Shaped(d) /\ Ailing(d, S, n) /\ "lock_sim_card_pin" \notin S /\ "lock_sim_card_pin" \in T
      /\ Turns({"lock_sim_card_pin"}, S, n, T, m) /\ "lock_sim_card_pin" \in BaseTasks
  BY BaseTasksAre DEF Breaking, InStep, Account
<1>1. n["lock_sim_card_pin"] = 0 /\ m["lock_sim_card_pin"] = 0
  <2>1. Fixes("lock_sim_card_pin") = <<>>
    BY DEF Fixes, FixesService, ServiceIssues, MmsIssues, Permissions
  <2>2. Len(Fixes("lock_sim_card_pin")) = 0
    BY <2>1
  <2>3. m["lock_sim_card_pin"] = 0
    BY <2>2 DEF Breaking
  <2>4. n["lock_sim_card_pin"] = 0
    BY <1>0 DEF Breaking, Counted
  <2> QED
    BY <2>3, <2>4
<1>2. /\ m["unseat_sim_card"] = n["unseat_sim_card"]
      /\ ("unseat_sim_card" \in T <=> "unseat_sim_card" \in S)
  BY <1>0, BaseTasksAre DEF Turns
<1>3. SearchedAfter({"sim_status"}, d, x) /\ x.sim_status = "locked_pin"
  BY <1>0, SearchersDo, Zenon
<1>4. Break("live", d, "lock_sim_card_pin") = Then(Done(x))
  BY DEF Break, BreakService, ServiceIssues, MmsIssues, Permissions
<1>5. Touches({"sim_status", "status", "tech"}, d, x) /\ Searched(x) /\ x.sim_status = "locked_pin"
  <2>1. {"sim_status"} \cup {"status", "tech"} = {"sim_status", "status", "tech"}
    OBVIOUS
  <2> HIDE DEF x
  <2> QED
    BY <1>3, <2>1 DEF SearchedAfter
<1>6. Break("live", d, "lock_sim_card_pin") = x
  <2>1. {"sim_status", "status", "tech"} \in SUBSET PhoneFields
    BY DEF PhoneFields
  <2> HIDE DEF x
  <2> QED
    BY <1>0, <1>4, <1>5, <2>1, PhoneThen
<1> HIDE DEF x
<1>7. /\ AirSick(x, m) /\ ApnSick(x, m) /\ LineSick(x, T, m) /\ ModeSick(x, m) /\ SpeedSick(x, m)
      /\ WifiSick(x, m) /\ UsageSick(x, T, m) /\ RoamSick(x, T, m) /\ AppSick(x, m)
  <2>1. /\ Touches({"sim_status", "status", "tech"}, d, x)
        /\ Turns({"lock_sim_card_pin"}, S, n, T, m)
    BY <1>0, <1>5
  <2> QED
    BY <1>0, <2>1, PartsKept DEF Ailing, ApnIssues, Suspensions, Usage, Roaming, Permissions
<1>8. x.sim_missing = d.sim_missing
  BY <1>5 DEF Touches, Fields, PhoneFields, AccountFields
<1>9. SimSick(x, T, m)
  BY <1>0, <1>1, <1>2, <1>5, <1>8 DEF Ailing, SimSick
<1>10. Reached(x, m)
  BY <1>5, SearchedReaches
<1> QED
  BY <1>6, <1>7, <1>9, <1>10 DEF Ailing

LEMMA SimUnseated ==
  ASSUME NEW d, NEW S, NEW n, NEW T, NEW m, Breaking(d, S, n, T, m, "unseat_sim_card")
  PROVE  Ailing(Break("live", d, "unseat_sim_card"), T, m)
<1> DEFINE x == UnseatSim(d)
<1>0. /\ InStep("live", d) /\ Shaped(d) /\ Ailing(d, S, n) /\ "unseat_sim_card" \notin S /\ "unseat_sim_card" \in T
      /\ Turns({"unseat_sim_card"}, S, n, T, m) /\ "unseat_sim_card" \in BaseTasks
  BY BaseTasksAre DEF Breaking, InStep, Account
<1>1. n["unseat_sim_card"] = 0 /\ m["unseat_sim_card"] = 1
  <2>1. Fixes("unseat_sim_card") = <<User("reseat_sim_card", "")>>
    BY DEF Fixes, FixesService, ServiceIssues, MmsIssues, Permissions
  <2>2. Len(Fixes("unseat_sim_card")) = 1
    BY <2>1, NextCall, Zenon
  <2>3. m["unseat_sim_card"] = 1
    BY <2>2 DEF Breaking
  <2>4. n["unseat_sim_card"] = 0
    BY <1>0 DEF Breaking, Counted
  <2> QED
    BY <2>3, <2>4
<1>2. /\ m["lock_sim_card_pin"] = n["lock_sim_card_pin"]
      /\ ("lock_sim_card_pin" \in T <=> "lock_sim_card_pin" \in S)
  BY <1>0, BaseTasksAre DEF Turns
<1>3. SearchedAfter({"sim_missing"}, d, x) /\ x.sim_missing = TRUE
  BY <1>0, SearchersDo, Zenon
<1>4. Break("live", d, "unseat_sim_card") = Then(Done(x))
  BY DEF Break, BreakService, ServiceIssues, MmsIssues, Permissions
<1>5. Touches({"sim_missing", "status", "tech"}, d, x) /\ Searched(x) /\ x.sim_missing = TRUE
  <2>1. {"sim_missing"} \cup {"status", "tech"} = {"sim_missing", "status", "tech"}
    OBVIOUS
  <2> HIDE DEF x
  <2> QED
    BY <1>3, <2>1 DEF SearchedAfter
<1>6. Break("live", d, "unseat_sim_card") = x
  <2>1. {"sim_missing", "status", "tech"} \in SUBSET PhoneFields
    BY DEF PhoneFields
  <2> HIDE DEF x
  <2> QED
    BY <1>0, <1>4, <1>5, <2>1, PhoneThen
<1> HIDE DEF x
<1>7. /\ AirSick(x, m) /\ ApnSick(x, m) /\ LineSick(x, T, m) /\ ModeSick(x, m) /\ SpeedSick(x, m)
      /\ WifiSick(x, m) /\ UsageSick(x, T, m) /\ RoamSick(x, T, m) /\ AppSick(x, m)
  <2>1. /\ Touches({"sim_missing", "status", "tech"}, d, x)
        /\ Turns({"unseat_sim_card"}, S, n, T, m)
    BY <1>0, <1>5
  <2> QED
    BY <1>0, <2>1, PartsKept DEF Ailing, ApnIssues, Suspensions, Usage, Roaming, Permissions
<1>8. x.sim_status = d.sim_status
  BY <1>5 DEF Touches, Fields, PhoneFields, AccountFields
<1>9. SimSick(x, T, m)
  BY <1>0, <1>1, <1>2, <1>5, <1>8 DEF Ailing, SimSick
<1>10. Reached(x, m)
  BY <1>5, SearchedReaches
<1> QED
  BY <1>6, <1>7, <1>9, <1>10 DEF Ailing

LEMMA OverdueSuspended ==
  ASSUME NEW d, NEW S, NEW n, NEW T, NEW m, Breaking(d, S, n, T, m, "overdue_bill_suspension")
  PROVE  Ailing(Break("live", d, "overdue_bill_suspension"), T, m)
<1> DEFINE x == Then(Done(SimulateNetworkSearch(Then(SuspendLineForOverdueBill(d)))))
<1>0. /\ InStep("live", d) /\ Shaped(d) /\ Ailing(d, S, n) /\ "overdue_bill_suspension" \notin S /\ "overdue_bill_suspension" \in T
      /\ Turns({"overdue_bill_suspension"}, S, n, T, m) /\ "overdue_bill_suspension" \in BaseTasks
  BY BaseTasksAre DEF Breaking, InStep, Account
<1>1. n["overdue_bill_suspension"] = 0 /\ m["overdue_bill_suspension"] = 4
  <2>1. Fixes("overdue_bill_suspension") = <<Agent("send_payment_request", "overdue"),
                                            User("make_payment", ""),
                                            Agent("resume_line", ""),
                                            User("reboot_device", "")>>
    BY DEF Fixes, FixesService, ServiceIssues, MmsIssues, Permissions
  <2>2. Len(Fixes("overdue_bill_suspension")) = 4
    BY <2>1, NextCall, Zenon
  <2>3. m["overdue_bill_suspension"] = 4
    BY <2>2 DEF Breaking
  <2>4. n["overdue_bill_suspension"] = 0
    BY <1>0 DEF Breaking, Counted
  <2> QED
    BY <2>3, <2>4
<1>2. /\ "contract_end_suspension" \notin S /\ "contract_end_suspension" \notin T
      /\ n["contract_end_suspension"] = 0 /\ m["contract_end_suspension"] = 0
  <2>1. {"contract_end_suspension"} \subseteq BaseTasks /\ "contract_end_suspension" \notin T
    BY <1>0, BaseTasksAre, NoSibling DEF Breaking, Suspensions
  <2> QED
    BY <2>1 DEF Breaking, Counted
<1>3. d.line_status = "active" /\ d.bills["overdue"] = "none"
  BY <1>0, <1>1, <1>2 DEF Ailing, LineSick
<1>4. Break("live", d, "overdue_bill_suspension") = x
  BY DEF Break, BreakService, ServiceIssues, MmsIssues, Permissions
<1>5. /\ Touches({"line_status", "line_active", "bills", "status", "tech", "roaming_allowed", "exceeded"}, d, x)
      /\ Searched(x) /\ Overdues(d, x, "overdue") /\ x.line_status = "suspended"
  BY <1>0, <1>3, SuspensionDoes
<1> HIDE DEF x
<1>6. /\ SimSick(x, T, m) /\ AirSick(x, m) /\ ApnSick(x, m) /\ ModeSick(x, m) /\ SpeedSick(x, m)
      /\ WifiSick(x, m) /\ UsageSick(x, T, m) /\ RoamSick(x, T, m) /\ AppSick(x, m)
  <2>1. /\ Touches({"line_status", "line_active", "bills", "status", "tech", "roaming_allowed", "exceeded"}, d, x)
        /\ Turns({"overdue_bill_suspension"}, S, n, T, m)
    BY <1>0, <1>5
  <2> QED
    BY <1>0, <2>1, PartsKept DEF Ailing, ApnIssues, Usage, Roaming, Permissions
<1>7. x.request = d.request
  BY <1>5 DEF Touches, Fields, PhoneFields, AccountFields
<1>8. LineSick(x, T, m)
  BY <1>0, <1>1, <1>2, <1>3, <1>5, <1>7 DEF Ailing, LineSick, Overdues, BillIds, NoRequest
<1>9. Reached(x, m)
  BY <1>5, SearchedReaches
<1> QED
  BY <1>4, <1>6, <1>8, <1>9 DEF Ailing

LEMMA ContractSuspended ==
  ASSUME NEW d, NEW S, NEW n, NEW T, NEW m, Breaking(d, S, n, T, m, "contract_end_suspension")
  PROVE  Ailing(Break("live", d, "contract_end_suspension"), T, m)
<1> DEFINE x == Then(Done(SimulateNetworkSearch(Then(SuspendLineForOverdueBill(d)))))
<1>0. /\ InStep("live", d) /\ Shaped(d) /\ Ailing(d, S, n) /\ "contract_end_suspension" \notin S /\ "contract_end_suspension" \in T
      /\ Turns({"contract_end_suspension"}, S, n, T, m) /\ "contract_end_suspension" \in BaseTasks
  BY BaseTasksAre DEF Breaking, InStep, Account
<1>1. n["contract_end_suspension"] = 0 /\ m["contract_end_suspension"] = 0
  <2>1. Fixes("contract_end_suspension") = <<>>
    BY DEF Fixes, FixesService, ServiceIssues, MmsIssues, Permissions
  <2>2. Len(Fixes("contract_end_suspension")) = 0
    BY <2>1
  <2>3. m["contract_end_suspension"] = 0
    BY <2>2 DEF Breaking
  <2>4. n["contract_end_suspension"] = 0
    BY <1>0 DEF Breaking, Counted
  <2> QED
    BY <2>3, <2>4
<1>2. /\ "overdue_bill_suspension" \notin S /\ "overdue_bill_suspension" \notin T
      /\ n["overdue_bill_suspension"] = 0 /\ m["overdue_bill_suspension"] = 0
  <2>1. {"overdue_bill_suspension"} \subseteq BaseTasks /\ "overdue_bill_suspension" \notin T
    BY <1>0, BaseTasksAre, NoSibling DEF Breaking, Suspensions
  <2> QED
    BY <2>1 DEF Breaking, Counted
<1>3. d.line_status = "active" /\ d.bills["overdue"] = "none"
  BY <1>0, <1>1, <1>2 DEF Ailing, LineSick
<1>4. Break("live", d, "contract_end_suspension") = x
  BY DEF Break, BreakService, ServiceIssues, MmsIssues, Permissions
<1>5. /\ Touches({"line_status", "line_active", "bills", "status", "tech", "roaming_allowed", "exceeded"}, d, x)
      /\ Searched(x) /\ Overdues(d, x, "overdue") /\ x.line_status = "suspended"
  BY <1>0, <1>3, SuspensionDoes
<1> HIDE DEF x
<1>6. /\ SimSick(x, T, m) /\ AirSick(x, m) /\ ApnSick(x, m) /\ ModeSick(x, m) /\ SpeedSick(x, m)
      /\ WifiSick(x, m) /\ UsageSick(x, T, m) /\ RoamSick(x, T, m) /\ AppSick(x, m)
  <2>1. /\ Touches({"line_status", "line_active", "bills", "status", "tech", "roaming_allowed", "exceeded"}, d, x)
        /\ Turns({"contract_end_suspension"}, S, n, T, m)
    BY <1>0, <1>5
  <2> QED
    BY <1>0, <2>1, PartsKept DEF Ailing, ApnIssues, Usage, Roaming, Permissions
<1>7. x.request = d.request
  BY <1>5 DEF Touches, Fields, PhoneFields, AccountFields
<1>8. LineSick(x, T, m)
  BY <1>0, <1>1, <1>2, <1>3, <1>5, <1>7 DEF Ailing, LineSick, Overdues, BillIds, NoRequest
<1>9. Reached(x, m)
  BY <1>5, SearchedReaches
<1> QED
  BY <1>4, <1>6, <1>8, <1>9 DEF Ailing

LEMMA ModeBroken ==
  ASSUME NEW d, NEW S, NEW n, NEW T, NEW m, Breaking(d, S, n, T, m, "bad_network_preference")
  PROVE  Ailing(Break("live", d, "bad_network_preference"), T, m)
<1> DEFINE x == SetNetworkMode(d, "only_2g")
<1>0. /\ InStep("live", d) /\ Shaped(d) /\ Ailing(d, S, n) /\ "bad_network_preference" \notin S /\ "bad_network_preference" \in T
      /\ Turns({"bad_network_preference"}, S, n, T, m) /\ "bad_network_preference" \in BaseTasks
  BY BaseTasksAre DEF Breaking, InStep, Account
<1>1. n["bad_network_preference"] = 0 /\ m["bad_network_preference"] = 1
  <2>1. Fixes("bad_network_preference") = <<User("set_network_mode_preference", "prefer_5g")>>
    BY DEF Fixes, FixesMobile, ServiceIssues, MmsIssues, Permissions
  <2>2. Len(Fixes("bad_network_preference")) = 1
    BY <2>1, NextCall, Zenon
  <2>3. m["bad_network_preference"] = 1
    BY <2>2 DEF Breaking
  <2>4. n["bad_network_preference"] = 0
    BY <1>0 DEF Breaking, Counted
  <2> QED
    BY <2>3, <2>4
<1>2. SearchedAfter({"mode"}, d, x) /\ x.mode = "only_2g"
  BY <1>0, ModeIsSet
<1>3. Break("live", d, "bad_network_preference") = Then(Done(x))
  BY DEF Break, BreakMobile, ServiceIssues, MmsIssues, Permissions
<1>4. Touches({"mode", "status", "tech"}, d, x) /\ Searched(x) /\ x.mode = "only_2g"
  <2>1. {"mode"} \cup {"status", "tech"} = {"mode", "status", "tech"}
    OBVIOUS
  <2> HIDE DEF x
  <2> QED
    BY <1>2, <2>1 DEF SearchedAfter
<1>5. Break("live", d, "bad_network_preference") = x
  <2>1. {"mode", "status", "tech"} \in SUBSET PhoneFields
    BY DEF PhoneFields
  <2> HIDE DEF x
  <2> QED
    BY <1>0, <1>3, <1>4, <2>1, PhoneThen
<1> HIDE DEF x
<1>6. /\ SimSick(x, T, m) /\ AirSick(x, m) /\ ApnSick(x, m) /\ LineSick(x, T, m) /\ SpeedSick(x, m)
      /\ WifiSick(x, m) /\ UsageSick(x, T, m) /\ RoamSick(x, T, m) /\ AppSick(x, m)
  <2>1. /\ Touches({"mode", "status", "tech"}, d, x)
        /\ Turns({"bad_network_preference"}, S, n, T, m)
    BY <1>0, <1>4
  <2> QED
    BY <1>0, <2>1, PartsKept DEF Ailing, ApnIssues, Suspensions, Usage, Roaming, Permissions
<1>7. Reached(x, m)
  BY <1>4, SearchedReaches
<1>8. ModeSick(x, m)
  BY <1>0, <1>1, <1>4 DEF Ailing, ModeSick
<1> QED
  BY <1>5, <1>6, <1>7, <1>8 DEF Ailing

LEMMA VpnBroken ==
  ASSUME NEW d, NEW S, NEW n, NEW T, NEW m, Breaking(d, S, n, T, m, "bad_vpn")
  PROVE  Ailing(Break("live", d, "bad_vpn"), T, m)
<1> DEFINE x == BreakVpn(d)
<1>0. /\ InStep("live", d) /\ Shaped(d) /\ Ailing(d, S, n) /\ "bad_vpn" \notin S /\ "bad_vpn" \in T
      /\ Turns({"bad_vpn"}, S, n, T, m) /\ "bad_vpn" \in BaseTasks
  BY BaseTasksAre DEF Breaking, InStep, Account
<1>1. n["bad_vpn"] = 0 /\ m["bad_vpn"] = 1
  <2>1. Fixes("bad_vpn") = <<User("disconnect_vpn", "")>>
    BY DEF Fixes, FixesMobile, ServiceIssues, MmsIssues, Permissions
  <2>2. Len(Fixes("bad_vpn")) = 1
    BY <2>1, NextCall, Zenon
  <2>3. m["bad_vpn"] = 1
    BY <2>2 DEF Breaking
  <2>4. n["bad_vpn"] = 0
    BY <1>0 DEF Breaking, Counted
  <2> QED
    BY <2>3, <2>4
<1>2. /\ m["data_mode_off"] = n["data_mode_off"] /\ ("data_mode_off" \in T <=> "data_mode_off" \in S)
      /\ m["data_saver_mode_on"] = n["data_saver_mode_on"]
      /\ ("data_saver_mode_on" \in T <=> "data_saver_mode_on" \in S)
  BY <1>0, BaseTasksAre DEF Turns
<1>3. Break("live", d, "bad_vpn") = Then(Done(x))
  BY DEF Break, BreakMobile, ServiceIssues, MmsIssues, Permissions
<1>4. Touches({"vpn", "vpn_poor"}, d, x) /\ x.vpn = TRUE /\ x.vpn_poor = TRUE
  BY <1>0, SettersDo, Zenon
<1>5. Break("live", d, "bad_vpn") = x
  <2>1. {"vpn", "vpn_poor"} \in SUBSET PhoneFields
    BY DEF PhoneFields
  <2> HIDE DEF x
  <2> QED
    BY <1>0, <1>3, <1>4, <2>1, PhoneThen
<1> HIDE DEF x
<1>6. /\ SimSick(x, T, m) /\ AirSick(x, m) /\ ApnSick(x, m) /\ LineSick(x, T, m) /\ Reached(x, m)
      /\ ModeSick(x, m) /\ WifiSick(x, m) /\ UsageSick(x, T, m) /\ RoamSick(x, T, m) /\ AppSick(x, m)
  <2>1. /\ Touches({"vpn", "vpn_poor"}, d, x)
        /\ Turns({"bad_vpn"}, S, n, T, m)
    BY <1>0, <1>4
  <2> QED
    BY <1>0, <2>1, PartsKept DEF Ailing, ApnIssues, Suspensions, Usage, Roaming, Permissions
<1>7. x.data = d.data /\ x.saver = d.saver
  BY <1>4 DEF Touches, Fields, PhoneFields, AccountFields
<1>8. SpeedSick(x, m)
  BY <1>0, <1>1, <1>2, <1>4, <1>7 DEF Ailing, SpeedSick
<1> QED
  BY <1>5, <1>6, <1>8 DEF Ailing

LEMMA DataBroken ==
  ASSUME NEW d, NEW S, NEW n, NEW T, NEW m, Breaking(d, S, n, T, m, "data_mode_off")
  PROVE  Ailing(Break("live", d, "data_mode_off"), T, m)
<1> DEFINE x == ToggleData(d)
<1>0. /\ InStep("live", d) /\ Shaped(d) /\ Ailing(d, S, n) /\ "data_mode_off" \notin S /\ "data_mode_off" \in T
      /\ Turns({"data_mode_off"}, S, n, T, m) /\ "data_mode_off" \in BaseTasks
  BY BaseTasksAre DEF Breaking, InStep, Account
<1>1. n["data_mode_off"] = 0 /\ m["data_mode_off"] = 1
  <2>1. Fixes("data_mode_off") = <<User("toggle_data", "")>>
    BY DEF Fixes, FixesMobile, ServiceIssues, MmsIssues, Permissions
  <2>2. Len(Fixes("data_mode_off")) = 1
    BY <2>1, NextCall, Zenon
  <2>3. m["data_mode_off"] = 1
    BY <2>2 DEF Breaking
  <2>4. n["data_mode_off"] = 0
    BY <1>0 DEF Breaking, Counted
  <2> QED
    BY <2>3, <2>4
<1>2. /\ m["bad_vpn"] = n["bad_vpn"] /\ ("bad_vpn" \in T <=> "bad_vpn" \in S)
      /\ m["data_saver_mode_on"] = n["data_saver_mode_on"]
      /\ ("data_saver_mode_on" \in T <=> "data_saver_mode_on" \in S)
  BY <1>0, BaseTasksAre DEF Turns
<1>3. d.data
  BY <1>0, <1>1, <1>2 DEF Ailing, SpeedSick
<1>4. SearchedAfter({"data"}, d, x) /\ (x.data <=> ~d.data)
  BY <1>0, SearchersDo, Zenon
<1>5. Break("live", d, "data_mode_off") = Then(Done(x))
  BY <1>3 DEF Break, BreakMobile, ServiceIssues, MmsIssues, Permissions, TurnDataOff
<1>6. Touches({"data", "status", "tech"}, d, x) /\ Searched(x) /\ (x.data <=> ~d.data)
  <2>1. {"data"} \cup {"status", "tech"} = {"data", "status", "tech"}
    OBVIOUS
  <2> HIDE DEF x
  <2> QED
    BY <1>4, <2>1 DEF SearchedAfter
<1>7. Break("live", d, "data_mode_off") = x
  <2>1. {"data", "status", "tech"} \in SUBSET PhoneFields
    BY DEF PhoneFields
  <2> HIDE DEF x
  <2> QED
    BY <1>0, <1>5, <1>6, <2>1, PhoneThen
<1> HIDE DEF x
<1>8. /\ SimSick(x, T, m) /\ AirSick(x, m) /\ ApnSick(x, m) /\ LineSick(x, T, m) /\ ModeSick(x, m)
      /\ WifiSick(x, m) /\ UsageSick(x, T, m) /\ RoamSick(x, T, m) /\ AppSick(x, m)
  <2>1. /\ Touches({"data", "status", "tech"}, d, x)
        /\ Turns({"data_mode_off"}, S, n, T, m)
    BY <1>0, <1>6
  <2> QED
    BY <1>0, <2>1, PartsKept DEF Ailing, ApnIssues, Suspensions, Usage, Roaming, Permissions
<1>9. x.saver = d.saver /\ x.vpn = d.vpn /\ x.vpn_poor = d.vpn_poor
  BY <1>6 DEF Touches, Fields, PhoneFields, AccountFields
<1>10. Reached(x, m)
  BY <1>6, SearchedReaches
<1>11. SpeedSick(x, m)
  BY <1>0, <1>1, <1>2, <1>3, <1>6, <1>9 DEF Ailing, SpeedSick
<1> QED
  BY <1>7, <1>8, <1>10, <1>11 DEF Ailing

LEMMA SaverBroken ==
  ASSUME NEW d, NEW S, NEW n, NEW T, NEW m, Breaking(d, S, n, T, m, "data_saver_mode_on")
  PROVE  Ailing(Break("live", d, "data_saver_mode_on"), T, m)
<1> DEFINE x == ToggleDataSaver(d)
<1>0. /\ InStep("live", d) /\ Shaped(d) /\ Ailing(d, S, n) /\ "data_saver_mode_on" \notin S /\ "data_saver_mode_on" \in T
      /\ Turns({"data_saver_mode_on"}, S, n, T, m) /\ "data_saver_mode_on" \in BaseTasks
  BY BaseTasksAre DEF Breaking, InStep, Account
<1>1. n["data_saver_mode_on"] = 0 /\ m["data_saver_mode_on"] = 1
  <2>1. Fixes("data_saver_mode_on") = <<User("toggle_data_saver_mode", "")>>
    BY DEF Fixes, FixesMobile, ServiceIssues, MmsIssues, Permissions
  <2>2. Len(Fixes("data_saver_mode_on")) = 1
    BY <2>1, NextCall, Zenon
  <2>3. m["data_saver_mode_on"] = 1
    BY <2>2 DEF Breaking
  <2>4. n["data_saver_mode_on"] = 0
    BY <1>0 DEF Breaking, Counted
  <2> QED
    BY <2>3, <2>4
<1>2. /\ m["bad_vpn"] = n["bad_vpn"] /\ ("bad_vpn" \in T <=> "bad_vpn" \in S)
      /\ m["data_mode_off"] = n["data_mode_off"] /\ ("data_mode_off" \in T <=> "data_mode_off" \in S)
  BY <1>0, BaseTasksAre DEF Turns
<1>3. ~d.saver
  BY <1>0, <1>1, <1>2 DEF Ailing, SpeedSick
<1>4. Break("live", d, "data_saver_mode_on") = Then(Done(x))
  BY <1>3 DEF Break, BreakMobile, ServiceIssues, MmsIssues, Permissions, TurnDataSaverOn
<1>5. Touches({"saver"}, d, x) /\ (x.saver <=> ~d.saver)
  BY <1>0, SettersDo, Zenon
<1>6. Break("live", d, "data_saver_mode_on") = x
  <2>1. {"saver"} \in SUBSET PhoneFields
    BY DEF PhoneFields
  <2> HIDE DEF x
  <2> QED
    BY <1>0, <1>4, <1>5, <2>1, PhoneThen
<1> HIDE DEF x
<1>7. /\ SimSick(x, T, m) /\ AirSick(x, m) /\ ApnSick(x, m) /\ LineSick(x, T, m) /\ Reached(x, m)
      /\ ModeSick(x, m) /\ WifiSick(x, m) /\ UsageSick(x, T, m) /\ RoamSick(x, T, m) /\ AppSick(x, m)
  <2>1. /\ Touches({"saver"}, d, x)
        /\ Turns({"data_saver_mode_on"}, S, n, T, m)
    BY <1>0, <1>5
  <2> QED
    BY <1>0, <2>1, PartsKept DEF Ailing, ApnIssues, Suspensions, Usage, Roaming, Permissions
<1>8. x.data = d.data /\ x.vpn = d.vpn /\ x.vpn_poor = d.vpn_poor
  BY <1>5 DEF Touches, Fields, PhoneFields, AccountFields
<1>9. SpeedSick(x, m)
  BY <1>0, <1>1, <1>2, <1>3, <1>5, <1>8 DEF Ailing, SpeedSick
<1> QED
  BY <1>6, <1>7, <1>9 DEF Ailing

LEMMA UsageBroken ==
  ASSUME NEW d, NEW S, NEW n, NEW T, NEW m, Breaking(d, S, n, T, m, "data_usage_exceeded")
  PROVE  Ailing(Break("live", d, "data_usage_exceeded"), T, m)
<1> DEFINE x == Then(SetDataUsage(d, 151))
<1>0. /\ InStep("live", d) /\ Shaped(d) /\ Ailing(d, S, n) /\ "data_usage_exceeded" \notin S /\ "data_usage_exceeded" \in T
      /\ Turns({"data_usage_exceeded"}, S, n, T, m) /\ "data_usage_exceeded" \in BaseTasks
  BY BaseTasksAre DEF Breaking, InStep, Account
<1>1. n["data_usage_exceeded"] = 0 /\ m["data_usage_exceeded"] = 1
  <2>1. Fixes("data_usage_exceeded") = <<Agent("refuel_data", "")>>
    BY DEF Fixes, FixesMobile, ServiceIssues, MmsIssues, Permissions
  <2>2. Len(Fixes("data_usage_exceeded")) = 1
    BY <2>1, NextCall, Zenon
  <2>3. m["data_usage_exceeded"] = 1
    BY <2>2 DEF Breaking
  <2>4. n["data_usage_exceeded"] = 0
    BY <1>0 DEF Breaking, Counted
  <2> QED
    BY <2>3, <2>4
<1>2. /\ "data_usage_exceeded_no_refuel" \notin S /\ "data_usage_exceeded_no_refuel" \notin T
      /\ n["data_usage_exceeded_no_refuel"] = 0 /\ m["data_usage_exceeded_no_refuel"] = 0
  <2>1. /\ {"data_usage_exceeded_no_refuel"} \subseteq BaseTasks
        /\ "data_usage_exceeded_no_refuel" \notin T
    BY <1>0, BaseTasksAre, NoSibling DEF Breaking, Usage
  <2> QED
    BY <2>1 DEF Breaking, Counted
<1>3. Break("live", d, "data_usage_exceeded") = x
  BY DEF Break, BreakMobile, ServiceIssues, MmsIssues, Permissions
<1>4. Touches({"data_used", "roaming_allowed", "exceeded"}, d, x) /\ x.data_used = 151
  <2> DEFINE used == 151
             y == Then(SetDataUsage(d, used))
  <2>1. x = y
    OBVIOUS
  <2>2. {"data_used"} \cup Told = {"data_used", "roaming_allowed", "exceeded"}
    BY DEF Told
  <2> HIDE DEF used, x
  <2>3. Touches({"data_used"} \cup Told, d, y) /\ y.data_used = used
    BY <1>0, DataUsageSet
  <2> HIDE DEF y
  <2> QED
    BY <2>1, <2>2, <2>3 DEF used
<1> HIDE DEF x
<1>5. /\ SimSick(x, T, m) /\ AirSick(x, m) /\ ApnSick(x, m) /\ LineSick(x, T, m) /\ Reached(x, m)
      /\ ModeSick(x, m) /\ SpeedSick(x, m) /\ WifiSick(x, m) /\ RoamSick(x, T, m) /\ AppSick(x, m)
  <2>1. /\ Touches({"data_used", "roaming_allowed", "exceeded"}, d, x)
        /\ Turns({"data_usage_exceeded"}, S, n, T, m)
    BY <1>0, <1>4
  <2> QED
    BY <1>0, <2>1, PartsKept DEF Ailing, ApnIssues, Suspensions, Roaming, Permissions
<1>6. x.data_refueling = d.data_refueling
  BY <1>4 DEF Touches, Fields, PhoneFields, AccountFields
<1>7. UsageSick(x, T, m)
  BY <1>0, <1>1, <1>2, <1>4, <1>6 DEF Ailing, UsageSick
<1> QED
  BY <1>3, <1>5, <1>7 DEF Ailing

LEMMA RefuelBroken ==
  ASSUME NEW d, NEW S, NEW n, NEW T, NEW m, Breaking(d, S, n, T, m, "data_usage_exceeded_no_refuel")
  PROVE  Ailing(Break("live", d, "data_usage_exceeded_no_refuel"), T, m)
<1> DEFINE x == Then(SetDataUsage(Then(RefuelData("live", d)), 171))
<1>0. /\ InStep("live", d) /\ Shaped(d) /\ Ailing(d, S, n) /\ "data_usage_exceeded_no_refuel" \notin S /\ "data_usage_exceeded_no_refuel" \in T
      /\ Turns({"data_usage_exceeded_no_refuel"}, S, n, T, m) /\ "data_usage_exceeded_no_refuel" \in BaseTasks
  BY BaseTasksAre DEF Breaking, InStep, Account
<1>1. n["data_usage_exceeded_no_refuel"] = 0 /\ m["data_usage_exceeded_no_refuel"] = 0
  <2>1. Fixes("data_usage_exceeded_no_refuel") = <<>>
    BY DEF Fixes, FixesMobile, ServiceIssues, MmsIssues, Permissions
  <2>2. Len(Fixes("data_usage_exceeded_no_refuel")) = 0
    BY <2>1
  <2>3. m["data_usage_exceeded_no_refuel"] = 0
    BY <2>2 DEF Breaking
  <2>4. n["data_usage_exceeded_no_refuel"] = 0
    BY <1>0 DEF Breaking, Counted
  <2> QED
    BY <2>3, <2>4
<1>2. /\ "data_usage_exceeded" \notin S /\ "data_usage_exceeded" \notin T
      /\ n["data_usage_exceeded"] = 0 /\ m["data_usage_exceeded"] = 0
  <2>1. {"data_usage_exceeded"} \subseteq BaseTasks /\ "data_usage_exceeded" \notin T
    BY <1>0, BaseTasksAre, NoSibling DEF Breaking, Usage
  <2> QED
    BY <2>1 DEF Breaking, Counted
<1>3. /\ m["contract_end_suspension"] = n["contract_end_suspension"]
      /\ ("contract_end_suspension" \in T <=> "contract_end_suspension" \in S)
      /\ m["overdue_bill_suspension"] = n["overdue_bill_suspension"]
      /\ ("overdue_bill_suspension" \in T <=> "overdue_bill_suspension" \in S)
  BY <1>0, BaseTasksAre DEF Turns
<1>4. Break("live", d, "data_usage_exceeded_no_refuel") = x
  BY DEF Break, BreakMobile, ServiceIssues, MmsIssues, Permissions
<1>5. /\ Touches({"data_used", "data_refueling", "bills", "drawn", "roaming_allowed", "exceeded"}, d, x)
      /\ x.data_used = 171 /\ x.data_refueling = d.data_refueling + 20
      /\ (\A i \in BillIds \ {"draft", "draft2"} : x.bills[i] = d.bills[i])
  <2>1. RoomForBill(d)
    BY <1>0, UntroubledIs DEF Breaking, InStep
  <2> QED
    BY <1>0, <2>1, PastRefuel
<1> HIDE DEF x
<1>6. /\ SimSick(x, T, m) /\ AirSick(x, m) /\ ApnSick(x, m) /\ Reached(x, m) /\ ModeSick(x, m)
      /\ SpeedSick(x, m) /\ WifiSick(x, m) /\ RoamSick(x, T, m) /\ AppSick(x, m)
  <2>1. /\ Touches({"data_used", "data_refueling", "bills", "drawn", "roaming_allowed", "exceeded"}, d, x)
        /\ Turns({"data_usage_exceeded_no_refuel"}, S, n, T, m)
    BY <1>0, <1>5
  <2> QED
    BY <1>0, <2>1, PartsKept DEF Ailing, ApnIssues, Roaming, Permissions
<1>7. x.line_status = d.line_status /\ x.request = d.request
  BY <1>5 DEF Touches, Fields, PhoneFields, AccountFields
<1>8. LineSick(x, T, m)
  BY <1>0, <1>1, <1>2, <1>3, <1>5, <1>7 DEF Ailing, LineSick, Overdues, BillIds, NoRequest
<1>9. UsageSick(x, T, m)
  BY <1>0, <1>1, <1>2, <1>3, <1>5, <1>7 DEF Ailing, UsageSick
<1> QED
  BY <1>4, <1>6, <1>8, <1>9 DEF Ailing

LEMMA RoamingOffBroken ==
  ASSUME NEW d, NEW S, NEW n, NEW T, NEW m, Breaking(d, S, n, T, m, "user_abroad_roaming_disabled_off")
  PROVE  Ailing(Break("live", d, "user_abroad_roaming_disabled_off"), T, m)
<1> DEFINE x == Then(Done(SimulateNetworkSearch(Abroad(d, FALSE, FALSE))))
<1>0. /\ InStep("live", d) /\ Shaped(d) /\ Ailing(d, S, n) /\ "user_abroad_roaming_disabled_off" \notin S /\ "user_abroad_roaming_disabled_off" \in T
      /\ Turns({"user_abroad_roaming_disabled_off"}, S, n, T, m) /\ "user_abroad_roaming_disabled_off" \in BaseTasks
  BY BaseTasksAre DEF Breaking, InStep, Account
<1>1. n["user_abroad_roaming_disabled_off"] = 0 /\ m["user_abroad_roaming_disabled_off"] = 2
  <2>1. Fixes("user_abroad_roaming_disabled_off") = <<Agent("enable_roaming", ""), User("toggle_roaming", "")>>
    BY DEF Fixes, FixesMobile, ServiceIssues, MmsIssues, Permissions
  <2>2. Len(Fixes("user_abroad_roaming_disabled_off")) = 2
    BY <2>1, NextCall, Zenon
  <2>3. m["user_abroad_roaming_disabled_off"] = 2
    BY <2>2 DEF Breaking
  <2>4. n["user_abroad_roaming_disabled_off"] = 0
    BY <1>0 DEF Breaking, Counted
  <2> QED
    BY <2>3, <2>4
<1>2. /\ "user_abroad_roaming_disabled_on" \notin S /\ "user_abroad_roaming_disabled_on" \notin T
      /\ n["user_abroad_roaming_disabled_on"] = 0 /\ m["user_abroad_roaming_disabled_on"] = 0
      /\ "user_abroad_roaming_enabled_off" \notin S /\ "user_abroad_roaming_enabled_off" \notin T
      /\ n["user_abroad_roaming_enabled_off"] = 0 /\ m["user_abroad_roaming_enabled_off"] = 0
  <2>1. /\ {"user_abroad_roaming_disabled_on", "user_abroad_roaming_enabled_off"} \subseteq BaseTasks
        /\ "user_abroad_roaming_disabled_on" \notin T /\ "user_abroad_roaming_enabled_off" \notin T
    BY <1>0, BaseTasksAre, NoSibling DEF Breaking, Roaming
  <2> QED
    BY <2>1 DEF Breaking, Counted
<1>3. d.roaming \in BOOLEAN
  BY <1>0, <1>1, <1>2 DEF Ailing, RoamSick
<1>4. Break("live", d, "user_abroad_roaming_disabled_off") = x
  BY DEF Break, BreakMobile, ServiceIssues, MmsIssues, Permissions
<1>5. /\ Touches({"abroad", "roaming", "line_roaming", "status", "tech", "roaming_allowed", "exceeded"}, d, x)
      /\ Searched(x) /\ x.abroad = TRUE /\ (x.roaming <=> FALSE) /\ x.roaming \in BOOLEAN
      /\ x.line_roaming = FALSE
  <2> DEFINE y == Abroad(d, FALSE, FALSE)
             on == FALSE
             allowed == FALSE
             z == Abroad(d, on, allowed)
  <2>1. on \in BOOLEAN /\ allowed \in BOOLEAN /\ y = z
    OBVIOUS
  <2> HIDE DEF on, allowed, y
  <2>2. /\ Touches({"abroad", "roaming", "line_roaming", "status", "tech", "roaming_allowed", "exceeded"}, d, z)
        /\ z.abroad = TRUE /\ (z.roaming <=> on) /\ z.roaming \in BOOLEAN /\ z.line_roaming = allowed
        /\ Searched(z) /\ InStep("live", z)
    BY <1>0, <1>3, <2>1, AbroadDoes
  <2> HIDE DEF z
  <2>3. x = Then(Done(SimulateNetworkSearch(y)))
    BY DEF y
  <2>4. x = Then(Done(SimulateNetworkSearch(z)))
    BY <2>1, <2>3
  <2> HIDE DEF x
  <2>5. Touches({"status", "tech"}, z, x) /\ Searched(x)
    BY <2>2, <2>4, SearchThen
  <2>6. Touches({"abroad", "roaming", "line_roaming", "status", "tech", "roaming_allowed", "exceeded"}, d, x)
    BY <2>2, <2>5 DEF Touches
  <2>7. x.abroad = z.abroad /\ x.roaming = z.roaming /\ x.line_roaming = z.line_roaming
    BY <2>5, PhoneFieldsAre, AccountFieldsAre DEF Touches
  <2> QED
    BY <2>2, <2>5, <2>6, <2>7 DEF on, allowed
<1> HIDE DEF x
<1>6. /\ SimSick(x, T, m) /\ AirSick(x, m) /\ ApnSick(x, m) /\ LineSick(x, T, m) /\ ModeSick(x, m)
      /\ SpeedSick(x, m) /\ WifiSick(x, m) /\ UsageSick(x, T, m) /\ AppSick(x, m)
  <2>1. /\ Touches({"abroad", "roaming", "line_roaming", "status", "tech", "roaming_allowed", "exceeded"}, d, x)
        /\ Turns({"user_abroad_roaming_disabled_off"}, S, n, T, m)
    BY <1>0, <1>5
  <2> QED
    BY <1>0, <2>1, PartsKept DEF Ailing, ApnIssues, Suspensions, Usage, Permissions
<1>7. Reached(x, m)
  BY <1>5, SearchedReaches
<1>8. RoamSick(x, T, m)
  BY <1>0, <1>1, <1>2, <1>3, <1>5 DEF Ailing, RoamSick, Roaming
<1> QED
  BY <1>4, <1>6, <1>7, <1>8 DEF Ailing

LEMMA LineRoamingBroken ==
  ASSUME NEW d, NEW S, NEW n, NEW T, NEW m, Breaking(d, S, n, T, m, "user_abroad_roaming_disabled_on")
  PROVE  Ailing(Break("live", d, "user_abroad_roaming_disabled_on"), T, m)
<1> DEFINE x == Then(Done(SimulateNetworkSearch(Abroad(d, TRUE, FALSE))))
<1>0. /\ InStep("live", d) /\ Shaped(d) /\ Ailing(d, S, n) /\ "user_abroad_roaming_disabled_on" \notin S /\ "user_abroad_roaming_disabled_on" \in T
      /\ Turns({"user_abroad_roaming_disabled_on"}, S, n, T, m) /\ "user_abroad_roaming_disabled_on" \in BaseTasks
  BY BaseTasksAre DEF Breaking, InStep, Account
<1>1. n["user_abroad_roaming_disabled_on"] = 0 /\ m["user_abroad_roaming_disabled_on"] = 1
  <2>1. Fixes("user_abroad_roaming_disabled_on") = <<Agent("enable_roaming", "")>>
    BY DEF Fixes, FixesMobile, ServiceIssues, MmsIssues, Permissions
  <2>2. Len(Fixes("user_abroad_roaming_disabled_on")) = 1
    BY <2>1, NextCall, Zenon
  <2>3. m["user_abroad_roaming_disabled_on"] = 1
    BY <2>2 DEF Breaking
  <2>4. n["user_abroad_roaming_disabled_on"] = 0
    BY <1>0 DEF Breaking, Counted
  <2> QED
    BY <2>3, <2>4
<1>2. /\ "user_abroad_roaming_disabled_off" \notin S /\ "user_abroad_roaming_disabled_off" \notin T
      /\ n["user_abroad_roaming_disabled_off"] = 0 /\ m["user_abroad_roaming_disabled_off"] = 0
      /\ "user_abroad_roaming_enabled_off" \notin S /\ "user_abroad_roaming_enabled_off" \notin T
      /\ n["user_abroad_roaming_enabled_off"] = 0 /\ m["user_abroad_roaming_enabled_off"] = 0
  <2>1. /\ {"user_abroad_roaming_disabled_off", "user_abroad_roaming_enabled_off"} \subseteq BaseTasks
        /\ "user_abroad_roaming_disabled_off" \notin T /\ "user_abroad_roaming_enabled_off" \notin T
    BY <1>0, BaseTasksAre, NoSibling DEF Breaking, Roaming
  <2> QED
    BY <2>1 DEF Breaking, Counted
<1>3. d.roaming \in BOOLEAN
  BY <1>0, <1>1, <1>2 DEF Ailing, RoamSick
<1>4. Break("live", d, "user_abroad_roaming_disabled_on") = x
  BY DEF Break, BreakMobile, ServiceIssues, MmsIssues, Permissions
<1>5. /\ Touches({"abroad", "roaming", "line_roaming", "status", "tech", "roaming_allowed", "exceeded"}, d, x)
      /\ Searched(x) /\ x.abroad = TRUE /\ (x.roaming <=> TRUE) /\ x.roaming \in BOOLEAN
      /\ x.line_roaming = FALSE
  <2> DEFINE y == Abroad(d, TRUE, FALSE)
             on == TRUE
             allowed == FALSE
             z == Abroad(d, on, allowed)
  <2>1. on \in BOOLEAN /\ allowed \in BOOLEAN /\ y = z
    OBVIOUS
  <2> HIDE DEF on, allowed, y
  <2>2. /\ Touches({"abroad", "roaming", "line_roaming", "status", "tech", "roaming_allowed", "exceeded"}, d, z)
        /\ z.abroad = TRUE /\ (z.roaming <=> on) /\ z.roaming \in BOOLEAN /\ z.line_roaming = allowed
        /\ Searched(z) /\ InStep("live", z)
    BY <1>0, <1>3, <2>1, AbroadDoes
  <2> HIDE DEF z
  <2>3. x = Then(Done(SimulateNetworkSearch(y)))
    BY DEF y
  <2>4. x = Then(Done(SimulateNetworkSearch(z)))
    BY <2>1, <2>3
  <2> HIDE DEF x
  <2>5. Touches({"status", "tech"}, z, x) /\ Searched(x)
    BY <2>2, <2>4, SearchThen
  <2>6. Touches({"abroad", "roaming", "line_roaming", "status", "tech", "roaming_allowed", "exceeded"}, d, x)
    BY <2>2, <2>5 DEF Touches
  <2>7. x.abroad = z.abroad /\ x.roaming = z.roaming /\ x.line_roaming = z.line_roaming
    BY <2>5, PhoneFieldsAre, AccountFieldsAre DEF Touches
  <2> QED
    BY <2>2, <2>5, <2>6, <2>7 DEF on, allowed
<1> HIDE DEF x
<1>6. /\ SimSick(x, T, m) /\ AirSick(x, m) /\ ApnSick(x, m) /\ LineSick(x, T, m) /\ ModeSick(x, m)
      /\ SpeedSick(x, m) /\ WifiSick(x, m) /\ UsageSick(x, T, m) /\ AppSick(x, m)
  <2>1. /\ Touches({"abroad", "roaming", "line_roaming", "status", "tech", "roaming_allowed", "exceeded"}, d, x)
        /\ Turns({"user_abroad_roaming_disabled_on"}, S, n, T, m)
    BY <1>0, <1>5
  <2> QED
    BY <1>0, <2>1, PartsKept DEF Ailing, ApnIssues, Suspensions, Usage, Permissions
<1>7. Reached(x, m)
  BY <1>5, SearchedReaches
<1>8. RoamSick(x, T, m)
  BY <1>0, <1>1, <1>2, <1>3, <1>5 DEF Ailing, RoamSick, Roaming
<1> QED
  BY <1>4, <1>6, <1>7, <1>8 DEF Ailing

LEMMA PhoneRoamingBroken ==
  ASSUME NEW d, NEW S, NEW n, NEW T, NEW m, Breaking(d, S, n, T, m, "user_abroad_roaming_enabled_off")
  PROVE  Ailing(Break("live", d, "user_abroad_roaming_enabled_off"), T, m)
<1> DEFINE x == Abroad(d, FALSE, TRUE)
<1>0. /\ InStep("live", d) /\ Shaped(d) /\ Ailing(d, S, n) /\ "user_abroad_roaming_enabled_off" \notin S /\ "user_abroad_roaming_enabled_off" \in T
      /\ Turns({"user_abroad_roaming_enabled_off"}, S, n, T, m) /\ "user_abroad_roaming_enabled_off" \in BaseTasks
  BY BaseTasksAre DEF Breaking, InStep, Account
<1>1. n["user_abroad_roaming_enabled_off"] = 0 /\ m["user_abroad_roaming_enabled_off"] = 1
  <2>1. Fixes("user_abroad_roaming_enabled_off") = <<User("toggle_roaming", "")>>
    BY DEF Fixes, FixesMobile, ServiceIssues, MmsIssues, Permissions
  <2>2. Len(Fixes("user_abroad_roaming_enabled_off")) = 1
    BY <2>1, NextCall, Zenon
  <2>3. m["user_abroad_roaming_enabled_off"] = 1
    BY <2>2 DEF Breaking
  <2>4. n["user_abroad_roaming_enabled_off"] = 0
    BY <1>0 DEF Breaking, Counted
  <2> QED
    BY <2>3, <2>4
<1>2. /\ "user_abroad_roaming_disabled_off" \notin S /\ "user_abroad_roaming_disabled_off" \notin T
      /\ n["user_abroad_roaming_disabled_off"] = 0 /\ m["user_abroad_roaming_disabled_off"] = 0
      /\ "user_abroad_roaming_disabled_on" \notin S /\ "user_abroad_roaming_disabled_on" \notin T
      /\ n["user_abroad_roaming_disabled_on"] = 0 /\ m["user_abroad_roaming_disabled_on"] = 0
  <2>1. /\ {"user_abroad_roaming_disabled_off", "user_abroad_roaming_disabled_on"} \subseteq BaseTasks
        /\ "user_abroad_roaming_disabled_off" \notin T /\ "user_abroad_roaming_disabled_on" \notin T
    BY <1>0, BaseTasksAre, NoSibling DEF Breaking, Roaming
  <2> QED
    BY <2>1 DEF Breaking, Counted
<1>3. d.roaming \in BOOLEAN
  BY <1>0, <1>1, <1>2 DEF Ailing, RoamSick
<1>4. Break("live", d, "user_abroad_roaming_enabled_off") = x
  BY DEF Break, BreakMobile, ServiceIssues, MmsIssues, Permissions
<1>5. /\ Touches({"abroad", "roaming", "line_roaming", "status", "tech", "roaming_allowed", "exceeded"}, d, x)
      /\ Searched(x) /\ x.abroad = TRUE /\ (x.roaming <=> FALSE) /\ x.roaming \in BOOLEAN
      /\ x.line_roaming = TRUE
  <2> DEFINE y == Abroad(d, FALSE, TRUE)
             on == FALSE
             allowed == TRUE
             z == Abroad(d, on, allowed)
  <2>1. on \in BOOLEAN /\ allowed \in BOOLEAN /\ y = z
    OBVIOUS
  <2> HIDE DEF on, allowed, y
  <2>2. /\ Touches({"abroad", "roaming", "line_roaming", "status", "tech", "roaming_allowed", "exceeded"}, d, z)
        /\ z.abroad = TRUE /\ (z.roaming <=> on) /\ z.roaming \in BOOLEAN /\ z.line_roaming = allowed
        /\ Searched(z) /\ InStep("live", z)
    BY <1>0, <1>3, <2>1, AbroadDoes
  <2>3. x = z
    BY <2>1 DEF y
  <2> HIDE DEF x, z
  <2> QED
    BY <2>2, <2>3 DEF on, allowed
<1> HIDE DEF x
<1>6. /\ SimSick(x, T, m) /\ AirSick(x, m) /\ ApnSick(x, m) /\ LineSick(x, T, m) /\ ModeSick(x, m)
      /\ SpeedSick(x, m) /\ WifiSick(x, m) /\ UsageSick(x, T, m) /\ AppSick(x, m)
  <2>1. /\ Touches({"abroad", "roaming", "line_roaming", "status", "tech", "roaming_allowed", "exceeded"}, d, x)
        /\ Turns({"user_abroad_roaming_enabled_off"}, S, n, T, m)
    BY <1>0, <1>5
  <2> QED
    BY <1>0, <2>1, PartsKept DEF Ailing, ApnIssues, Suspensions, Usage, Permissions
<1>7. Reached(x, m)
  BY <1>5, SearchedReaches
<1>8. RoamSick(x, T, m)
  BY <1>0, <1>1, <1>2, <1>3, <1>5 DEF Ailing, RoamSick, Roaming
<1> QED
  BY <1>4, <1>6, <1>7, <1>8 DEF Ailing

LEMMA WifiBroken ==
  ASSUME NEW d, NEW S, NEW n, NEW T, NEW m, Breaking(d, S, n, T, m, "bad_wifi_calling")
  PROVE  Ailing(Break("live", d, "bad_wifi_calling"), T, m)
<1> DEFINE x == SetWifiCallingOn(d)
<1>0. /\ InStep("live", d) /\ Shaped(d) /\ Ailing(d, S, n) /\ "bad_wifi_calling" \notin S /\ "bad_wifi_calling" \in T
      /\ Turns({"bad_wifi_calling"}, S, n, T, m) /\ "bad_wifi_calling" \in BaseTasks
  BY BaseTasksAre DEF Breaking, InStep, Account
<1>1. n["bad_wifi_calling"] = 0 /\ m["bad_wifi_calling"] = 1
  <2>1. Fixes("bad_wifi_calling") = <<User("toggle_wifi_calling", "")>>
    BY DEF Fixes, FixesMms, ServiceIssues, MmsIssues, Permissions
  <2>2. Len(Fixes("bad_wifi_calling")) = 1
    BY <2>1, NextCall, Zenon
  <2>3. m["bad_wifi_calling"] = 1
    BY <2>2 DEF Breaking
  <2>4. n["bad_wifi_calling"] = 0
    BY <1>0 DEF Breaking, Counted
  <2> QED
    BY <2>3, <2>4
<1>2. Break("live", d, "bad_wifi_calling") = Then(Done(x))
  BY DEF Break, BreakMms, ServiceIssues, MmsIssues, Permissions
<1>3. /\ Touches({"wifi_calling", "mms_over_wifi"}, d, x) /\ x.wifi_calling = TRUE
      /\ x.mms_over_wifi = TRUE
  BY <1>0, SettersDo, Zenon
<1>4. Break("live", d, "bad_wifi_calling") = x
  <2>1. {"wifi_calling", "mms_over_wifi"} \in SUBSET PhoneFields
    BY DEF PhoneFields
  <2> HIDE DEF x
  <2> QED
    BY <1>0, <1>2, <1>3, <2>1, PhoneThen
<1> HIDE DEF x
<1>5. /\ SimSick(x, T, m) /\ AirSick(x, m) /\ ApnSick(x, m) /\ LineSick(x, T, m) /\ Reached(x, m)
      /\ ModeSick(x, m) /\ SpeedSick(x, m) /\ UsageSick(x, T, m) /\ RoamSick(x, T, m) /\ AppSick(x, m)
  <2>1. /\ Touches({"wifi_calling", "mms_over_wifi"}, d, x)
        /\ Turns({"bad_wifi_calling"}, S, n, T, m)
    BY <1>0, <1>3
  <2> QED
    BY <1>0, <2>1, PartsKept DEF Ailing, ApnIssues, Suspensions, Usage, Roaming, Permissions
<1>6. WifiSick(x, m)
  BY <1>0, <1>1, <1>3 DEF Ailing, WifiSick
<1> QED
  BY <1>4, <1>5, <1>6 DEF Ailing

LEMMA ApnMmsBroken ==
  ASSUME NEW d, NEW S, NEW n, NEW T, NEW m, Breaking(d, S, n, T, m, "break_apn_mms_setting")
  PROVE  Ailing(Break("live", d, "break_apn_mms_setting"), T, m)
<1> DEFINE x == BreakApnMms(d)
<1>0. /\ InStep("live", d) /\ Shaped(d) /\ Ailing(d, S, n) /\ "break_apn_mms_setting" \notin S /\ "break_apn_mms_setting" \in T
      /\ Turns({"break_apn_mms_setting"}, S, n, T, m) /\ "break_apn_mms_setting" \in BaseTasks
  BY BaseTasksAre DEF Breaking, InStep, Account
<1>1. n["break_apn_mms_setting"] = 0 /\ m["break_apn_mms_setting"] = 2
  <2>1. Fixes("break_apn_mms_setting") = <<User("reset_apn_settings", ""), User("reboot_device", "")>>
    BY DEF Fixes, FixesMms, ServiceIssues, MmsIssues, Permissions
  <2>2. Len(Fixes("break_apn_mms_setting")) = 2
    BY <2>1, NextCall, Zenon
  <2>3. m["break_apn_mms_setting"] = 2
    BY <2>2 DEF Breaking
  <2>4. n["break_apn_mms_setting"] = 0
    BY <1>0 DEF Breaking, Counted
  <2> QED
    BY <2>3, <2>4
<1>2. /\ "break_apn_settings" \notin S /\ "break_apn_settings" \notin T /\ n["break_apn_settings"] = 0
      /\ m["break_apn_settings"] = 0
  <2>1. {"break_apn_settings"} \subseteq BaseTasks /\ "break_apn_settings" \notin T
    BY <1>0, BaseTasksAre, NoSibling DEF Breaking, ApnIssues
  <2> QED
    BY <2>1 DEF Breaking, Counted
<1>3. Break("live", d, "break_apn_mms_setting") = Then(Done(x))
  BY DEF Break, BreakMms, ServiceIssues, MmsIssues, Permissions
<1>4. Touches({"mmsc"}, d, x) /\ x.mmsc = FALSE
  BY <1>0, SettersDo, Zenon
<1>5. Break("live", d, "break_apn_mms_setting") = x
  <2>1. {"mmsc"} \in SUBSET PhoneFields
    BY DEF PhoneFields
  <2> HIDE DEF x
  <2> QED
    BY <1>0, <1>3, <1>4, <2>1, PhoneThen
<1> HIDE DEF x
<1>6. /\ SimSick(x, T, m) /\ AirSick(x, m) /\ LineSick(x, T, m) /\ Reached(x, m) /\ ModeSick(x, m)
      /\ SpeedSick(x, m) /\ WifiSick(x, m) /\ UsageSick(x, T, m) /\ RoamSick(x, T, m) /\ AppSick(x, m)
  <2>1. /\ Touches({"mmsc"}, d, x)
        /\ Turns({"break_apn_mms_setting"}, S, n, T, m)
    BY <1>0, <1>4
  <2> QED
    BY <1>0, <2>1, PartsKept DEF Ailing, Suspensions, Usage, Roaming, Permissions
<1>7. x.apn_name = d.apn_name /\ x.apn_reset = d.apn_reset
  BY <1>4 DEF Touches, Fields, PhoneFields, AccountFields
<1>8. ApnSick(x, m)
  BY <1>0, <1>1, <1>2, <1>4, <1>7 DEF Ailing, ApnSick
<1> QED
  BY <1>5, <1>6, <1>8 DEF Ailing

LEMMA PermissionsBroken ==
  ASSUME NEW d, NEW S, NEW n, NEW T, NEW m, Breaking(d, S, n, T, m, "break_app_both_permissions")
  PROVE  Ailing(Break("live", d, "break_app_both_permissions"), T, m)
<1> DEFINE x == RemovePermission(RemovePermission(d, "sms"), "storage")
<1>0. /\ InStep("live", d) /\ Shaped(d) /\ Ailing(d, S, n) /\ "break_app_both_permissions" \notin S /\ "break_app_both_permissions" \in T
      /\ Turns({"break_app_both_permissions"}, S, n, T, m) /\ "break_app_both_permissions" \in BaseTasks
  BY BaseTasksAre DEF Breaking, InStep, Account
<1>1. n["break_app_both_permissions"] = 0 /\ m["break_app_both_permissions"] = 2
  <2>1. Fixes("break_app_both_permissions") = <<User("grant_app_permission", "sms"), User("grant_app_permission", "storage")>>
    BY DEF Fixes, FixesMms, ServiceIssues, MmsIssues, Permissions
  <2>2. Len(Fixes("break_app_both_permissions")) = 2
    BY <2>1, NextCall, Zenon
  <2>3. m["break_app_both_permissions"] = 2
    BY <2>2 DEF Breaking
  <2>4. n["break_app_both_permissions"] = 0
    BY <1>0 DEF Breaking, Counted
  <2> QED
    BY <2>3, <2>4
<1>2. /\ "break_app_sms_permission" \notin S /\ "break_app_sms_permission" \notin T
      /\ n["break_app_sms_permission"] = 0 /\ m["break_app_sms_permission"] = 0
      /\ "break_app_storage_permission" \notin S /\ "break_app_storage_permission" \notin T
      /\ n["break_app_storage_permission"] = 0 /\ m["break_app_storage_permission"] = 0
  <2>1. /\ {"break_app_sms_permission", "break_app_storage_permission"} \subseteq BaseTasks
        /\ "break_app_sms_permission" \notin T /\ "break_app_storage_permission" \notin T
    BY <1>0, BaseTasksAre, NoSibling DEF Breaking, Permissions
  <2> QED
    BY <2>1 DEF Breaking, Counted
<1>3. Break("live", d, "break_app_both_permissions") = Then(Done(x))
  BY DEF Break, BreakMms, ServiceIssues, MmsIssues, Permissions
<1>4. Touches({"permissions"}, d, x) /\ x.permissions = (d.permissions \ {"sms"}) \ {"storage"}
  <2> DEFINE y == RemovePermission(d, "sms")
  <2>1. Touches({"permissions"}, d, y) /\ y.permissions = d.permissions \ {"sms"}
    BY <1>0, PermissionIsSet
  <2>2. Shaped(y)
    BY <2>1 DEF Touches
  <2> HIDE DEF y
  <2> DEFINE z == RemovePermission(y, "storage")
  <2>3. Touches({"permissions"}, y, z) /\ z.permissions = y.permissions \ {"storage"}
    BY <2>2, PermissionIsSet
  <2>4. x = z
    BY DEF y
  <2> HIDE DEF x, z
  <2>5. Touches({"permissions"}, d, z)
    BY <2>1, <2>3 DEF Touches
  <2> QED
    BY <2>1, <2>3, <2>4, <2>5
<1>5. Break("live", d, "break_app_both_permissions") = x
  <2>1. {"permissions"} \in SUBSET PhoneFields
    BY DEF PhoneFields
  <2> HIDE DEF x
  <2> QED
    BY <1>0, <1>3, <1>4, <2>1, PhoneThen
<1> HIDE DEF x
<1>6. /\ SimSick(x, T, m) /\ AirSick(x, m) /\ ApnSick(x, m) /\ LineSick(x, T, m) /\ Reached(x, m)
      /\ ModeSick(x, m) /\ SpeedSick(x, m) /\ WifiSick(x, m) /\ UsageSick(x, T, m)
      /\ RoamSick(x, T, m)
  <2>1. /\ Touches({"permissions"}, d, x)
        /\ Turns({"break_app_both_permissions"}, S, n, T, m)
    BY <1>0, <1>4
  <2> QED
    BY <1>0, <2>1, PartsKept DEF Ailing, ApnIssues, Suspensions, Usage, Roaming
<1>7. AppSick(x, m)
  BY <1>0, <1>1, <1>2, <1>4 DEF Ailing, AppSick
<1> QED
  BY <1>5, <1>6, <1>7 DEF Ailing

LEMMA SmsBroken ==
  ASSUME NEW d, NEW S, NEW n, NEW T, NEW m, Breaking(d, S, n, T, m, "break_app_sms_permission")
  PROVE  Ailing(Break("live", d, "break_app_sms_permission"), T, m)
<1> DEFINE x == RemovePermission(d, "sms")
<1>0. /\ InStep("live", d) /\ Shaped(d) /\ Ailing(d, S, n) /\ "break_app_sms_permission" \notin S /\ "break_app_sms_permission" \in T
      /\ Turns({"break_app_sms_permission"}, S, n, T, m) /\ "break_app_sms_permission" \in BaseTasks
  BY BaseTasksAre DEF Breaking, InStep, Account
<1>1. n["break_app_sms_permission"] = 0 /\ m["break_app_sms_permission"] = 1
  <2>1. Fixes("break_app_sms_permission") = <<User("grant_app_permission", "sms")>>
    BY DEF Fixes, FixesMms, ServiceIssues, MmsIssues, Permissions
  <2>2. Len(Fixes("break_app_sms_permission")) = 1
    BY <2>1, NextCall, Zenon
  <2>3. m["break_app_sms_permission"] = 1
    BY <2>2 DEF Breaking
  <2>4. n["break_app_sms_permission"] = 0
    BY <1>0 DEF Breaking, Counted
  <2> QED
    BY <2>3, <2>4
<1>2. /\ "break_app_both_permissions" \notin S /\ "break_app_both_permissions" \notin T
      /\ n["break_app_both_permissions"] = 0 /\ m["break_app_both_permissions"] = 0
      /\ "break_app_storage_permission" \notin S /\ "break_app_storage_permission" \notin T
      /\ n["break_app_storage_permission"] = 0 /\ m["break_app_storage_permission"] = 0
  <2>1. /\ {"break_app_both_permissions", "break_app_storage_permission"} \subseteq BaseTasks
        /\ "break_app_both_permissions" \notin T /\ "break_app_storage_permission" \notin T
    BY <1>0, BaseTasksAre, NoSibling DEF Breaking, Permissions
  <2> QED
    BY <2>1 DEF Breaking, Counted
<1>3. Break("live", d, "break_app_sms_permission") = Then(Done(x))
  BY DEF Break, BreakMms, ServiceIssues, MmsIssues, Permissions
<1>4. Touches({"permissions"}, d, x) /\ x.permissions = d.permissions \ {"sms"}
  BY <1>0, PermissionIsSet
<1>5. Break("live", d, "break_app_sms_permission") = x
  <2>1. {"permissions"} \in SUBSET PhoneFields
    BY DEF PhoneFields
  <2> HIDE DEF x
  <2> QED
    BY <1>0, <1>3, <1>4, <2>1, PhoneThen
<1> HIDE DEF x
<1>6. /\ SimSick(x, T, m) /\ AirSick(x, m) /\ ApnSick(x, m) /\ LineSick(x, T, m) /\ Reached(x, m)
      /\ ModeSick(x, m) /\ SpeedSick(x, m) /\ WifiSick(x, m) /\ UsageSick(x, T, m)
      /\ RoamSick(x, T, m)
  <2>1. /\ Touches({"permissions"}, d, x)
        /\ Turns({"break_app_sms_permission"}, S, n, T, m)
    BY <1>0, <1>4
  <2> QED
    BY <1>0, <2>1, PartsKept DEF Ailing, ApnIssues, Suspensions, Usage, Roaming
<1>7. AppSick(x, m)
  BY <1>0, <1>1, <1>2, <1>4 DEF Ailing, AppSick
<1> QED
  BY <1>5, <1>6, <1>7 DEF Ailing

LEMMA StorageBroken ==
  ASSUME NEW d, NEW S, NEW n, NEW T, NEW m, Breaking(d, S, n, T, m, "break_app_storage_permission")
  PROVE  Ailing(Break("live", d, "break_app_storage_permission"), T, m)
<1> DEFINE x == RemovePermission(d, "storage")
<1>0. /\ InStep("live", d) /\ Shaped(d) /\ Ailing(d, S, n) /\ "break_app_storage_permission" \notin S /\ "break_app_storage_permission" \in T
      /\ Turns({"break_app_storage_permission"}, S, n, T, m) /\ "break_app_storage_permission" \in BaseTasks
  BY BaseTasksAre DEF Breaking, InStep, Account
<1>1. n["break_app_storage_permission"] = 0 /\ m["break_app_storage_permission"] = 1
  <2>1. Fixes("break_app_storage_permission") = <<User("grant_app_permission", "storage")>>
    BY DEF Fixes, FixesMms, ServiceIssues, MmsIssues, Permissions
  <2>2. Len(Fixes("break_app_storage_permission")) = 1
    BY <2>1, NextCall, Zenon
  <2>3. m["break_app_storage_permission"] = 1
    BY <2>2 DEF Breaking
  <2>4. n["break_app_storage_permission"] = 0
    BY <1>0 DEF Breaking, Counted
  <2> QED
    BY <2>3, <2>4
<1>2. /\ "break_app_both_permissions" \notin S /\ "break_app_both_permissions" \notin T
      /\ n["break_app_both_permissions"] = 0 /\ m["break_app_both_permissions"] = 0
      /\ "break_app_sms_permission" \notin S /\ "break_app_sms_permission" \notin T
      /\ n["break_app_sms_permission"] = 0 /\ m["break_app_sms_permission"] = 0
  <2>1. /\ {"break_app_both_permissions", "break_app_sms_permission"} \subseteq BaseTasks
        /\ "break_app_both_permissions" \notin T /\ "break_app_sms_permission" \notin T
    BY <1>0, BaseTasksAre, NoSibling DEF Breaking, Permissions
  <2> QED
    BY <2>1 DEF Breaking, Counted
<1>3. Break("live", d, "break_app_storage_permission") = Then(Done(x))
  BY DEF Break, BreakMms, ServiceIssues, MmsIssues, Permissions
<1>4. Touches({"permissions"}, d, x) /\ x.permissions = d.permissions \ {"storage"}
  BY <1>0, PermissionIsSet
<1>5. Break("live", d, "break_app_storage_permission") = x
  <2>1. {"permissions"} \in SUBSET PhoneFields
    BY DEF PhoneFields
  <2> HIDE DEF x
  <2> QED
    BY <1>0, <1>3, <1>4, <2>1, PhoneThen
<1> HIDE DEF x
<1>6. /\ SimSick(x, T, m) /\ AirSick(x, m) /\ ApnSick(x, m) /\ LineSick(x, T, m) /\ Reached(x, m)
      /\ ModeSick(x, m) /\ SpeedSick(x, m) /\ WifiSick(x, m) /\ UsageSick(x, T, m)
      /\ RoamSick(x, T, m)
  <2>1. /\ Touches({"permissions"}, d, x)
        /\ Turns({"break_app_storage_permission"}, S, n, T, m)
    BY <1>0, <1>4
  <2> QED
    BY <1>0, <2>1, PartsKept DEF Ailing, ApnIssues, Suspensions, Usage, Roaming
<1>7. AppSick(x, m)
  BY <1>0, <1>1, <1>2, <1>4 DEF Ailing, AppSick
<1> QED
  BY <1>5, <1>6, <1>7 DEF Ailing

-----------------------------------------------------------------------------
(* A composed task at its start.                                           *)

LEMMA FixCounts ==
  ASSUME NEW b \in BaseTasks
  PROVE  Len(Fixes(b)) \in 0..4 /\ (b \in Unfixable <=> Len(Fixes(b)) = 0)
<1>1. CASE b = "airplane_mode_on"
  <2>1. Fixes("airplane_mode_on") = <<User("toggle_airplane_mode", "")>>
    BY DEF Fixes, FixesService, ServiceIssues, MmsIssues, Permissions
  <2>2. Len(Fixes("airplane_mode_on")) = 1
    BY <2>1, NextCall, Zenon
  <2> QED
    BY <1>1, <2>2 DEF Unfixable
<1>2. CASE b = "bad_network_preference"
  <2>1. Fixes("bad_network_preference") = <<User("set_network_mode_preference", "prefer_5g")>>
    BY DEF Fixes, FixesMobile, ServiceIssues, MmsIssues, Permissions
  <2>2. Len(Fixes("bad_network_preference")) = 1
    BY <2>1, NextCall, Zenon
  <2> QED
    BY <1>2, <2>2 DEF Unfixable
<1>3. CASE b = "bad_vpn"
  <2>1. Fixes("bad_vpn") = <<User("disconnect_vpn", "")>>
    BY DEF Fixes, FixesMobile, ServiceIssues, MmsIssues, Permissions
  <2>2. Len(Fixes("bad_vpn")) = 1
    BY <2>1, NextCall, Zenon
  <2> QED
    BY <1>3, <2>2 DEF Unfixable
<1>4. CASE b = "bad_wifi_calling"
  <2>1. Fixes("bad_wifi_calling") = <<User("toggle_wifi_calling", "")>>
    BY DEF Fixes, FixesMms, ServiceIssues, MmsIssues, Permissions
  <2>2. Len(Fixes("bad_wifi_calling")) = 1
    BY <2>1, NextCall, Zenon
  <2> QED
    BY <1>4, <2>2 DEF Unfixable
<1>5. CASE b = "break_apn_mms_setting"
  <2>1. Fixes("break_apn_mms_setting") = <<User("reset_apn_settings", ""), User("reboot_device", "")>>
    BY DEF Fixes, FixesMms, ServiceIssues, MmsIssues, Permissions
  <2>2. Len(Fixes("break_apn_mms_setting")) = 2
    BY <2>1, NextCall, Zenon
  <2> QED
    BY <1>5, <2>2 DEF Unfixable
<1>6. CASE b = "break_apn_settings"
  <2>1. Fixes("break_apn_settings") = <<User("reset_apn_settings", ""), User("reboot_device", "")>>
    BY DEF Fixes, FixesService, ServiceIssues, MmsIssues, Permissions
  <2>2. Len(Fixes("break_apn_settings")) = 2
    BY <2>1, NextCall, Zenon
  <2> QED
    BY <1>6, <2>2 DEF Unfixable
<1>7. CASE b = "break_app_both_permissions"
  <2>1. Fixes("break_app_both_permissions") = <<User("grant_app_permission", "sms"), User("grant_app_permission", "storage")>>
    BY DEF Fixes, FixesMms, ServiceIssues, MmsIssues, Permissions
  <2>2. Len(Fixes("break_app_both_permissions")) = 2
    BY <2>1, NextCall, Zenon
  <2> QED
    BY <1>7, <2>2 DEF Unfixable
<1>8. CASE b = "break_app_sms_permission"
  <2>1. Fixes("break_app_sms_permission") = <<User("grant_app_permission", "sms")>>
    BY DEF Fixes, FixesMms, ServiceIssues, MmsIssues, Permissions
  <2>2. Len(Fixes("break_app_sms_permission")) = 1
    BY <2>1, NextCall, Zenon
  <2> QED
    BY <1>8, <2>2 DEF Unfixable
<1>9. CASE b = "break_app_storage_permission"
  <2>1. Fixes("break_app_storage_permission") = <<User("grant_app_permission", "storage")>>
    BY DEF Fixes, FixesMms, ServiceIssues, MmsIssues, Permissions
  <2>2. Len(Fixes("break_app_storage_permission")) = 1
    BY <2>1, NextCall, Zenon
  <2> QED
    BY <1>9, <2>2 DEF Unfixable
<1>10. CASE b = "contract_end_suspension"
  <2>1. Fixes("contract_end_suspension") = <<>>
    BY DEF Fixes, FixesService, ServiceIssues, MmsIssues, Permissions
  <2>2. Len(Fixes("contract_end_suspension")) = 0
    BY <2>1
  <2> QED
    BY <1>10, <2>2 DEF Unfixable
<1>11. CASE b = "data_mode_off"
  <2>1. Fixes("data_mode_off") = <<User("toggle_data", "")>>
    BY DEF Fixes, FixesMobile, ServiceIssues, MmsIssues, Permissions
  <2>2. Len(Fixes("data_mode_off")) = 1
    BY <2>1, NextCall, Zenon
  <2> QED
    BY <1>11, <2>2 DEF Unfixable
<1>12. CASE b = "data_saver_mode_on"
  <2>1. Fixes("data_saver_mode_on") = <<User("toggle_data_saver_mode", "")>>
    BY DEF Fixes, FixesMobile, ServiceIssues, MmsIssues, Permissions
  <2>2. Len(Fixes("data_saver_mode_on")) = 1
    BY <2>1, NextCall, Zenon
  <2> QED
    BY <1>12, <2>2 DEF Unfixable
<1>13. CASE b = "data_usage_exceeded"
  <2>1. Fixes("data_usage_exceeded") = <<Agent("refuel_data", "")>>
    BY DEF Fixes, FixesMobile, ServiceIssues, MmsIssues, Permissions
  <2>2. Len(Fixes("data_usage_exceeded")) = 1
    BY <2>1, NextCall, Zenon
  <2> QED
    BY <1>13, <2>2 DEF Unfixable
<1>14. CASE b = "data_usage_exceeded_no_refuel"
  <2>1. Fixes("data_usage_exceeded_no_refuel") = <<>>
    BY DEF Fixes, FixesMobile, ServiceIssues, MmsIssues, Permissions
  <2>2. Len(Fixes("data_usage_exceeded_no_refuel")) = 0
    BY <2>1
  <2> QED
    BY <1>14, <2>2 DEF Unfixable
<1>15. CASE b = "lock_sim_card_pin"
  <2>1. Fixes("lock_sim_card_pin") = <<>>
    BY DEF Fixes, FixesService, ServiceIssues, MmsIssues, Permissions
  <2>2. Len(Fixes("lock_sim_card_pin")) = 0
    BY <2>1
  <2> QED
    BY <1>15, <2>2 DEF Unfixable
<1>16. CASE b = "overdue_bill_suspension"
  <2>1. Fixes("overdue_bill_suspension") = <<Agent("send_payment_request", "overdue"),
                                            User("make_payment", ""),
                                            Agent("resume_line", ""),
                                            User("reboot_device", "")>>
    BY DEF Fixes, FixesService, ServiceIssues, MmsIssues, Permissions
  <2>2. Len(Fixes("overdue_bill_suspension")) = 4
    BY <2>1, NextCall, Zenon
  <2> QED
    BY <1>16, <2>2 DEF Unfixable
<1>17. CASE b = "unseat_sim_card"
  <2>1. Fixes("unseat_sim_card") = <<User("reseat_sim_card", "")>>
    BY DEF Fixes, FixesService, ServiceIssues, MmsIssues, Permissions
  <2>2. Len(Fixes("unseat_sim_card")) = 1
    BY <2>1, NextCall, Zenon
  <2> QED
    BY <1>17, <2>2 DEF Unfixable
<1>18. CASE b = "user_abroad_roaming_disabled_off"
  <2>1. Fixes("user_abroad_roaming_disabled_off") = <<Agent("enable_roaming", ""), User("toggle_roaming", "")>>
    BY DEF Fixes, FixesMobile, ServiceIssues, MmsIssues, Permissions
  <2>2. Len(Fixes("user_abroad_roaming_disabled_off")) = 2
    BY <2>1, NextCall, Zenon
  <2> QED
    BY <1>18, <2>2 DEF Unfixable
<1>19. CASE b = "user_abroad_roaming_disabled_on"
  <2>1. Fixes("user_abroad_roaming_disabled_on") = <<Agent("enable_roaming", "")>>
    BY DEF Fixes, FixesMobile, ServiceIssues, MmsIssues, Permissions
  <2>2. Len(Fixes("user_abroad_roaming_disabled_on")) = 1
    BY <2>1, NextCall, Zenon
  <2> QED
    BY <1>19, <2>2 DEF Unfixable
<1>20. CASE b = "user_abroad_roaming_enabled_off"
  <2>1. Fixes("user_abroad_roaming_enabled_off") = <<User("toggle_roaming", "")>>
    BY DEF Fixes, FixesMobile, ServiceIssues, MmsIssues, Permissions
  <2>2. Len(Fixes("user_abroad_roaming_enabled_off")) = 1
    BY <2>1, NextCall, Zenon
  <2> QED
    BY <1>20, <2>2 DEF Unfixable
<1> QED
  BY BaseTasksAre, <1>1, <1>2, <1>3, <1>4, <1>5, <1>6, <1>7, <1>8, <1>9, <1>10, <1>11, <1>12, <1>13, <1>14, <1>15, <1>16, <1>17, <1>18, <1>19, <1>20

LEMMA AllMended ==
  ASSUME NEW d, NEW S, NEW n, NEW m, NEW b \in BaseTasks, Mending(d, S, n, m, b)
  PROVE  Ailing(After(NextFix(b, n[b]), d), S, m)
<1>1. Len(Fixes(b)) > 0
  BY FixCounts DEF Mending
<1>2. b \notin Unfixable
  BY <1>1, FixCounts
<1>3. CASE b = "airplane_mode_on"
  BY <1>3, AirplaneModeMended
<1>4. CASE b = "bad_network_preference"
  BY <1>4, ModeMended
<1>5. CASE b = "bad_vpn"
  BY <1>5, VpnMended
<1>6. CASE b = "bad_wifi_calling"
  BY <1>6, WifiMended
<1>7. CASE b = "break_apn_mms_setting"
  BY <1>7, ApnMmsMended
<1>8. CASE b = "break_apn_settings"
  BY <1>8, ApnMended
<1>9. CASE b = "break_app_both_permissions"
  BY <1>9, PermissionsMended
<1>10. CASE b = "break_app_sms_permission"
  BY <1>10, SmsMended
<1>11. CASE b = "break_app_storage_permission"
  BY <1>11, StorageMended
<1>12. CASE b = "data_mode_off"
  BY <1>12, DataMended
<1>13. CASE b = "data_saver_mode_on"
  BY <1>13, SaverMended
<1>14. CASE b = "data_usage_exceeded"
  BY <1>14, UsageMended
<1>15. CASE b = "overdue_bill_suspension"
  BY <1>15, OverdueMended
<1>16. CASE b = "unseat_sim_card"
  BY <1>16, SimCardMended
<1>17. CASE b = "user_abroad_roaming_disabled_off"
  BY <1>17, RoamingOffMended
<1>18. CASE b = "user_abroad_roaming_disabled_on"
  BY <1>18, LineRoamingMended
<1>19. CASE b = "user_abroad_roaming_enabled_off"
  BY <1>19, PhoneRoamingMended
<1> QED
  BY <1>2, BaseTasksAre, <1>3, <1>4, <1>5, <1>6, <1>7, <1>8, <1>9, <1>10, <1>11, <1>12, <1>13, <1>14, <1>15, <1>16, <1>17, <1>18, <1>19 DEF Unfixable

LEMMA AllBroken ==
  ASSUME NEW d, NEW S, NEW n, NEW T, NEW m, NEW b \in BaseTasks, Breaking(d, S, n, T, m, b)
  PROVE  Ailing(Break("live", d, b), T, m)
<1>1. CASE b = "airplane_mode_on"
  BY <1>1, AirplaneModeBroken
<1>2. CASE b = "bad_network_preference"
  BY <1>2, ModeBroken
<1>3. CASE b = "bad_vpn"
  BY <1>3, VpnBroken
<1>4. CASE b = "bad_wifi_calling"
  BY <1>4, WifiBroken
<1>5. CASE b = "break_apn_mms_setting"
  BY <1>5, ApnMmsBroken
<1>6. CASE b = "break_apn_settings"
  BY <1>6, ApnBroken
<1>7. CASE b = "break_app_both_permissions"
  BY <1>7, PermissionsBroken
<1>8. CASE b = "break_app_sms_permission"
  BY <1>8, SmsBroken
<1>9. CASE b = "break_app_storage_permission"
  BY <1>9, StorageBroken
<1>10. CASE b = "contract_end_suspension"
  BY <1>10, ContractSuspended
<1>11. CASE b = "data_mode_off"
  BY <1>11, DataBroken
<1>12. CASE b = "data_saver_mode_on"
  BY <1>12, SaverBroken
<1>13. CASE b = "data_usage_exceeded"
  BY <1>13, UsageBroken
<1>14. CASE b = "data_usage_exceeded_no_refuel"
  BY <1>14, RefuelBroken
<1>15. CASE b = "lock_sim_card_pin"
  BY <1>15, SimLocked
<1>16. CASE b = "overdue_bill_suspension"
  BY <1>16, OverdueSuspended
<1>17. CASE b = "unseat_sim_card"
  BY <1>17, SimUnseated
<1>18. CASE b = "user_abroad_roaming_disabled_off"
  BY <1>18, RoamingOffBroken
<1>19. CASE b = "user_abroad_roaming_disabled_on"
  BY <1>19, LineRoamingBroken
<1>20. CASE b = "user_abroad_roaming_enabled_off"
  BY <1>20, PhoneRoamingBroken
<1> QED
  BY BaseTasksAre, <1>1, <1>2, <1>3, <1>4, <1>5, <1>6, <1>7, <1>8, <1>9, <1>10, <1>11, <1>12, <1>13, <1>14, <1>15, <1>16, <1>17, <1>18, <1>19, <1>20

\* The calls that mend the issues in S, before the first is made.
AllCalls(S) == [b \in BaseTasks |-> IF b \in S THEN Len(Fixes(b)) ELSE 0]

LEMMA AllCounted ==
  ASSUME NEW S
  PROVE  Counted(S, AllCalls(S)) /\ \A b \in BaseTasks : AllCalls(S)[b] = IF b \in S THEN Len(Fixes(b)) ELSE 0
<1>1. \A b \in BaseTasks : AllCalls(S)[b] = IF b \in S THEN Len(Fixes(b)) ELSE 0
  BY DEF AllCalls
<1>2. ASSUME NEW b \in BaseTasks PROVE AllCalls(S)[b] \in 0..4
  <2>1. Len(Fixes(b)) \in 0..4 /\ 0 \in 0..4
    BY FixCounts
  <2>2. AllCalls(S)[b] = IF b \in S THEN Len(Fixes(b)) ELSE 0
    BY <1>1
  <2> QED
    BY <2>1, <2>2, Zenon
<1>3. AllCalls(S) \in [BaseTasks -> 0..4]
  BY <1>2 DEF AllCalls
<1> QED
  BY <1>1, <1>3 DEF Counted

LEMMA HomeIsWell ==
  ASSUME NEW roams \in BOOLEAN
  PROVE  Ailing(Home(roams), {}, AllCalls({}))
<1> DEFINE d == Home(roams)
           n == AllCalls({})
<1>1. \A b \in BaseTasks : n[b] = 0
  BY AllCounted
<1>2. /\ d.line_status = "active" /\ d.data_used = 87 /\ d.data_refueling = 0
      /\ d.bills["overdue"] = "none" /\ ~d.airplane_mode /\ ~d.sim_missing
      /\ d.sim_status = "active" /\ d.status = "connected" /\ d.tech = "5G" /\ d.mode = "prefer_5g"
  BY DEF Home
<1>3. /\ d.data /\ d.roaming = FALSE /\ d.apn_name = "internet" /\ ~d.apn_reset /\ d.mmsc
      /\ ~d.wifi_calling /\ ~d.mms_over_wifi /\ ~d.saver /\ ~d.vpn /\ d.permissions = {"sms", "storage"}
      /\ ~d.abroad /\ d.line_active /\ d.request = NoRequest
  BY DEF Home
<1> HIDE DEF d, n
<1>4. SimSick(d, {}, n) /\ AirSick(d, n) /\ ApnSick(d, n) /\ ModeSick(d, n) /\ SpeedSick(d, n) /\ WifiSick(d, n)
  BY <1>1, <1>2, <1>3, BaseTasksAre DEF SimSick, AirSick, ApnSick, ModeSick, SpeedSick, WifiSick
<1>5. LineSick(d, {}, n) /\ UsageSick(d, {}, n) /\ AppSick(d, n)
  BY <1>1, <1>2, <1>3, BaseTasksAre DEF LineSick, UsageSick, AppSick
<1>7. RoamSick(d, {}, n)
  <2>1. d.roaming \in BOOLEAN /\ ~d.roaming
    BY <1>3
  <2> QED
    BY <1>3, <2>1 DEF RoamSick
<1>6. Reached(d, n)
  BY <1>2, <1>3 DEF Reached, Serves, Technology
<1> QED
  BY <1>4, <1>5, <1>6, <1>7 DEF Ailing, d, n

\* The issues of t among the first n base tasks.
IssuesUpTo(t, n) == {b \in t : \E i \in 1..n : b = TaskOrder[i]}

LEMMA TaskOrderIs ==
  /\ DOMAIN TaskOrder = 1..20 /\ Len(TaskOrder) = 20
  /\ \A i, j \in 1..20 : TaskOrder[i] = TaskOrder[j] => i = j
  /\ TaskOrder[1] = "airplane_mode_on"
BY DEF TaskOrder

LEMMA SomeComposed ==
  ASSUME NEW t, Composed(t), NEW S, S \subseteq t
  PROVE  Composed(S)
BY DEF Composed, OneOf

LEMMA NextBroken ==
  ASSUME NEW t, Composed(t), NEW n \in Nat, n + 1 <= 20, NEW d, Starts("live", "live", d, d),
         Ailing(d, IssuesUpTo(t, n), AllCalls(IssuesUpTo(t, n)))
  PROVE  LET e == BreakNext("live", t, d, n + 1) IN
         Ailing(e, IssuesUpTo(t, n + 1), AllCalls(IssuesUpTo(t, n + 1)))
<1> DEFINE b == TaskOrder[n + 1]
           S == IssuesUpTo(t, n)
           T == IssuesUpTo(t, n + 1)
           e == BreakNext("live", t, d, n + 1)
<1>1. n + 1 \in 1..20 /\ \A i : i \in 1..(n + 1) <=> i \in 1..n \/ i = n + 1
  OBVIOUS
<1>2. b \in BaseTasks /\ b \notin S
  BY <1>1, TaskOrderIs DEF BaseTasks, IssuesUpTo
<1>3. T = IF b \in t THEN S \cup {b} ELSE S
  BY <1>1 DEF IssuesUpTo
<1>4. S \subseteq t /\ T \subseteq t
  BY DEF IssuesUpTo
<1>5. Composed(T)
  BY <1>4, SomeComposed
<1>6. e = IF b \in t THEN Break("live", d, b) ELSE d
  BY DEF BreakNext
<1>7. CASE b \notin t
  BY <1>3, <1>6, <1>7
<1>8. CASE b \in t
  <2>1. b = "airplane_mode_on" => "bad_vpn" \notin S
    BY <1>1, TaskOrderIs DEF IssuesUpTo
  <2> HIDE DEF b, S, T
  <2>2. Turns({b}, S, AllCalls(S), T, AllCalls(T))
    BY <1>3, <1>8, AllCounted DEF Turns
  <2>3. Counted(S, AllCalls(S)) /\ Counted(T, AllCalls(T)) /\ AllCalls(T)[b] = Len(Fixes(b)) /\ b \in T
    BY <1>2, <1>3, <1>8, AllCounted
  <2>4. InStep("live", d) /\ Untroubled(d)
    BY DEF Starts
  <2>5. Ailing(d, S, AllCalls(S))
    BY DEF S
  <2>6. Breaking(d, S, AllCalls(S), T, AllCalls(T), b)
    BY <1>2, <1>3, <1>5, <1>8, <2>1, <2>2, <2>3, <2>4, <2>5 DEF Breaking
  <2>7. Ailing(Break("live", d, b), T, AllCalls(T))
    BY <1>2, <2>6, AllBroken
  <2> QED
    BY <1>6, <1>8, <2>7 DEF T
<1> QED
  BY <1>7, <1>8

LEMMA BrokenAils ==
  ASSUME NEW t, Composed(t), NEW roams \in BOOLEAN
  PROVE  Ailing(Broken("live", t, roams), t, AllCalls(t))
<1>1. PICK g : BreaksDownTo("live", t, roams, g)
  BY BrokenIs
<1> DEFINE Good(n) == Starts("live", "live", g[n], g[n])
                      /\ Ailing(g[n], IssuesUpTo(t, n), AllCalls(IssuesUpTo(t, n)))
           P == {n \in Nat : n <= 20 => Good(n)}
<1>2. 0 \in P
  <2>1. IssuesUpTo(t, 0) = {}
    BY DEF IssuesUpTo
  <2>2. g[0] = Home(roams)
    BY <1>1 DEF BreaksDownTo
  <2> QED
    BY <2>1, <2>2, HomeIsWell, HomeStarts
<1>3. ASSUME NEW n \in Nat, n \in P PROVE n + 1 \in P
  <2>1. SUFFICES ASSUME n + 1 <= 20 PROVE Good(n + 1)
    OBVIOUS
  <2>2. n + 1 \in 1..20 /\ n + 1 - 1 = n /\ n + 1 \in DOMAIN TaskOrder
    BY <2>1, TaskOrderIs
  <2>3. g[n + 1] = BreakNext("live", t, g[n], n + 1)
    BY <1>1, <2>2, TaskOrderIs DEF BreaksDownTo
  <2>4. Starts("live", "live", g[n], g[n]) /\ Ailing(g[n], IssuesUpTo(t, n), AllCalls(IssuesUpTo(t, n)))
    BY <1>3, <2>1
  <2>5. Ailing(g[n + 1], IssuesUpTo(t, n + 1), AllCalls(IssuesUpTo(t, n + 1)))
    BY <2>1, <2>3, <2>4, NextBroken
  <2>6. "live" # "seed"
    OBVIOUS
  <2>7. Starts("live", "live", Break("live", g[n], TaskOrder[n + 1]), Break("live", g[n], TaskOrder[n + 1]))
    BY <2>2, <2>4, <2>6, Breaks
  <2>8. Starts("live", "live", g[n + 1], g[n + 1])
    BY <2>3, <2>4, <2>7 DEF BreakNext
  <2> QED
    BY <2>5, <2>8
<1>4. \A n \in Nat : n \in P
  <2> HIDE DEF P
  <2> QED
    BY <1>2, <1>3, SetInduction
<1>5. Good(20)
  BY <1>4
<1>6. IssuesUpTo(t, 20) = t
  BY TaskOrderIs DEF IssuesUpTo, Composed, BaseTasks
<1>7. Broken("live", t, roams) = g[20]
  BY <1>1, TaskOrderIs DEF BreaksDownTo
<1> QED
  BY <1>5, <1>6, <1>7

\* The tasks a manager composes.
LEMMA TasksAreComposed ==
  ASSUME NEW k \in {"service", "mobile", "mms"}, NEW t \in ComposedTasks(k)
  PROVE  Composed(t) /\ t \subseteq UNION SelectionSets[k]
<1> DEFINE A == UNION SelectionSets[k]
<1>1. t \subseteq A /\ \A s \in SelectionSets[k] : Cardinality(t \cap s) <= 1
  BY DEF ComposedTasks, kSubset
<1>2. A \subseteq BaseTasks
  BY BaseTasksAre DEF SelectionSets, Roaming, Usage, Permissions
<1>3. IsFiniteSet(BaseTasks)
  <2>1. TaskOrder \in Surjection(1..20, BaseTasks)
    <3>1. TaskOrder = [i \in 1..20 |-> TaskOrder[i]]
      BY DEF TaskOrder
    <3> QED
      BY <3>1, TaskOrderIs DEF Surjection, BaseTasks
  <2>2. 1 \in Int /\ 20 \in Int
    OBVIOUS
  <2>3. IsFiniteSet(1..20)
    BY <2>2, FS_Interval, Zenon
  <2> QED
    BY <2>1, <2>3, FS_Surjection
<1>4. ASSUME NEW s \in SelectionSets[k] PROVE OneOf(t, s)
  <2>1. SUFFICES ASSUME NEW x \in t \cap s, NEW y \in t \cap s, x # y PROVE FALSE
    BY DEF OneOf
  <2> DEFINE X == t \cap s
  <2>2. X \subseteq BaseTasks /\ {x, y} \subseteq X
    BY <1>1, <1>2
  <2>3. IsFiniteSet(X) /\ Cardinality(X) \in Nat
    BY <1>3, <2>2, FS_Subset, FS_CardinalityType
  <2>4. Cardinality({x, y}) = 2
    <3>1. IsFiniteSet({x}) /\ Cardinality({x}) = 1
      BY FS_Singleton
    <3>2. Cardinality({x} \cup {y}) = Cardinality({x}) + 1
      BY <2>1, <3>1, FS_AddElement
    <3>3. {x} \cup {y} = {x, y}
      OBVIOUS
    <3> QED
      BY <3>1, <3>2, <3>3
  <2>5. Cardinality({x, y}) <= Cardinality(X)
    BY <2>2, <2>3, FS_Subset
  <2> QED
    BY <1>1, <2>3, <2>4, <2>5
<1>5. CASE k = "service"
  <2>1. A = {"airplane_mode_on", "unseat_sim_card", "lock_sim_card_pin", "break_apn_settings",
             "overdue_bill_suspension", "contract_end_suspension"}
    BY <1>5 DEF SelectionSets
  <2>2. Suspensions \in SelectionSets[k]
    BY <1>5 DEF SelectionSets, Suspensions
  <2>3. OneOf(t, Suspensions)
    BY <1>4, <2>2
  <2>4. OneOf(t, Roaming) /\ OneOf(t, Usage) /\ OneOf(t, Permissions) /\ OneOf(t, ApnIssues)
    BY <1>1, <2>1 DEF OneOf, Roaming, Usage, Permissions, ApnIssues
  <2> QED
    BY <1>1, <1>2, <2>3, <2>4 DEF Composed
<1>6. CASE k = "mobile"
  <2>1. A = {"airplane_mode_on", "data_mode_off", "data_saver_mode_on", "bad_network_preference", "bad_vpn"}
            \cup Roaming \cup Usage
    BY <1>6 DEF SelectionSets
  <2>2. Roaming \in SelectionSets[k] /\ Usage \in SelectionSets[k]
    BY <1>6 DEF SelectionSets
  <2>3. OneOf(t, Roaming) /\ OneOf(t, Usage)
    BY <1>4, <2>2
  <2>4. OneOf(t, Suspensions) /\ OneOf(t, Permissions) /\ OneOf(t, ApnIssues)
    BY <1>1, <2>1 DEF OneOf, Roaming, Usage, Permissions, ApnIssues, Suspensions
  <2> QED
    BY <1>1, <1>2, <2>3, <2>4 DEF Composed
<1>7. CASE k = "mms"
  <2>1. A = {"airplane_mode_on", "unseat_sim_card", "data_mode_off", "bad_network_preference", "bad_wifi_calling",
             "break_apn_mms_setting"} \cup Usage \cup Roaming \cup Permissions
    BY <1>7 DEF SelectionSets
  <2>2. Roaming \in SelectionSets[k] /\ Usage \in SelectionSets[k] /\ Permissions \in SelectionSets[k]
    BY <1>7 DEF SelectionSets
  <2>3. OneOf(t, Roaming) /\ OneOf(t, Usage) /\ OneOf(t, Permissions)
    BY <1>4, <2>2
  <2>4. OneOf(t, Suspensions) /\ OneOf(t, ApnIssues)
    BY <1>1, <2>1 DEF OneOf, Roaming, Usage, Permissions, ApnIssues, Suspensions
  <2> QED
    BY <1>1, <1>2, <2>3, <2>4 DEF Composed
<1> QED
  BY <1>1, <1>5, <1>6, <1>7

-----------------------------------------------------------------------------
(* A task while its fix calls are made.                                    *)

LEMMA IssuesStart == TelecomInit => IssueInv
<1> SUFFICES ASSUME TelecomInit PROVE IssueInv
  OBVIOUS
<1>1. manager \in Managers /\ issues \in ComposedTasks(manager) /\ manager \in {"service", "mobile", "mms"}
  BY TelecomAssumption DEF TelecomInit
<1>2. Composed(issues) /\ issues \subseteq UNION SelectionSets[manager]
  BY <1>1, TasksAreComposed
<1>3. PICK roams \in BOOLEAN : env = [c \in Copies |-> Broken(c, issues, roams)]
  BY DEF TelecomInit
<1>4. env["live"] = Broken("live", issues, roams)
  BY <1>3, TelecomAssumption
<1>5. \A b \in issues : todo[b] = IF issues \cap Unfixable = {} THEN Fixes(b) ELSE <<>>
  BY DEF TelecomInit, Reference
<1>6. \A b \in issues : Fixes(b) \in Seq(Calls) /\ Len(Fixes(b)) \in Nat
  <2>1. \A b : Fixes(b) \in Seq(Calls)
    BY ReferenceCalls
  <2> QED
    BY <2>1
<1>7. LeftToDo
  <2>1. CASE issues \cap Unfixable = {}
    <3>1. ASSUME NEW b \in issues, NEW k \in 1..Len(todo[b])
          PROVE  todo[b][k] = NextFix(b, Len(todo[b]) - k + 1)
      <4>1. todo[b] = Fixes(b) /\ Len(Fixes(b)) \in Nat
        BY <1>5, <1>6, <2>1
      <4> DEFINE total == Len(Fixes(b))
      <4>2. NextFix(b, total - k + 1) = Fixes(b)[total - (total - k + 1) + 1]
        BY DEF NextFix
      <4> HIDE DEF total
      <4>3. total - (total - k + 1) + 1 = k
        BY <3>1, <4>1 DEF total
      <4> QED
        BY <4>1, <4>2, <4>3 DEF total
    <3>2. \A b \in issues : Len(todo[b]) <= Len(Fixes(b))
      BY <1>5, <1>6, <2>1
    <3> QED
      BY <2>1, <3>1, <3>2 DEF LeftToDo
  <2>2. CASE issues \cap Unfixable # {}
    <3>1. \A b \in issues : todo[b] = <<>> /\ Len(todo[b]) = 0
      BY <1>5, <2>2
    <3>2. \A b \in issues : Len(todo[b]) <= Len(Fixes(b)) /\ 1..Len(todo[b]) = {}
      BY <1>6, <3>1
    <3> QED
      BY <3>1, <3>2 DEF LeftToDo
  <2> QED
    BY <2>1, <2>2
<1>8. CallsLeft = AllCalls(issues)
  BY <1>5 DEF CallsLeft, AllCalls
<1> QED
  BY <1>1, <1>2, <1>4, <1>7, <1>8, BrokenAils DEF IssueInv, OfManager

LEMMA IssueMended ==
  ASSUME TelecomInv, IssueInv, detours = 0, NEW b \in issues, FixCall(b)
  PROVE  LeftToDo' /\ Ailing(env'["live"], issues', CallsLeft')
<1> DEFINE call == Head(todo[b])
           n == CallsLeft
           m == CallsLeft'
           d == env["live"]
<1>1. /\ todo[b] # <<>> /\ Perform(call, TRUE) /\ todo' = [todo EXCEPT ![b] = Tail(@)] /\ issues' = issues
  BY DEF FixCall, Perform
<1>2. /\ DOMAIN todo = issues /\ \A i \in issues : todo[i] \in Seq(Calls) /\ Len(todo[i]) \in Nat
      /\ InStep("live", d)
  BY DEF TelecomInv, TelecomTypes
<1>3. Composed(issues) /\ issues \subseteq BaseTasks /\ LeftToDo /\ Ailing(d, issues, n)
  BY DEF IssueInv, Composed
<1>4. issues \cap Unfixable = {}
  BY <1>1, <1>3 DEF LeftToDo
<1>5. todo'[b] = Tail(todo[b]) /\ \A i \in issues : i # b => todo'[i] = todo[i]
  BY <1>1, <1>2
<1>6. /\ Tail(todo[b]) \in Seq(Calls) /\ Len(Tail(todo[b])) = Len(todo[b]) - 1 /\ Len(todo[b]) > 0
      /\ \A k \in 1..(Len(todo[b]) - 1) : Tail(todo[b])[k] = todo[b][k + 1]
      /\ call = todo[b][1]
  BY <1>1, <1>2
<1>7. \A i \in BaseTasks : /\ n[i] = IF i \in issues THEN Len(todo[i]) ELSE 0
                           /\ m[i] = IF i \in issues THEN Len(todo'[i]) ELSE 0
  BY <1>1, <1>4 DEF CallsLeft
<1>8. ASSUME NEW i \in issues
      PROVE  Len(todo[i]) \in 0..4 /\ Len(todo[i]) <= Len(Fixes(i)) /\ Len(Fixes(i)) \in 0..4
  <2>1. Len(Fixes(i)) \in 0..4
    BY <1>3, FixCounts
  <2>2. Len(todo[i]) \in Nat /\ Len(todo[i]) <= Len(Fixes(i))
    BY <1>2, <1>3 DEF LeftToDo
  <2>3. \A p, q : p \in Nat /\ q \in 0..4 /\ p <= q => p \in 0..4
    OBVIOUS
  <2> QED
    BY <2>1, <2>2, <2>3
<1>9. b \in BaseTasks /\ n[b] = Len(todo[b]) /\ m[b] = n[b] - 1 /\ n[b] \in 1..Len(Fixes(b))
  <2>1. b \in BaseTasks
    BY <1>3
  <2>2. n[b] = Len(todo[b]) /\ m[b] = Len(todo'[b])
    BY <1>7, <2>1
  <2> HIDE DEF n, m
  <2> QED
    BY <1>5, <1>6, <1>8, <2>1, <2>2
<1>10. Turns({b}, issues, n, issues, m)
  BY <1>5, <1>7 DEF Turns
<1>11. Counted(issues, n)
  <2>1. ASSUME NEW i \in BaseTasks PROVE n[i] \in 0..4 /\ (n[i] > 0 => i \in issues)
    <3>1. CASE i \in issues
      <4>1. n[i] = Len(todo[i])
        BY <1>7, <3>1
      <4> HIDE DEF n
      <4> QED
        BY <1>8, <3>1, <4>1
    <3>2. CASE i \notin issues
      <4>1. n[i] = 0
        BY <1>7, <3>2
      <4> HIDE DEF n
      <4> QED
        BY <4>1
    <3> QED
      BY <3>1, <3>2
  <2>2. n \in [BaseTasks -> 0..4]
    BY <2>1 DEF CallsLeft
  <2> QED
    BY <2>1, <2>2 DEF Counted
<1>12. Counted(issues, m)
  <2>1. \A i \in BaseTasks : i # b => m[i] = n[i]
    BY <1>5, <1>7
  <2>2. n[b] \in 0..4 /\ \A i \in BaseTasks : n[i] \in 0..4 /\ (n[i] > 0 => i \in issues)
    BY <1>9, <1>11 DEF Counted
  <2>3. m[b] \in 0..4
    <3> HIDE DEF n, m
    <3> QED
      BY <1>8, <1>9, <2>2
  <2>4. \A i \in BaseTasks : m[i] \in 0..4 /\ (m[i] > 0 => i \in issues)
    BY <2>1, <2>2, <2>3
  <2>5. m \in [BaseTasks -> 0..4]
    BY <2>4 DEF CallsLeft
  <2> QED
    BY <2>4, <2>5 DEF Counted
<1>13. call = NextFix(b, n[b])
  <2>1. 1 \in 1..Len(todo[b]) /\ Len(todo[b]) - 1 + 1 = Len(todo[b])
    BY <1>2, <1>6
  <2> QED
    BY <1>3, <1>6, <1>9, <2>1 DEF LeftToDo
<1>14. b = "data_usage_exceeded" => RoomForBill(d)
  <2> SUFFICES ASSUME b = "data_usage_exceeded" PROVE RoomForBill(d)
    OBVIOUS
  <2>1. Fixes(b) = <<Agent("refuel_data", "")>>
    BY DEF Fixes, FixesMobile, ServiceIssues, MmsIssues, Permissions
  <2>2. Len(Fixes(b)) = 1 /\ NextFix(b, 1) = Agent("refuel_data", "")
    BY <2>1, NextCall, Zenon
  <2>3. n[b] = 1
    <3>1. n[b] \in 1..1
      BY <1>9, <2>2
    <3> HIDE DEF n
    <3> QED
      BY <3>1
  <2>4. call = Agent("refuel_data", "")
    BY <1>13, <2>2, <2>3
  <2>5. call[2] = "refuel_data"
    <3> HIDE DEF call
    <3> QED
      BY <2>4 DEF Agent
  <2> QED
    BY <1>1, <2>5 DEF Perform
<1>15. Mending(d, issues, n, m, b)
  BY <1>2, <1>3, <1>9, <1>10, <1>11, <1>12, <1>14 DEF Mending
<1>16. env'["live"] = After(call, d)
  BY <1>1, TelecomAssumption DEF Perform, Made, After
<1>17. Ailing(env'["live"], issues, m)
  <2> HIDE DEF n, m, call, d
  <2> QED
    BY <1>9, <1>13, <1>15, <1>16, AllMended
<1>18. LeftToDo'
  <2>1. ASSUME NEW i \in issues
        PROVE  /\ Len(todo'[i]) <= Len(Fixes(i))
               /\ \A k \in 1..Len(todo'[i]) : todo'[i][k] = NextFix(i, Len(todo'[i]) - k + 1)
    <3>1. CASE i # b
      BY <1>3, <1>5, <3>1 DEF LeftToDo
    <3>2. CASE i = b
      <4>1. Len(todo'[b]) = Len(todo[b]) - 1 /\ Len(todo[b]) \in Nat /\ Len(todo[b]) <= Len(Fixes(b))
            /\ Len(Fixes(b)) \in Nat
        BY <1>2, <1>5, <1>6, <1>8
      <4>2. ASSUME NEW k \in 1..Len(todo'[b])
            PROVE  todo'[b][k] = NextFix(b, Len(todo'[b]) - k + 1)
        <5>1. /\ k + 1 \in 1..Len(todo[b]) /\ k \in 1..(Len(todo[b]) - 1)
              /\ Len(todo[b]) - (k + 1) + 1 = Len(todo'[b]) - k + 1
          BY <4>1, <4>2
        <5>2. todo'[b][k] = todo[b][k + 1]
          BY <1>5, <1>6, <5>1
        <5>3. todo[b][k + 1] = NextFix(b, Len(todo[b]) - (k + 1) + 1)
          BY <1>3, <5>1 DEF LeftToDo
        <5> QED
          BY <5>1, <5>2, <5>3
      <4>3. Len(todo'[b]) <= Len(Fixes(b))
        BY <4>1
      <4> QED
        BY <3>2, <4>2, <4>3
    <3> QED
      BY <3>1, <3>2
  <2> QED
    BY <1>1, <1>4, <2>1 DEF LeftToDo
<1> QED
  BY <1>1, <1>17, <1>18

LEMMA IssuesKept == TelecomInv /\ IssueInv /\ [TelecomNext]_telecomVars => IssueInv'
<1>1. ASSUME IssueInv, UNCHANGED telecomVars PROVE IssueInv'
  BY <1>1 DEF telecomVars, IssueInv, OfManager, LeftToDo, CallsLeft
<1>2. ASSUME TelecomInv, IssueInv, Detour PROVE IssueInv'
  <2>1. detours' # 0 /\ issues' = issues /\ manager' = manager
    BY <1>2 DEF Detour, Perform, TelecomInv, TelecomTypes
  <2> QED
    BY <1>2, <2>1 DEF IssueInv, OfManager
<1>3. ASSUME TelecomInv, IssueInv, NEW b \in issues, FixCall(b) PROVE IssueInv'
  <2>1. detours' = detours /\ issues' = issues /\ manager' = manager
    BY <1>3 DEF FixCall, Perform
  <2>2. detours = 0 => LeftToDo' /\ Ailing(env'["live"], issues', CallsLeft')
    BY <1>3, IssueMended
  <2> QED
    BY <1>3, <2>1, <2>2 DEF IssueInv, OfManager
<1> QED
  BY <1>1, <1>2, <1>3 DEF TelecomNext

LEMMA IssuesCorrect == Spec => []IssueInv
<1>1. Init => IssueInv
  BY IssuesStart DEF Init
<1>2. [Next]_domainsVars => [TelecomNext]_telecomVars
  BY DEF Next, domainsVars, TelecomStep, BankingPlayed, RetailPlayed, AirlinePlayed
<1> QED
  BY <1>1, <1>2, IssuesKept, TelecomCorrect, PTL DEF Spec

\* With all calls made, phone and account are well.
LEMMA WellAgain ==
  ASSUME NEW d, NEW S, NEW n, InStep("live", d), Ailing(d, S, n), \A b \in BaseTasks : n[b] = 0,
         S \cap Unfixable = {}
  PROVE  /\ d.status = "connected" /\ d.tech = "5G" /\ ~d.airplane_mode /\ d.data /\ ~d.saver /\ ~d.vpn
         /\ d.bills["overdue"] \in {"none", "paid"} /\ ~d.exceeded /\ ~d.wifi_calling /\ d.mmsc
         /\ {"storage", "sms"} \subseteq d.permissions
         /\ d.abroad => d.roaming /\ d.roaming_allowed
         /\ "data_usage_exceeded" \in S => d.data_refueling = 20
<1>1. /\ "contract_end_suspension" \notin S /\ "data_usage_exceeded_no_refuel" \notin S
      /\ "lock_sim_card_pin" \notin S
  BY DEF Unfixable
<1>2. /\ d.line_active = (d.line_status = "active") /\ d.roaming_allowed = d.line_roaming
      /\ d.exceeded = (d.data_used >= PlanLimit + d.data_refueling)
  BY DEF InStep, Derived
<1>3. d.line_status = "active" /\ d.bills["overdue"] \in {"none", "paid"}
  BY <1>1, BaseTasksAre DEF Ailing, LineSick
<1>4. Serves(d)
  <2>1. ~d.sim_missing /\ d.sim_status = "active" /\ ~d.airplane_mode
    BY <1>1, BaseTasksAre DEF Ailing, SimSick, AirSick
  <2>2. d.apn_name # "broken"
    BY BaseTasksAre DEF Ailing, ApnSick
  <2>3. d.line_active
    BY <1>2, <1>3
  <2> QED
    BY <2>1, <2>2, <2>3 DEF Serves
<1>5. d.status = "connected" /\ d.tech = Technology[d.mode] /\ d.mode = "prefer_5g"
  BY <1>4, BaseTasksAre DEF Ailing, Reached, ModeSick
<1>6. d.tech = "5G"
  BY <1>5 DEF Technology
<1>7. ~d.airplane_mode /\ d.data /\ ~d.saver /\ ~d.vpn /\ ~d.wifi_calling /\ d.mmsc
  BY BaseTasksAre DEF Ailing, AirSick, SpeedSick, WifiSick, ApnSick
<1>8. {"storage", "sms"} \subseteq d.permissions
  BY BaseTasksAre DEF Ailing, AppSick
<1>9. ~d.exceeded /\ ("data_usage_exceeded" \in S => d.data_refueling = 20)
  <2>1. \/ d.data_used = 151 /\ d.data_refueling = 20
        \/ "data_usage_exceeded" \notin S /\ d.data_used = 87 /\ d.data_refueling = 0
    BY <1>1, BaseTasksAre DEF Ailing, UsageSick
  <2>2. ~(d.data_used >= PlanLimit + d.data_refueling)
    BY <2>1 DEF PlanLimit
  <2> QED
    BY <1>2, <2>1, <2>2
<1>10. d.abroad => d.roaming /\ d.line_roaming
  BY BaseTasksAre DEF Ailing, RoamSick, Roaming
<1> QED
  BY <1>2, <1>3, <1>5, <1>6, <1>7, <1>8, <1>9, <1>10

LEMMA SelectedAre ==
  /\ UNION SelectionSets["service"] =
       {"airplane_mode_on", "unseat_sim_card", "lock_sim_card_pin", "break_apn_settings",
        "overdue_bill_suspension", "contract_end_suspension"}
  /\ UNION SelectionSets["mobile"] =
       {"airplane_mode_on", "data_mode_off", "data_saver_mode_on", "bad_network_preference", "bad_vpn"}
       \cup Roaming \cup Usage
  /\ UNION SelectionSets["mms"] =
       {"airplane_mode_on", "unseat_sim_card", "data_mode_off", "bad_network_preference", "bad_wifi_calling",
        "break_apn_mms_setting"} \cup Usage \cup Roaming \cup Permissions
BY DEF SelectionSets

\* An issue none of whose calls was made is seen by the manager whose it is.
LEMMA StillSick ==
  ASSUME NEW d, NEW S, NEW n, InStep("live", d), Ailing(d, S, n), Composed(S), NEW b \in S, b \in BaseTasks, n[b] = Len(Fixes(b))
  PROVE  /\ b \in UNION SelectionSets["service"] => ~ServiceFixed(d)
         /\ b \in UNION SelectionSets["mobile"] => ~InternetExcellent(d)
         /\ b \in UNION SelectionSets["mms"] => ~CanSendMms(d)
<1> DEFINE Seen == /\ b \in UNION SelectionSets["service"] => ~ServiceFixed(d)
                   /\ b \in UNION SelectionSets["mobile"] => ~InternetExcellent(d)
                   /\ b \in UNION SelectionSets["mms"] => ~CanSendMms(d)
<1>0. /\ d.line_active = (d.line_status = "active") /\ d.roaming_allowed = d.line_roaming
      /\ d.exceeded = (d.data_used >= PlanLimit + d.data_refueling)
  BY DEF InStep, Derived
<1>21. ~Serves(d) => Seen
  <2>1. ~Serves(d) => d.status # "connected" /\ d.tech = "none"
    BY DEF Ailing, Reached
  <2> QED
    BY <2>1 DEF ServiceFixed, InternetExcellent, CanSendMms, MobileDataWorking
<1>22. ASSUME ~MobileDataWorking(d), b \notin UNION SelectionSets["service"] PROVE Seen
  BY <1>22 DEF InternetExcellent, CanSendMms
<1>1. CASE b = "airplane_mode_on"
  <2>1. Fixes("airplane_mode_on") = <<User("toggle_airplane_mode", "")>>
    BY DEF Fixes, FixesService, ServiceIssues, MmsIssues, Permissions
  <2>2. n["airplane_mode_on"] = 1
    BY <1>1, <2>1, NextCall
  <2>4. ~Serves(d)
    BY <1>1, <2>2 DEF Ailing, AirSick, Serves
  <2> QED
    BY <1>21, <2>4
<1>2. CASE b = "bad_network_preference"
  <2>1. Fixes("bad_network_preference") = <<User("set_network_mode_preference", "prefer_5g")>>
    BY DEF Fixes, FixesMobile, ServiceIssues, MmsIssues, Permissions
  <2>2. n["bad_network_preference"] = 1
    BY <1>2, <2>1, NextCall
  <2>3. d.tech # "5G" /\ (d.tech = "2G" \/ d.tech = "none")
    BY <1>2, <2>2 DEF Ailing, Reached, ModeSick, Technology
  <2> QED
    BY <1>2, <2>3, SelectedAre DEF InternetExcellent, CanSendMms, MobileDataWorking, Roaming, Usage, Permissions
<1>3. CASE b = "bad_vpn"
  <2>1. Fixes("bad_vpn") = <<User("disconnect_vpn", "")>>
    BY DEF Fixes, FixesMobile, ServiceIssues, MmsIssues, Permissions
  <2>2. n["bad_vpn"] = 1
    BY <1>3, <2>1, NextCall
  <2>3. d.vpn /\ d.vpn_poor
    BY <1>3, <2>2 DEF Ailing, SpeedSick
  <2> QED
    BY <1>3, <2>3, SelectedAre DEF InternetExcellent, CanSendMms, MobileDataWorking, Roaming, Usage, Permissions
<1>4. CASE b = "bad_wifi_calling"
  <2>1. Fixes("bad_wifi_calling") = <<User("toggle_wifi_calling", "")>>
    BY DEF Fixes, FixesMms, ServiceIssues, MmsIssues, Permissions
  <2>2. n["bad_wifi_calling"] = 1
    BY <1>4, <2>1, NextCall
  <2>3. d.wifi_calling /\ d.mms_over_wifi
    BY <1>4, <2>2 DEF Ailing, WifiSick
  <2> QED
    BY <1>4, <2>3, SelectedAre DEF InternetExcellent, CanSendMms, MobileDataWorking, Roaming, Usage, Permissions
<1>5. CASE b = "break_apn_mms_setting"
  <2>1. Fixes("break_apn_mms_setting") = <<User("reset_apn_settings", ""), User("reboot_device", "")>>
    BY DEF Fixes, FixesMms, ServiceIssues, MmsIssues, Permissions
  <2>2. n["break_apn_mms_setting"] = 2
    BY <1>5, <2>1, NextCall
  <2>3. ~d.mmsc
    BY <1>5, <2>2 DEF Ailing, ApnSick
  <2> QED
    BY <1>5, <2>3, SelectedAre DEF InternetExcellent, CanSendMms, MobileDataWorking, Roaming, Usage, Permissions
<1>6. CASE b = "break_apn_settings"
  <2>1. Fixes("break_apn_settings") = <<User("reset_apn_settings", ""), User("reboot_device", "")>>
    BY DEF Fixes, FixesService, ServiceIssues, MmsIssues, Permissions
  <2>2. n["break_apn_settings"] = 2
    BY <1>6, <2>1, NextCall
  <2>4. ~Serves(d)
    BY <1>6, <2>2 DEF Ailing, ApnSick, Serves
  <2> QED
    BY <1>21, <2>4
<1>7. CASE b = "break_app_both_permissions"
  <2>1. Fixes("break_app_both_permissions") = <<User("grant_app_permission", "sms"), User("grant_app_permission", "storage")>>
    BY DEF Fixes, FixesMms, ServiceIssues, MmsIssues, Permissions
  <2>2. n["break_app_both_permissions"] = 2
    BY <1>7, <2>1, NextCall
  <2>3. "sms" \notin d.permissions
    BY <1>7, <2>2 DEF Ailing, AppSick
  <2> QED
    BY <1>7, <2>3, SelectedAre DEF InternetExcellent, CanSendMms, MobileDataWorking, Roaming, Usage, Permissions
<1>8. CASE b = "break_app_sms_permission"
  <2>1. Fixes("break_app_sms_permission") = <<User("grant_app_permission", "sms")>>
    BY DEF Fixes, FixesMms, ServiceIssues, MmsIssues, Permissions
  <2>2. n["break_app_sms_permission"] = 1
    BY <1>8, <2>1, NextCall
  <2>3. "sms" \notin d.permissions
    BY <1>8, <2>2 DEF Ailing, AppSick
  <2> QED
    BY <1>8, <2>3, SelectedAre DEF InternetExcellent, CanSendMms, MobileDataWorking, Roaming, Usage, Permissions
<1>9. CASE b = "break_app_storage_permission"
  <2>1. Fixes("break_app_storage_permission") = <<User("grant_app_permission", "storage")>>
    BY DEF Fixes, FixesMms, ServiceIssues, MmsIssues, Permissions
  <2>2. n["break_app_storage_permission"] = 1
    BY <1>9, <2>1, NextCall
  <2>3. "storage" \notin d.permissions
    BY <1>9, <2>2 DEF Ailing, AppSick
  <2> QED
    BY <1>9, <2>3, SelectedAre DEF InternetExcellent, CanSendMms, MobileDataWorking, Roaming, Usage, Permissions
<1>10. CASE b = "contract_end_suspension"
  <2>1. Fixes("contract_end_suspension") = <<>>
    BY DEF Fixes, FixesService, ServiceIssues, MmsIssues, Permissions
  <2>2. n["contract_end_suspension"] = 0
    BY <1>10, <2>1
  <2>3. d.line_status = "suspended"
    BY <1>10, <2>2 DEF Ailing, LineSick
  <2>4. ~Serves(d)
    BY <1>0, <2>3 DEF Serves
  <2> QED
    BY <1>21, <2>4
<1>11. CASE b = "data_mode_off"
  <2>1. Fixes("data_mode_off") = <<User("toggle_data", "")>>
    BY DEF Fixes, FixesMobile, ServiceIssues, MmsIssues, Permissions
  <2>2. n["data_mode_off"] = 1
    BY <1>11, <2>1, NextCall
  <2>3. ~d.data
    BY <1>11, <2>2 DEF Ailing, SpeedSick
  <2>4. ~MobileDataWorking(d)
    BY <1>0, <2>3 DEF MobileDataWorking
  <2> QED
    BY <1>11, <1>22, <2>4, SelectedAre DEF Roaming, Usage
<1>12. CASE b = "data_saver_mode_on"
  <2>1. Fixes("data_saver_mode_on") = <<User("toggle_data_saver_mode", "")>>
    BY DEF Fixes, FixesMobile, ServiceIssues, MmsIssues, Permissions
  <2>2. n["data_saver_mode_on"] = 1
    BY <1>12, <2>1, NextCall
  <2>3. d.saver
    BY <1>12, <2>2 DEF Ailing, SpeedSick
  <2> QED
    BY <1>12, <2>3, SelectedAre DEF InternetExcellent, CanSendMms, MobileDataWorking, Roaming, Usage, Permissions
<1>13. CASE b = "data_usage_exceeded"
  <2>1. Fixes("data_usage_exceeded") = <<Agent("refuel_data", "")>>
    BY DEF Fixes, FixesMobile, ServiceIssues, MmsIssues, Permissions
  <2>2. n["data_usage_exceeded"] = 1
    BY <1>13, <2>1, NextCall
  <2>3. d.data_used = 151 /\ d.data_refueling = 0
    BY <1>13, <2>2 DEF Ailing, UsageSick
  <2>4. ~MobileDataWorking(d)
    <3>1. d.data_used >= PlanLimit + d.data_refueling
      BY <2>3 DEF PlanLimit
    <3> QED
      BY <1>0, <3>1 DEF MobileDataWorking
  <2> QED
    BY <1>13, <1>22, <2>4, SelectedAre DEF Roaming, Usage
<1>14. CASE b = "data_usage_exceeded_no_refuel"
  <2>1. Fixes("data_usage_exceeded_no_refuel") = <<>>
    BY DEF Fixes, FixesMobile, ServiceIssues, MmsIssues, Permissions
  <2>2. n["data_usage_exceeded_no_refuel"] = 0
    BY <1>14, <2>1
  <2>3. d.data_used = 171 /\ d.data_refueling = 20
    <3>1. "data_usage_exceeded" \notin S
      BY <1>14, NoSibling DEF Usage
    <3> QED
      BY <1>14, <3>1 DEF Ailing, UsageSick
  <2>4. ~MobileDataWorking(d)
    <3>1. d.data_used >= PlanLimit + d.data_refueling
      BY <2>3 DEF PlanLimit
    <3> QED
      BY <1>0, <3>1 DEF MobileDataWorking
  <2> QED
    BY <1>14, <1>22, <2>4, SelectedAre DEF Roaming, Usage
<1>15. CASE b = "lock_sim_card_pin"
  <2>1. Fixes("lock_sim_card_pin") = <<>>
    BY DEF Fixes, FixesService, ServiceIssues, MmsIssues, Permissions
  <2>2. n["lock_sim_card_pin"] = 0
    BY <1>15, <2>1
  <2>4. ~Serves(d)
    BY <1>15, <2>2 DEF Ailing, SimSick, Serves
  <2> QED
    BY <1>21, <2>4
<1>16. CASE b = "overdue_bill_suspension"
  <2>1. Fixes("overdue_bill_suspension") = <<Agent("send_payment_request", "overdue"),
                                            User("make_payment", ""),
                                            Agent("resume_line", ""),
                                            User("reboot_device", "")>>
    BY DEF Fixes, FixesService, ServiceIssues, MmsIssues, Permissions
  <2>2. n["overdue_bill_suspension"] = 4
    BY <1>16, <2>1, NextCall
  <2>3. d.line_status = "suspended"
    BY <1>16, <2>2 DEF Ailing, LineSick
  <2>4. ~Serves(d)
    BY <1>0, <2>3 DEF Serves
  <2> QED
    BY <1>21, <2>4
<1>17. CASE b = "unseat_sim_card"
  <2>1. Fixes("unseat_sim_card") = <<User("reseat_sim_card", "")>>
    BY DEF Fixes, FixesService, ServiceIssues, MmsIssues, Permissions
  <2>2. n["unseat_sim_card"] = 1
    BY <1>17, <2>1, NextCall
  <2>4. ~Serves(d)
    BY <1>17, <2>2 DEF Ailing, SimSick, Serves
  <2> QED
    BY <1>21, <2>4
<1>18. CASE b = "user_abroad_roaming_disabled_off"
  <2>1. Fixes("user_abroad_roaming_disabled_off") = <<Agent("enable_roaming", ""), User("toggle_roaming", "")>>
    BY DEF Fixes, FixesMobile, ServiceIssues, MmsIssues, Permissions
  <2>2. n["user_abroad_roaming_disabled_off"] = 2
    BY <1>18, <2>1, NextCall
  <2>3. d.abroad /\ ~d.roaming
    BY <1>18, <2>2 DEF Ailing, RoamSick
  <2>4. ~MobileDataWorking(d)
    BY <1>0, <2>3 DEF MobileDataWorking
  <2> QED
    BY <1>18, <1>22, <2>4, SelectedAre DEF Roaming, Usage
<1>19. CASE b = "user_abroad_roaming_disabled_on"
  <2>1. Fixes("user_abroad_roaming_disabled_on") = <<Agent("enable_roaming", "")>>
    BY DEF Fixes, FixesMobile, ServiceIssues, MmsIssues, Permissions
  <2>2. n["user_abroad_roaming_disabled_on"] = 1
    BY <1>19, <2>1, NextCall
  <2>3. d.abroad /\ ~d.line_roaming
    BY <1>19, <2>2 DEF Ailing, RoamSick
  <2>4. ~MobileDataWorking(d)
    BY <1>0, <2>3 DEF MobileDataWorking
  <2> QED
    BY <1>19, <1>22, <2>4, SelectedAre DEF Roaming, Usage
<1>20. CASE b = "user_abroad_roaming_enabled_off"
  <2>1. Fixes("user_abroad_roaming_enabled_off") = <<User("toggle_roaming", "")>>
    BY DEF Fixes, FixesMobile, ServiceIssues, MmsIssues, Permissions
  <2>2. n["user_abroad_roaming_enabled_off"] = 1
    BY <1>20, <2>1, NextCall
  <2>3. d.abroad /\ ~d.roaming
    BY <1>20, <2>2 DEF Ailing, RoamSick
  <2>4. ~MobileDataWorking(d)
    BY <1>0, <2>3 DEF MobileDataWorking
  <2> QED
    BY <1>20, <1>22, <2>4, SelectedAre DEF Roaming, Usage
<1> QED
  BY BaseTasksAre, <1>1, <1>2, <1>3, <1>4, <1>5, <1>6, <1>7, <1>8, <1>9, <1>10, <1>11, <1>12, <1>13, <1>14, <1>15, <1>16, <1>17, <1>18, <1>19, <1>20

\* FixedByItsFixes, of Telecom: once every fix call has been made the task is
\* fixed, in whatever order agent and user made those of its issues, and it is
\* not while none of one issue's has been: no issue is mended by the calls that
\* mend the others.
THEOREM MendedByFixes == Spec => []FixedByItsFixes
<1>1. TelecomInv /\ IssueInv => FixedByItsFixes
  <2> SUFFICES ASSUME TelecomInv, IssueInv, detours = 0
               PROVE  /\ AllFixed => IsFixed(env["live"])
                      /\ (\E b \in issues : todo[b] = Fixes(b)) => ~IsFixed(env["live"])
    BY DEF FixedByItsFixes
  <2> DEFINE d == env["live"]
             n == CallsLeft
  <2>1. InStep("live", d) /\ Ailing(d, issues, n) /\ issues \subseteq BaseTasks /\ Composed(issues)
        /\ issues \subseteq UNION SelectionSets[manager] /\ manager \in {"service", "mobile", "mms"}
    BY TelecomAssumption DEF TelecomInv, IssueInv, Composed, OfManager
  <2>2. \A b \in BaseTasks : n[b] = IF b \notin issues THEN 0
                                    ELSE IF issues \cap Unfixable = {} THEN Len(todo[b]) ELSE Len(Fixes(b))
    BY DEF CallsLeft
  <2>3. ASSUME AllFixed PROVE IsFixed(d)
    <3>1. issues \cap Unfixable = {} /\ \A b \in issues : Len(todo[b]) = 0
      BY <2>3 DEF AllFixed
    <3>2. \A b \in BaseTasks : n[b] = 0
      BY <2>2, <3>1
    <3> HIDE DEF d, n
    <3>3. /\ d.status = "connected" /\ d.tech = "5G" /\ ~d.airplane_mode /\ d.data /\ ~d.saver /\ ~d.vpn
          /\ d.bills["overdue"] \in {"none", "paid"} /\ ~d.exceeded /\ ~d.wifi_calling /\ d.mmsc
          /\ {"storage", "sms"} \subseteq d.permissions
          /\ d.abroad => d.roaming /\ d.roaming_allowed
          /\ "data_usage_exceeded" \in issues => d.data_refueling = 20
      BY <2>1, <3>1, <3>2, WellAgain
    <3>4. ServiceFixed(d) /\ MobileDataWorking(d)
      BY <3>3 DEF ServiceFixed, MobileDataWorking
    <3>5. InternetExcellent(d) /\ CanSendMms(d)
      BY <3>3, <3>4 DEF InternetExcellent, CanSendMms
    <3> QED
      BY <2>1, <3>3, <3>4, <3>5 DEF IsFixed
  <2>4. ASSUME NEW b \in issues, todo[b] = Fixes(b) PROVE ~IsFixed(d)
    <3>1. n[b] = Len(Fixes(b)) /\ b \in BaseTasks /\ b \in UNION SelectionSets[manager]
      BY <2>1, <2>2, <2>4
    <3> HIDE DEF d, n
    <3>2. /\ b \in UNION SelectionSets["service"] => ~ServiceFixed(d)
          /\ b \in UNION SelectionSets["mobile"] => ~InternetExcellent(d)
          /\ b \in UNION SelectionSets["mms"] => ~CanSendMms(d)
      BY <2>1, <3>1, StillSick
    <3> QED
      BY <2>1, <3>1, <3>2 DEF IsFixed
  <2> QED
    BY <2>3, <2>4
<1> QED
  BY <1>1, TelecomCorrect, IssuesCorrect, PTL
-----------------------------------------------------------------------------
(* What the gold environment is never told, and who makes the calls.       *)

AgentsShare == {"overdue_bill_suspension", "data_usage_exceeded"}
LineOff == {"user_abroad_roaming_disabled_off", "user_abroad_roaming_disabled_on"}

\* Fix calls: those of RefCalls, and those for an overdue bill.
BillCalls == {Agent("send_payment_request", "overdue"), User("make_payment", ""), Agent("resume_line", "")}

\* The calls of a task's issues are calls of the reference,
LEMMA WhichCalls ==
  ASSUME NEW b, NEW i \in DOMAIN Fixes(b)
  PROVE  Fixes(b)[i] \in RefCalls \cup BillCalls
<1>1. CASE b = "overdue_bill_suspension"
  <2>1. Fixes(b) = <<Agent("send_payment_request", "overdue"), User("make_payment", ""),
                     Agent("resume_line", ""), User("reboot_device", "")>>
    BY <1>1 DEF Fixes, FixesService, ServiceIssues
  <2>2. User("reboot_device", "") \in RefCalls
    <3>1. "reboot_device" \in WriteTools.user \ {"make_payment"} /\ "" \in Arguments
      BY DEF WriteTools, Arguments
    <3> QED
      BY <3>1, UserCall
  <2> DEFINE S == RefCalls \cup BillCalls
  <2>3. /\ Agent("send_payment_request", "overdue") \in S /\ User("make_payment", "") \in S
        /\ Agent("resume_line", "") \in S /\ User("reboot_device", "") \in S
    BY <2>2 DEF BillCalls
  <2> HIDE DEF S
  <2>4. \A x, y, z, w \in S : <<x, y, z, w>> \in Seq(S)
    OBVIOUS
  <2>5. Fixes(b) \in Seq(S)
    BY <2>1, <2>3, <2>4
  <2>6. Fixes(b)[i] \in S
    BY <2>5
  <2> QED
    BY <2>6 DEF S
<1>2. CASE b # "overdue_bill_suspension"
  <2>1. Fixes(b) \in Seq(RefCalls)
    BY <1>2, ReferenceCalls
  <2> QED
    BY <2>1
<1> QED
  BY <1>1, <1>2

\* and the agent has a share in those of a few issues only.
UserCalls == {call \in Calls : call[1] = "user"}

LEMMA WhoMends ==
  ASSUME NEW b
  PROVE  /\ b \notin AgentsShare \cup LineOff => \A i \in DOMAIN Fixes(b) : Fixes(b)[i][1] = "user"
         /\ b \in AgentsShare \cup LineOff => \E i \in DOMAIN Fixes(b) : Fixes(b)[i][1] # "user"
<1>1. /\ <<>> \in Seq(UserCalls)
      /\ \A x \in UserCalls : <<x>> \in Seq(UserCalls)
      /\ \A x, y \in UserCalls : <<x, y>> \in Seq(UserCalls)
  OBVIOUS
<1>2. {"toggle_airplane_mode", "reset_apn_settings", "reboot_device", "reseat_sim_card",
       "set_network_mode_preference", "disconnect_vpn", "toggle_data", "toggle_data_saver_mode", "toggle_roaming",
       "toggle_wifi_calling", "grant_app_permission"} \subseteq WriteTools.user \ {"make_payment"}
  BY DEF WriteTools
<1>3. \A t \in {"toggle_airplane_mode", "reset_apn_settings", "reboot_device", "reseat_sim_card",
         "set_network_mode_preference", "disconnect_vpn", "toggle_data", "toggle_data_saver_mode", "toggle_roaming",
         "toggle_wifi_calling", "grant_app_permission"}, a \in Arguments : User(t, a) \in UserCalls
  <2>1. \A t, a : User(t, a) = <<"user", t, a>>
    BY DEF User
  <2>2. \A t, a : User(t, a)[1] = "user"
    BY <2>1
  <2> QED
    BY <1>2, <2>2, UserCall DEF RefCalls, UserCalls
<1>4. "" \in Arguments /\ "prefer_5g" \in Arguments /\ "sms" \in Arguments /\ "storage" \in Arguments
  BY DEF Arguments, Technology
<1>5. \A t, a : Agent(t, a)[1] # "user"
  <2>1. \A t, a : Agent(t, a) = <<"assistant", t, a>>
    BY DEF Agent
  <2> QED
    BY <2>1
<1>6. ASSUME b \notin AgentsShare \cup LineOff PROVE Fixes(b) \in Seq(UserCalls)
  <2>1. CASE b \in ServiceIssues
    BY <1>1, <1>3, <1>4, <1>6, <2>1 DEF Fixes, FixesService, AgentsShare
  <2>2. CASE b \in MmsIssues
    BY <1>1, <1>3, <1>4, <2>2 DEF Fixes, FixesMms, ServiceIssues, MmsIssues, Permissions
  <2>3. CASE b \notin ServiceIssues /\ b \notin MmsIssues
    <3>1. FixesMobile(b) \in Seq(UserCalls)
      BY <1>1, <1>3, <1>4, <1>6 DEF FixesMobile, AgentsShare, LineOff
    <3> QED
      BY <2>3, <3>1 DEF Fixes
  <2> QED
    BY <2>1, <2>2, <2>3
<1>7. ASSUME b \notin AgentsShare \cup LineOff, NEW i \in DOMAIN Fixes(b) PROVE Fixes(b)[i][1] = "user"
  <2>1. Fixes(b)[i] \in UserCalls
    BY <1>6, <1>7
  <2> QED
    BY <2>1 DEF UserCalls
<1> DEFINE none == ""
<1> HIDE DEF none
<1>8. ASSUME b \in AgentsShare \cup LineOff
      PROVE  /\ 1 \in DOMAIN Fixes(b)
             /\ Fixes(b)[1] \in {Agent("send_payment_request", "overdue"), Agent("refuel_data", none),
                                 Agent("enable_roaming", none)}
  <2>1. CASE b = "overdue_bill_suspension"
    <3>1. Fixes(b) = <<Agent("send_payment_request", "overdue"), User("make_payment", none),
                       Agent("resume_line", none), User("reboot_device", none)>>
      BY <2>1 DEF none, Fixes, FixesService, ServiceIssues
    <3> QED
      BY <3>1
  <2>2. CASE b = "data_usage_exceeded"
    <3>1. Fixes(b) = <<Agent("refuel_data", none)>>
      BY <2>2 DEF none, Fixes, FixesMobile, ServiceIssues, MmsIssues, Permissions
    <3> QED
      BY <3>1
  <2>3. CASE b = "user_abroad_roaming_disabled_off"
    <3>1. Fixes(b) = <<Agent("enable_roaming", none), User("toggle_roaming", none)>>
      BY <2>3 DEF none, Fixes, FixesMobile, ServiceIssues, MmsIssues, Permissions
    <3> QED
      BY <3>1
  <2>4. CASE b = "user_abroad_roaming_disabled_on"
    <3>1. Fixes(b) = <<Agent("enable_roaming", none)>>
      BY <2>4 DEF none, Fixes, FixesMobile, ServiceIssues, MmsIssues, Permissions
    <3> QED
      BY <3>1
  <2> QED
    BY <1>8, <2>1, <2>2, <2>3, <2>4 DEF AgentsShare, LineOff
<1> QED
  BY <1>5, <1>7, <1>8

\* Only a line without roaming has roaming enabled.
LEMMA RoamingEnabled ==
  ASSUME NEW b, NEW i \in DOMAIN Fixes(b), Fixes(b)[i][2] = "enable_roaming"
  PROVE  b \in LineOff
<1> DEFINE none == ""
<1> HIDE DEF none
<1>0. \A t, a : Agent(t, a)[2] = t /\ User(t, a)[2] = t
  <2>1. \A t, a : Agent(t, a) = <<"assistant", t, a>> /\ User(t, a) = <<"user", t, a>>
    BY DEF Agent, User
  <2> QED
    BY <2>1
<1>1. Fixes(b)[i][1] # "user"
  <2>1. Fixes(b)[i] \in RefCalls \cup BillCalls
    BY WhichCalls
  <2>2. Fixes(b)[i] \notin BillCalls
    <3>1. \A call \in BillCalls : call[2] # "enable_roaming"
      <4>1. BillCalls = {Agent("send_payment_request", "overdue"), User("make_payment", none), Agent("resume_line", none)}
        BY DEF BillCalls, none
      <4> QED
        BY <1>0, <4>1
    <3> QED
      BY <3>1
  <2>3. Known(Fixes(b)[i])
    BY <2>1, <2>2 DEF RefCalls
  <2> QED
    BY <2>3 DEF Known, WriteTools, OtherTools
<1>2. b \in AgentsShare \cup LineOff
  BY <1>1, WhoMends
<1>3. b # "data_usage_exceeded"
  <2> SUFFICES ASSUME b = "data_usage_exceeded" PROVE FALSE
    OBVIOUS
  <2>1. Fixes(b) = <<Agent("refuel_data", none)>>
    BY DEF none, Fixes, FixesMobile, ServiceIssues, MmsIssues, Permissions
  <2>2. i = 1 /\ Fixes(b)[1] = Agent("refuel_data", none)
    BY <2>1
  <2>3. Agent("refuel_data", none)[2] = "refuel_data"
    BY <1>0
  <2> QED
    BY <2>2, <2>3
<1>4. b # "overdue_bill_suspension"
  <2> SUFFICES ASSUME b = "overdue_bill_suspension" PROVE FALSE
    OBVIOUS
  <2>1. Fixes(b) = <<Agent("send_payment_request", "overdue"), User("make_payment", none),
                     Agent("resume_line", none), User("reboot_device", none)>>
    BY DEF none, Fixes, FixesService, ServiceIssues
  <2>2. Fixes(b)[i] \in {Agent("send_payment_request", "overdue"), User("make_payment", none),
                         Agent("resume_line", none), User("reboot_device", none)}
    BY <2>1
  <2> QED
    BY <1>0, <2>2
<1> QED
  BY <1>2, <1>3, <1>4 DEF AgentsShare

\* No drawn id has been used, and the overdue bill has none.
Unused(d) == ~Used(d) /\ d.drawn["overdue"] = "seed"

LEMMA SyncUses ==
  ASSUME NEW y, Account("live", y), Open(y), Unused(y)
  PROVE  Unused(SyncTools(y))
<1>1. Shaped(y) /\ y.request \in [bill : BillIds \cup {"none"}, paid : BOOLEAN] /\ y.bills \in [BillIds -> BillStatuses]
  BY DEF Account
<1>2. SyncTools(y).drawn = y.drawn
  BY Synced, AccountFieldsAre DEF Touches
<1>3. ASSUME y.request.paid PROVE y.request.bill \in BillIds /\ y.bills[y.request.bill] = "awaiting"
  <2>1. y.request.bill # "none"
    BY <1>3 DEF Open
  <2>2. AwaitingBills(y) = {y.request.bill}
    BY <2>1 DEF Open
  <2> QED
    BY <1>1, <2>1, <2>2 DEF AwaitingBills
<1>4. CASE ~y.request.paid
  <2>1. SyncTools(y).bills = y.bills
    BY <1>1, <1>4, SyncedBills
  <2> QED
    BY <1>2, <2>1 DEF Unused, Used
<1>5. CASE y.request.paid
  <2>1. SyncTools(y).bills = [y.bills EXCEPT ![y.request.bill] = "paid"]
    BY <1>1, <1>5, SyncedBills
  <2>2. y.drawn[y.request.bill] = "seed"
    BY <1>3, <1>5 DEF Unused, Used
  <2>3. \A b \in BillIds : b # y.request.bill => SyncTools(y).bills[b] = y.bills[b]
    BY <1>1, <2>1
  <2> QED
    BY <1>2, <2>2, <2>3 DEF Unused, Used
<1> QED
  BY <1>1, <1>4, <1>5

\* A fix call uses no drawn id.
LEMMA CallUses ==
  ASSUME NEW d, InStep("live", d), Unused(d), NEW call \in RefCalls \cup BillCalls,
         call[2] = "refuel_data" => RoomForBill(d)
  PROVE  Unused(MakeToolCall("live", call, d).db)
<1>1. Shaped(d) /\ Account("live", d) /\ d.bills \in [BillIds -> BillStatuses] /\ DOMAIN d = Fields
  BY DEF InStep, Account, Shaped
<1>2. ASSUME NEW x, x.bills = d.bills, x.drawn = d.drawn PROVE Unused(x)
  BY <1>2 DEF Unused, Used
<1>3. CASE call \in RefCalls /\ call[2] \in WriteTools.user \ {"make_payment"}
  <2>1. {} \in SUBSET Unseen /\ Alike({}, d, d) /\ call \in Calls /\ Known(call)
    BY <1>1, <1>3 DEF Alike, RefCalls
  <2>2. PICK x, y : Moves({}, d, d, x, y) /\ MakeToolCall("live", call, d) = Done(x)
    BY <1>3, <2>1, PhoneTools
  <2>3. x.bills = d.bills /\ x.drawn = d.drawn
    BY <2>2 DEF Moves, AccountFields
  <2> QED
    BY <1>2, <2>2, <2>3 DEF Done
<1>4. CASE call \in RefCalls /\ call[2] = "enable_roaming"
  <2>1. Known(call)
    BY <1>4 DEF RefCalls
  <2>2. MakeToolCall("live", call, d) = Done([d EXCEPT !.line_roaming = TRUE])
    BY <1>4, <2>1 DEF MakeToolCall, Known, SetLineRoaming
  <2> QED
    BY <1>1, <1>2, <2>2, AccountFieldsAre DEF Done
<1>5. CASE call \in RefCalls /\ call[2] = "refuel_data"
  <2>1. Known(call)
    BY <1>5 DEF RefCalls
  <2> DEFINE r == RefuelData("live", d)
  <2>2. MakeToolCall("live", call, d) = r
    BY <1>5, <2>1 DEF MakeToolCall, Known
  <2> HIDE DEF r
  <2>3. DraftMade(d, r.db)
    <3>1. PICK e : Twin({"drawn"}, "replay", d, e)
      BY <1>1, HasTwin
    <3> DEFINE unlike == {"drawn"}
    <3>2. unlike \in SUBSET Unseen /\ "drawn" \in unlike /\ Twin(unlike, "replay", d, e)
      BY <3>1 DEF Unseen
    <3> HIDE DEF unlike
    <3>3. RoomForBill(d) /\ "live" # "seed" /\ "replay" # "seed"
      BY <1>5
    <3> QED
      BY <3>2, <3>3, Refuels DEF r
  <2>4. \A b \in BillIds : r.db.drawn[b] # "seed" => r.db.bills[b] = "draft"
    BY <2>3 DEF DraftMade, Unused, Used
  <2>5. r.db.drawn["overdue"] = "seed"
    BY <2>3 DEF DraftMade, Unused, BillIds
  <2> QED
    BY <2>2, <2>4, <2>5 DEF Unused, Used
<1>6. CASE call = Agent("send_payment_request", "overdue")
  <2>1. MakeToolCall("live", call, d) = SendPaymentRequest(d, "overdue")
    BY <1>6 DEF MakeToolCall, Agent, WriteTools, OtherTools
  <2>2. CASE MakeToolCall("live", call, d) = Raised(d)
    BY <1>2, <2>2 DEF Raised
  <2>3. CASE MakeToolCall("live", call, d) = Done([d EXCEPT !.bills["overdue"] = "awaiting"])
    <3> DEFINE x == [d EXCEPT !.bills["overdue"] = "awaiting"]
    <3>1. x.drawn = d.drawn /\ x.bills = [d.bills EXCEPT !["overdue"] = "awaiting"]
      BY <1>1, AccountFieldsAre
    <3>2. \A b \in BillIds : b # "overdue" => x.bills[b] = d.bills[b]
      BY <1>1, <3>1
    <3> HIDE DEF x
    <3>3. Unused(x)
      BY <3>1, <3>2 DEF Unused, Used
    <3> QED
      BY <2>3, <3>3 DEF x, Done
  <2> QED
    BY <2>1, <2>2, <2>3 DEF SendPaymentRequest
<1>7. CASE call = User("make_payment", "")
  <2>1. MakeToolCall("live", call, d) = Done(MakePayment(d))
    BY <1>7 DEF MakeToolCall, User, WriteTools, OtherTools
  <2>2. MakePayment(d).bills = d.bills /\ MakePayment(d).drawn = d.drawn
    BY <1>1, AccountFieldsAre DEF MakePayment
  <2> QED
    BY <1>2, <2>1, <2>2 DEF Done
<1>8. CASE call = Agent("resume_line", "")
  <2>1. MakeToolCall("live", call, d) = ResumeLine(d)
    BY <1>8 DEF MakeToolCall, Agent, WriteTools, OtherTools
  <2>2. ResumeLine(d).db.bills = d.bills /\ ResumeLine(d).db.drawn = d.drawn
    BY <1>1, AccountFieldsAre DEF ResumeLine, Done, Raised
  <2> QED
    BY <1>2, <2>1, <2>2
<1> QED
  BY <1>3, <1>4, <1>5, <1>6, <1>7, <1>8 DEF RefCalls, BillCalls

\* What only sync_tools tells the phone.
ToldByLine == {"line_active", "roaming_allowed", "exceeded"}

LEMMA GoldHears ==
  ASSUME NEW e, Shaped(e), NEW call \in RefCalls \cup BillCalls, NEW x, x = MakeToolCall("gold", call, e).db
  PROVE  /\ Shaped(x) /\ \A f \in ToldByLine : x[f] = e[f]
         /\ call[2] # "enable_roaming" => x.line_roaming = e.line_roaming
<1>1. DOMAIN e = Fields /\ ToldByLine \subseteq AccountFields /\ ToldByLine \subseteq Fields
  BY AccountFieldsAre DEF Shaped, ToldByLine, AccountFields
<1>2. ASSUME NEW f \in Fields, NEW v, f \notin ToldByLine, f # "line_roaming"
      PROVE  /\ Shaped(Put(e, f, v)) /\ \A g \in ToldByLine : Put(e, f, v)[g] = e[g]
             /\ Put(e, f, v).line_roaming = e.line_roaming
  <2>1. "line_roaming" \in Fields
    BY AccountFieldsAre
  <2> QED
    BY <1>1, <1>2, <2>1, FieldSet DEF Put
<1>3. CASE call \in RefCalls /\ call[2] \in WriteTools.user \ {"make_payment"}
  <2>1. {} \in SUBSET Unseen /\ Alike({}, e, e) /\ call \in Calls /\ Known(call)
    BY <1>3 DEF Alike, RefCalls
  <2>2. PICK y, z : Moves({}, e, e, y, z) /\ MakeToolCall("gold", call, e) = Done(y)
    BY <1>3, <2>1, PhoneTools
  <2>3. x = y
    BY <2>2 DEF Done
  <2>4. Shaped(x) /\ \A f \in AccountFields : x[f] = e[f]
    BY <2>2, <2>3 DEF Moves, Alike
  <2>5. "line_roaming" \in AccountFields
    BY DEF AccountFields
  <2> QED
    BY <1>1, <2>4, <2>5
<1>4. CASE call \in RefCalls /\ call[2] = "enable_roaming"
  <2>1. Known(call)
    BY <1>4 DEF RefCalls
  <2>2. MakeToolCall("gold", call, e) = Done([e EXCEPT !.line_roaming = TRUE])
    BY <1>4, <2>1 DEF MakeToolCall, Known, SetLineRoaming
  <2>3. x = [e EXCEPT !["line_roaming"] = TRUE]
    <3> DEFINE y == [e EXCEPT !.line_roaming = TRUE]
    <3> HIDE DEF y
    <3>1. MakeToolCall("gold", call, e) = Done(y)
      BY <2>2 DEF y
    <3>2. x = y
      BY <3>1 DEF Done
    <3> QED
      BY <3>2 DEF y
  <2>4. "line_roaming" \in Fields /\ "line_roaming" \notin ToldByLine
    BY AccountFieldsAre DEF ToldByLine
  <2> QED
    BY <1>1, <1>4, <2>3, <2>4, FieldSet
<1>5. CASE call \in RefCalls /\ call[2] = "refuel_data"
  <2>1. Known(call)
    BY <1>5 DEF RefCalls
  <2>2. x = RefuelData("gold", e).db
    BY <1>5, <2>1 DEF MakeToolCall, Known
  <2>3. DOMAIN x = Fields /\ x.line_roaming = e.line_roaming /\ x.line_active = e.line_active
        /\ x.roaming_allowed = e.roaming_allowed /\ x.exceeded = e.exceeded /\ x = [f \in Fields |-> x[f]]
    BY <1>1, <2>2, AccountFieldsAre DEF RefuelData, Done
  <2> QED
    BY <2>3 DEF Shaped, ToldByLine
<1>6. CASE call = Agent("send_payment_request", "overdue")
  <2>1. MakeToolCall("gold", call, e) = SendPaymentRequest(e, "overdue")
    BY <1>6 DEF MakeToolCall, Agent, WriteTools, OtherTools
  <2>2. x = e \/ x = [e EXCEPT !.bills["overdue"] = "awaiting"]
    BY <2>1 DEF SendPaymentRequest, Done, Raised
  <2>3. x = e \/ x = [e EXCEPT !["bills"] = [e.bills EXCEPT !["overdue"] = "awaiting"]]
    BY <2>2
  <2>4. "bills" \in Fields /\ "bills" \notin ToldByLine
    BY AccountFieldsAre DEF ToldByLine
  <2> DEFINE v == [e.bills EXCEPT !["overdue"] = "awaiting"]
  <2>5. "bills" # "line_roaming" /\ (x = e \/ x = Put(e, "bills", v))
    BY <2>3 DEF Put
  <2> HIDE DEF v
  <2> QED
    BY <1>2, <2>4, <2>5
<1>7. CASE call = User("make_payment", "")
  <2>1. MakeToolCall("gold", call, e) = Done(MakePayment(e))
    BY <1>7 DEF MakeToolCall, User, WriteTools, OtherTools
  <2> DEFINE v == [e.request EXCEPT !.paid = TRUE]
  <2>2. x = MakePayment(e)
    BY <2>1 DEF Done
  <2>3. MakePayment(e) = e \/ MakePayment(e) = Put(e, "request", v)
    BY DEF MakePayment, Put
  <2>4. "request" \in Fields /\ "request" \notin ToldByLine /\ "request" # "line_roaming"
    BY AccountFieldsAre DEF ToldByLine
  <2> HIDE DEF v
  <2> QED
    BY <1>2, <2>2, <2>3, <2>4
<1>8. CASE call = Agent("resume_line", "")
  <2>1. MakeToolCall("gold", call, e) = ResumeLine(e)
    BY <1>8 DEF MakeToolCall, Agent, WriteTools, OtherTools
  <2>2. x = e \/ x = [e EXCEPT !["line_status"] = "active"]
    BY <2>1 DEF ResumeLine, Done, Raised
  <2>3. "line_status" \in Fields /\ "line_status" \notin ToldByLine /\ "line_status" # "line_roaming"
    BY AccountFieldsAre DEF ToldByLine
  <2> DEFINE v == "active"
  <2>4. x = e \/ x = Put(e, "line_status", v)
    BY <2>2 DEF Put
  <2> HIDE DEF v
  <2> QED
    BY <1>2, <2>3, <2>4
<1> QED
  BY <1>3, <1>4, <1>5, <1>6, <1>7, <1>8 DEF RefCalls, BillCalls

\* The calls still to be made for an issue are calls of its own.
CallsOf(b) == {Fixes(b)[i] : i \in DOMAIN Fixes(b)}
\* The gold phone has been told what the broken line meant for it, and no more.
Untold ==
  LET e == env["gold"] IN
  "gold" \in Copies =>
    /\ Shaped(e)
    /\ e.exceeded = (issues \cap Usage # {})
    /\ e.line_active = (issues \cap Suspensions = {})
    /\ e.roaming_allowed = IF issues \cap LineOff = {} THEN e.line_roaming ELSE FALSE
TargetInv ==
  /\ \A b \in issues : todo[b] \in Seq(CallsOf(b))
  /\ detours = 0 => Untold /\ Unused(env["live"])

LEMMA TargetStart == TelecomInit => TargetInv
<1> SUFFICES ASSUME TelecomInit PROVE TargetInv
  OBVIOUS
<1>1. PICK roams \in BOOLEAN : env = [c \in Copies |-> Broken(c, issues, roams)]
  BY DEF TelecomInit
<1> DEFINE d == Broken("live", issues, roams)
           e == Broken("gold", issues, roams)
           n == AllCalls(issues)
<1>2. env["live"] = d /\ ("gold" \in Copies => env["gold"] = e)
  BY <1>1, TelecomAssumption
<1>3. Starts("live", "gold", d, e)
  BY BrokenStarts
<1>4. Composed(issues)
  BY TelecomAssumption, TasksAreComposed DEF TelecomInit
<1>5. Ailing(d, issues, n)
  BY <1>4, BrokenAils
<1>6. ASSUME NEW b \in issues PROVE todo[b] \in Seq(CallsOf(b))
  <2>1. todo[b] = Fixes(b) \/ todo[b] = <<>>
    BY DEF TelecomInit, Reference
  <2>2. Fixes(b) \in Seq(Calls)
    BY ReferenceCalls
  <2>3. Fixes(b) \in Seq(CallsOf(b))
    BY <2>2 DEF CallsOf
  <2>4. <<>> \in Seq(CallsOf(b))
    OBVIOUS
  <2> QED
    BY <2>1, <2>3, <2>4
<1>7. \A b \in BaseTasks : n[b] = IF b \in issues THEN Len(Fixes(b)) ELSE 0
  BY DEF AllCalls
<1>8. /\ Len(Fixes("data_usage_exceeded")) = 1 /\ Len(Fixes("overdue_bill_suspension")) = 4
      /\ Len(Fixes("user_abroad_roaming_disabled_off")) = 2 /\ Len(Fixes("user_abroad_roaming_disabled_on")) = 1
  BY DEF Fixes, FixesService, FixesMobile, ServiceIssues, MmsIssues, Permissions
<1> HIDE DEF d, e, n
<1>9. InStep("live", d) /\ Untroubled(d) /\ Twin({"drawn"}, "gold", d, e)
  BY <1>3 DEF Starts
<1>10. Unused(d)
  <2>1. ~Used(d)
    BY <1>9, UntroubledIs DEF InStep
  <2>2. d.drawn["overdue"] = "seed"
    BY <1>9 DEF Untroubled, BillIds
  <2> QED
    BY <2>1, <2>2 DEF Unused
<1>11. Shaped(e) /\ e.exceeded = d.exceeded /\ e.line_active = d.line_active
       /\ e.roaming_allowed = d.roaming_allowed /\ e.line_roaming = d.line_roaming
  BY <1>9, AccountFieldsAre DEF Twin, Alike
<1>12. /\ d.line_active = (d.line_status = "active") /\ d.roaming_allowed = d.line_roaming
       /\ d.exceeded = (d.data_used >= PlanLimit + d.data_refueling)
  BY <1>9 DEF InStep, Derived
<1>13. d.exceeded = (issues \cap Usage # {})
  <2>1. issues \cap Usage # {} <=> "data_usage_exceeded" \in issues \/ "data_usage_exceeded_no_refuel" \in issues
    BY DEF Usage
  <2>2. "data_usage_exceeded" \in issues => n["data_usage_exceeded"] = 1
    BY <1>7, <1>8, BaseTasksAre
  <2>3. UsageSick(d, issues, n)
    BY <1>5 DEF Ailing
  <2>4. CASE "data_usage_exceeded" \in issues
    BY <1>12, <2>1, <2>2, <2>3, <2>4 DEF UsageSick, PlanLimit
  <2>5. CASE "data_usage_exceeded" \notin issues
    BY <1>12, <2>1, <2>3, <2>5 DEF UsageSick, PlanLimit
  <2> QED
    BY <2>4, <2>5
<1>14. d.line_active = (issues \cap Suspensions = {})
  <2>1. issues \cap Suspensions = {} <=> "overdue_bill_suspension" \notin issues /\ "contract_end_suspension" \notin issues
    BY DEF Suspensions
  <2>2. n["overdue_bill_suspension"] > 1 <=> "overdue_bill_suspension" \in issues
    <3>1. n["overdue_bill_suspension"] = IF "overdue_bill_suspension" \in issues THEN 4 ELSE 0
      BY <1>7, <1>8, BaseTasksAre
    <3> QED
      BY <3>1
  <2>3. /\ d.line_status \in {"active", "suspended"}
        /\ d.line_status = "suspended" <=> n["overdue_bill_suspension"] > 1 \/ "contract_end_suspension" \in issues
    BY <1>5 DEF Ailing, LineSick
  <2> QED
    BY <1>12, <2>1, <2>2, <2>3
<1>15. issues \cap LineOff # {} => d.line_roaming = FALSE
  <2>1. RoamSick(d, issues, n)
    BY <1>5 DEF Ailing
  <2>2. "user_abroad_roaming_disabled_off" \in issues => n["user_abroad_roaming_disabled_off"] = 2
    BY <1>7, <1>8, BaseTasksAre
  <2>3. "user_abroad_roaming_disabled_on" \in issues => n["user_abroad_roaming_disabled_on"] = 1
    BY <1>7, <1>8, BaseTasksAre
  <2>4. issues \cap LineOff # {} => ~d.line_roaming
    BY <2>1, <2>2, <2>3 DEF RoamSick, LineOff
  <2> QED
    BY <2>4
<1>16. Untold
  BY <1>2, <1>11, <1>12, <1>13, <1>14, <1>15 DEF Untold
<1> QED
  BY <1>2, <1>6, <1>10, <1>16 DEF TargetInv

LEMMA TargetKept == TelecomInv /\ TargetInv /\ [TelecomNext]_telecomVars => TargetInv'
<1>1. ASSUME TargetInv, UNCHANGED telecomVars PROVE TargetInv'
  BY <1>1 DEF telecomVars, TargetInv, Untold
<1>2. ASSUME TelecomInv, TargetInv, Detour PROVE TargetInv'
  <2>1. detours' # 0 /\ issues' = issues /\ todo' = todo
    BY <1>2 DEF Detour, Perform, TelecomInv, TelecomTypes
  <2> QED
    BY <1>2, <2>1 DEF TargetInv
<1>3. ASSUME TelecomInv, TargetInv, NEW b \in issues, FixCall(b) PROVE TargetInv'
  <2> DEFINE call == Head(todo[b])
             d == env["live"]
             e == env["gold"]
             r == MakeToolCall("live", call, d)
  <2>1. /\ todo[b] # <<>> /\ Perform(call, TRUE) /\ todo' = [todo EXCEPT ![b] = Tail(@)]
        /\ issues' = issues /\ detours' = detours
    BY <1>3 DEF FixCall, Perform
  <2>2. DOMAIN todo = issues /\ \A i \in issues : todo[i] \in Seq(CallsOf(i))
    BY <1>3 DEF TelecomInv, TelecomTypes, TargetInv
  <2>3. call \in CallsOf(b) /\ Tail(todo[b]) \in Seq(CallsOf(b))
    BY <2>1, <2>2, HeadTailProperties
  <2>4. \A i \in issues : todo'[i] \in Seq(CallsOf(i))
    BY <2>1, <2>2, <2>3
  <2>5. /\ "live" \in Copies /\ env'["live"] = GetResponse("live", call, d).db
        /\ "gold" \in Copies => env'["gold"] = MakeToolCall("gold", call, e).db
        /\ call[2] = "refuel_data" => RoomForBill(d)
    BY <2>1, TelecomAssumption DEF Perform, Made
  <2> HIDE DEF call
  <2>6. call \in RefCalls \cup BillCalls /\ (call[2] = "enable_roaming" => b \in LineOff)
    BY <2>3, WhichCalls, RoamingEnabled DEF CallsOf
  <2>7. InStep("live", d)
    BY <1>3 DEF TelecomInv
  <2>8. ASSUME detours = 0 PROVE Unused(env'["live"])
    <3>1. Unused(r.db)
      BY <1>3, <2>5, <2>6, <2>7, <2>8, CallUses DEF TargetInv
    <3>2. Account("live", r.db) /\ Open(r.db)
      <4>1. PICK x : Twin({"drawn"}, "replay", d, x)
        BY <2>7, HasTwin DEF InStep
      <4>2. call \in Calls
        BY <2>3, ReferenceCalls DEF CallsOf
      <4> DEFINE unlike == {"drawn"}
      <4>3. unlike \in SUBSET Unseen /\ "drawn" \in unlike /\ Twin(unlike, "replay", d, x) /\ "replay" \notin {"live", "seed"}
        BY <4>1 DEF Unseen
      <4> HIDE DEF unlike, d
      <4>4. Sound("live", d, MakeToolCall("live", call, d))
        BY <2>5, <2>7, <4>2, <4>3, CallAnswered
      <4> QED
        BY <4>4 DEF Sound
    <3>3. Unused(SyncTools(r.db))
      <4> HIDE DEF r
      <4> QED
        BY <3>1, <3>2, SyncUses
    <3>4. env'["live"] \in {r.db, SyncTools(r.db)}
      BY <2>5 DEF GetResponse, Done
    <3> QED
      BY <3>1, <3>3, <3>4
  <2>9. ASSUME detours = 0 PROVE Untold'
    <3> SUFFICES ASSUME "gold" \in Copies
                 PROVE  LET x == env'["gold"] IN
                        /\ Shaped(x)
                        /\ x.exceeded = (issues \cap Usage # {})
                        /\ x.line_active = (issues \cap Suspensions = {})
                        /\ x.roaming_allowed = IF issues \cap LineOff = {} THEN x.line_roaming ELSE FALSE
      BY <2>1 DEF Untold
    <3> DEFINE x == env'["gold"]
    <3>1. /\ Shaped(e)
          /\ e.exceeded = (issues \cap Usage # {})
          /\ e.line_active = (issues \cap Suspensions = {})
          /\ e.roaming_allowed = IF issues \cap LineOff = {} THEN e.line_roaming ELSE FALSE
      BY <1>3, <2>9 DEF TargetInv, Untold
    <3>2. x = MakeToolCall("gold", call, e).db
      BY <2>5
    <3> HIDE DEF x, e
    <3>3. /\ Shaped(x) /\ \A f \in ToldByLine : x[f] = e[f]
          /\ call[2] # "enable_roaming" => x.line_roaming = e.line_roaming
      BY <2>6, <3>1, <3>2, GoldHears
    <3>4. x.exceeded = e.exceeded /\ x.line_active = e.line_active /\ x.roaming_allowed = e.roaming_allowed
      BY <3>3 DEF ToldByLine
    <3>5. issues \cap LineOff = {} => x.line_roaming = e.line_roaming
      BY <2>6, <3>3
    <3> QED
      BY <3>1, <3>3, <3>4, <3>5 DEF x
  <2> QED
    BY <2>1, <2>4, <2>8, <2>9 DEF TargetInv
<1> QED
  BY <1>1, <1>2, <1>3 DEF TelecomNext

LEMMA TargetCorrect == Spec => []TargetInv
<1>1. Init => TargetInv
  BY TargetStart DEF Init
<1>2. [Next]_domainsVars => [TelecomNext]_telecomVars
  BY DEF Next, domainsVars, TelecomStep, BankingPlayed, RetailPlayed, AirlinePlayed
<1> QED
  BY <1>1, <1>2, TargetKept, TelecomCorrect, PTL DEF Spec

\* What environments that are equal up to ids have in common.
LEMMA UpToIdsTells ==
  ASSUME NEW d, NEW e, Shaped(d), Shaped(e), UpToIds(d) = UpToIds(e), NEW f \in Fields \ {"drawn"}
  PROVE  d[f] = e[f]
<1>1. DOMAIN d = Fields /\ DOMAIN e = Fields
  BY DEF Shaped
<1>2. UpToIds(d)[f] = d[f] /\ UpToIds(e)[f] = e[f]
  BY <1>1 DEF UpToIds
<1> QED
  BY <1>2

\* TargetReachedByUser, of Telecom: after its own reference trajectory, and no
\* other call, a task is at the target the evaluator derives from that very
\* reference exactly when none of its calls is the agent's.
THEOREM TargetReached ==
  ASSUME {"replay", "gold"} \subseteq Copies
  PROVE  Spec => []TargetReachedByUser
<1>1. TelecomInv /\ IssueInv /\ TargetInv => TargetReachedByUser
  <2> SUFFICES ASSUME TelecomInv, IssueInv, TargetInv, AllFixed, detours = 0
               PROVE  DbMatch <=> UserMendsAll
    BY DEF TargetReachedByUser
  <2> DEFINE d == env["live"]
             e == env["gold"]
             n == CallsLeft
  <2>1. InStep("live", d) /\ Account("live", d) /\ Shaped(d) /\ Ailing(d, issues, n) /\ issues \subseteq BaseTasks
    BY DEF TelecomInv, InStep, Account, IssueInv, Composed
  <2>2. /\ Shaped(e)
        /\ e.exceeded = (issues \cap Usage # {})
        /\ e.line_active = (issues \cap Suspensions = {})
        /\ e.roaming_allowed = IF issues \cap LineOff = {} THEN e.line_roaming ELSE FALSE
    BY DEF TargetInv, Untold
  <2>3. DbMatch <=> UpToIds(d) = UpToIds(e)
    BY RebuiltUpToIds DEF DbMatch, TargetInv, Unused
  <2>4. issues \cap Unfixable = {} /\ \A b \in issues : Len(todo[b]) = 0
    BY DEF AllFixed
  <2>5. \A b \in BaseTasks : n[b] = 0
    BY <2>4 DEF CallsLeft
  <2>6. UserMendsAll <=> issues \cap (AgentsShare \cup LineOff) = {}
    BY WhoMends DEF UserMendsAll
  <2>7. "overdue_bill_suspension" \notin issues => Twin(Unseen, "gold", d, e)
    BY DEF TelecomInv, OnReference
  <2> HIDE DEF d, e, n
  <2>8. d.status = "connected" /\ ~d.exceeded /\ (d.abroad => d.roaming_allowed)
    BY <2>1, <2>4, <2>5, WellAgain
  <2>9. d.line_active
    BY <2>1, <2>8 DEF Ailing, Reached, Serves
  <2>10. issues \cap LineOff # {} => d.roaming_allowed
    <3>1. issues \cap LineOff # {} => d.abroad
      BY <2>1 DEF Ailing, RoamSick, LineOff
    <3> QED
      BY <2>8, <3>1
  <2>11. d.roaming_allowed = d.line_roaming /\ d.exceeded = (d.data_used >= PlanLimit + d.data_refueling)
    BY <2>1 DEF InStep, Derived
  <2>12. ASSUME UpToIds(d) = UpToIds(e) PROVE issues \cap (AgentsShare \cup LineOff) = {}
    <3>1. \A f \in Fields \ {"drawn"} : d[f] = e[f]
      BY <2>1, <2>2, <2>12, UpToIdsTells
    <3>2. d.exceeded = e.exceeded /\ d.line_active = e.line_active /\ d.roaming_allowed = e.roaming_allowed
      BY <3>1, AccountFieldsAre
    <3>3. issues \cap Usage = {} /\ issues \cap Suspensions = {} /\ issues \cap LineOff = {}
      BY <2>2, <2>8, <2>9, <2>10, <3>2
    <3> QED
      BY <3>3 DEF AgentsShare, Usage, Suspensions
  <2>13. ASSUME issues \cap (AgentsShare \cup LineOff) = {} PROVE UpToIds(d) = UpToIds(e)
    <3>1. "overdue_bill_suspension" \notin issues /\ "data_usage_exceeded" \notin issues /\ issues \cap LineOff = {}
      BY <2>13 DEF AgentsShare
    <3>2. Twin(Unseen, "gold", d, e)
      BY <2>7, <3>1
    <3>3. d.exceeded = e.exceeded
      <4>1. issues \cap Usage = {}
        BY <2>4, <3>1 DEF Usage, Unfixable
      <4>2. e.exceeded = FALSE
        BY <2>2, <4>1
      <4>3. d.exceeded \in BOOLEAN
        BY <2>11
      <4> QED
        BY <2>8, <4>2, <4>3
    <3>4. d.roaming_allowed = e.roaming_allowed
      <4>1. d.line_roaming = e.line_roaming
        BY <3>2, AccountFieldsAre DEF Twin, Alike, Unseen
      <4> QED
        BY <2>2, <2>11, <3>1, <4>1
    <3>5. Twin({"drawn"}, "gold", d, e)
      BY <3>2, <3>3, <3>4 DEF Twin, Alike, Unseen
    <3>6. UpToIds(e) = UpToIds(d)
      BY <2>1, <3>5, TwinsUpToIds
    <3> QED
      BY <3>6
  <2> QED
    BY <2>3, <2>6, <2>12, <2>13
<1> QED
  BY <1>1, TelecomCorrect, IssuesCorrect, TargetCorrect, PTL
=============================================================================
