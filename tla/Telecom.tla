------------------------------- MODULE Telecom -------------------------------
(***************************************************************************)
(* The telecom domain (src/tau2/domains/telecom): the operator's database  *)
(* behind the agent's tools, the phone behind the user's tools, sync_tools *)
(* that keeps the two in step, the tasks put together from base tasks, and *)
(* the three environments a task is played in: the live one, the one the   *)
(* evaluator rebuilds from the trajectory (Environment.set_state), and the *)
(* gold one, on which it performs the reference actions.                   *)
(*                                                                         *)
(* An environment is a record of both databases as far as the tasks can    *)
(* tell them apart.  A tool call is <<requestor, tool, argument>>; a tool  *)
(* is an operator on the record.  Data volumes are in tenths of a GB.      *)
(***************************************************************************)
EXTENDS Integers, FiniteSets, SequencesExt

CONSTANTS
  Copies,     \* the environments that are compared: "live" and others
  Managers,   \* the task managers whose tasks are played
  MaxIssues,  \* bound: base tasks in a composed task
  MaxTrouble  \* bound: base tasks and calls that are no reference actions, if any

ASSUME TelecomAssumption ==
  /\ "live" \in Copies /\ Copies \subseteq {"live", "replay", "gold"}
  /\ Managers \subseteq {"service", "mobile", "mms"}
  /\ MaxIssues \in Nat \ {0} /\ MaxTrouble \in Nat

VARIABLES
  manager,    \* the task's manager: which assertions say that it is fixed
  issues,     \* the base tasks the task is composed of
  todo,       \* per base task: the fix calls not made yet
  straight,   \* the fix calls were made in the order of the reference
  detours,    \* other calls made
  diverged,   \* set_state would raise: a replayed call answered otherwise
  env         \* the environments

telecomVars == <<manager, issues, todo, straight, detours, diverged, env>>

PlanLimit == 150
-----------------------------------------------------------------------------
(* The phone: TelecomUserTools.                                            *)

SimStatus(d) == IF d.sim_missing THEN "missing" ELSE d.sim_status

Technology == [prefer_5g |-> "5G", only_4g |-> "4G", only_3g |-> "3G", only_2g |-> "2G"]

\* Each technology has a signal where the user is; without one there is none.
SimulateNetworkSearch(d) ==
  LET service == /\ SimStatus(d) = "active"
                 /\ ~d.airplane_mode
                 /\ d.apn_name # "broken"
                 /\ d.line_active
  IN [d EXCEPT !.status = IF service THEN "connected" ELSE "no_service",
               !.tech = IF service THEN Technology[d.mode] ELSE "none"]

SetNetworkMode(d, mode) == SimulateNetworkSearch([d EXCEPT !.mode = mode])
ReseatSim(d) == SimulateNetworkSearch([d EXCEPT !.sim_missing = FALSE])
UnseatSim(d) == SimulateNetworkSearch([d EXCEPT !.sim_missing = TRUE])
LockSim(d) == SimulateNetworkSearch([d EXCEPT !.sim_status = "locked_pin"])
ToggleData(d) == SimulateNetworkSearch([d EXCEPT !.data = ~@])
ToggleRoaming(d) == SimulateNetworkSearch([d EXCEPT !.roaming = ~@])
ToggleDataSaver(d) == [d EXCEPT !.saver = ~@]
ToggleWifiCalling(d) == [d EXCEPT !.wifi_calling = ~@]
SetWifiCallingOn(d) == [d EXCEPT !.wifi_calling = TRUE, !.mms_over_wifi = TRUE]

\* Wi-Fi cannot be switched in airplane mode; it never connects.
ToggleWifi(d) == IF d.airplane_mode THEN d ELSE [d EXCEPT !.wifi = ~@]

\* Mutant: turning it off drops the VPN as well.
ToggleAirplaneModeAndVpn(d) ==
  SimulateNetworkSearch([d EXCEPT !.airplane_mode = ~@, !.vpn = FALSE])

\* Turning it on drops the VPN, turning it off does not bring it back.
ToggleAirplaneMode(d) ==
  SimulateNetworkSearch([d EXCEPT !.airplane_mode = ~@,
                                  !.vpn = @ /\ d.airplane_mode])

TurnDataOff(d) == IF d.data THEN ToggleData(d) ELSE ToggleData(ToggleData(d))
TurnRoaming(d, on) == IF d.roaming # on THEN ToggleRoaming(d) ELSE ToggleRoaming(ToggleRoaming(d))
TurnAirplaneModeOn(d) ==
  IF d.airplane_mode THEN ToggleAirplaneMode(ToggleAirplaneMode(d)) ELSE ToggleAirplaneMode(d)
TurnDataSaverOn(d) == IF d.saver THEN ToggleDataSaver(ToggleDataSaver(d)) ELSE ToggleDataSaver(d)

\* A reset of the APN waits for the next reboot.
SetApn(d) == SimulateNetworkSearch([d EXCEPT !.apn_name = "internet", !.apn_reset = FALSE, !.mmsc = TRUE])
ResetApn(d) == SimulateNetworkSearch([d EXCEPT !.apn_reset = TRUE])
BreakApn(d) == SimulateNetworkSearch([d EXCEPT !.apn_name = "broken"])
BreakApnMms(d) == [d EXCEPT !.mmsc = FALSE]
RebootDevice(d) ==
  SimulateNetworkSearch(
    IF d.apn_reset THEN [d EXCEPT !.apn_name = "internet", !.apn_reset = FALSE, !.mmsc = TRUE]
                   ELSE d)

\* break_vpn changes the details of the VPN, an object the class shares among
\* the environments of a process: one connected later is as poor.
ConnectVpn(d) == [d EXCEPT !.vpn = TRUE]
DisconnectVpn(d) == [d EXCEPT !.vpn = FALSE]
BreakVpn(d) == [ConnectVpn(d) EXCEPT !.vpn_poor = TRUE]

GrantPermission(d, p) == [d EXCEPT !.permissions = @ \union {p}]
RemovePermission(d, p) == [d EXCEPT !.permissions = @ \ {p}]

MakePayment(d) ==
  IF d.request.bill = "none" THEN d ELSE [d EXCEPT !.request.paid = TRUE]

MobileDataWorking(d) ==
  /\ ~d.airplane_mode /\ d.tech # "none"
  /\ d.status # "no_service"
  /\ d.abroad => d.roaming /\ d.roaming_allowed
  /\ d.data
  /\ ~d.exceeded

\* _run_speed_test: only 5G is excellent, unless something slows it down.
InternetExcellent(d) ==
  MobileDataWorking(d) /\ d.tech = "5G" /\ ~d.saver /\ ~(d.vpn /\ d.vpn_poor)

CanSendMms(d) ==
  /\ MobileDataWorking(d) /\ d.tech # "2G"
  /\ ~(d.wifi_calling /\ d.mms_over_wifi)
  /\ d.mmsc
  /\ {"storage", "sms"} \subseteq d.permissions
-----------------------------------------------------------------------------
(* The operator: TelecomTools.  A tool answers with the database it leaves *)
(* and whether it raised.                                                  *)

Done(d) == [db |-> d, error |-> FALSE]
Raised(d) == [db |-> d, error |-> TRUE]

SuspendLine(d) ==
  IF d.line_status = "active" THEN Done([d EXCEPT !.line_status = "suspended"]) ELSE Raised(d)

ResumeLine(d) ==
  IF d.line_status = "suspended" THEN Done([d EXCEPT !.line_status = "active"]) ELSE Raised(d)

NoRequest == [bill |-> "none", paid |-> FALSE]
AwaitingBills(d) == {b \in DOMAIN d.bills : d.bills[b] = "awaiting"}

\* Mutant: a second request is sent while one is open.
SendSecondRequest(d, b) ==
  IF d.bills[b] # "none" /\ d.drawn[b] \in {"seed", "live"}
  THEN Done([d EXCEPT !.bills[b] = "awaiting"])
  ELSE Raised(d)

\* The agent knows bills by the ids of the live environment: the id another
\* environment drew for its own draft bill is unknown there.
SendPaymentRequest(d, b) ==
  IF AwaitingBills(d) = {} /\ d.bills[b] # "none" /\ d.drawn[b] \in {"seed", "live"}
  THEN Done([d EXCEPT !.bills[b] = "awaiting"])
  ELSE Raised(d)

SetLineRoaming(d, on) == Done([d EXCEPT !.line_roaming = on])
SetDataUsage(d, used) == Done([d EXCEPT !.data_used = used])

\* The charge goes to the draft bill; if there is none, _apply_one_time_charge
\* makes one, whose id environment c draws at random.  Bound: two such bills.
RefuelData(c, d) ==
  LET draft == {b \in {"draft", "draft2"} : d.bills[b] = "draft"}
      slot == IF d.bills["draft"] = "none" THEN "draft" ELSE "draft2"
      charged == [d EXCEPT !.data_refueling = @ + 20]
  IN Done(IF draft # {} THEN charged
          ELSE [charged EXCEPT !.bills[slot] = "draft", !.drawn[slot] = c])

SuspendLineForOverdueBill(d) ==
  IF d.line_status = "active" /\ d.bills["overdue"] = "none"
  THEN Done([d EXCEPT !.bills["overdue"] = "overdue", !.line_status = "suspended"])
  ELSE Raised(d)
-----------------------------------------------------------------------------
(* The environment: tool calls, sync_tools and replay.                     *)

SyncTools(d) ==
  LET settled ==
        IF d.request.paid
        THEN [d EXCEPT !.bills[d.request.bill] = "paid", !.request = NoRequest]
        ELSE d
      asked ==
        IF settled.request = NoRequest /\ AwaitingBills(settled) # {}
        THEN [settled EXCEPT !.request = [bill |-> CHOOSE b \in AwaitingBills(settled) : TRUE, paid |-> FALSE]]
        ELSE settled
  IN [asked EXCEPT !.line_active = (d.line_status = "active"),
                   !.roaming_allowed = d.line_roaming,
                   !.exceeded = (d.data_used >= PlanLimit + d.data_refueling)]

WriteTools == [
  assistant |-> {"suspend_line", "resume_line", "send_payment_request", "enable_roaming",
                 "disable_roaming", "refuel_data"},
  user |-> {"set_network_mode_preference", "toggle_airplane_mode", "reseat_sim_card", "toggle_data",
            "toggle_roaming", "toggle_data_saver_mode", "set_apn_settings", "reset_apn_settings",
            "toggle_wifi", "toggle_wifi_calling", "connect_vpn", "disconnect_vpn",
            "grant_app_permission", "reboot_device", "make_payment"}]

OtherTools == [
  assistant |-> {"get_data_usage", "transfer_to_human_agents"},
  user |-> {"check_status_bar"}]

\* make_tool_call in environment c: only the requestor's own toolkit is asked.
MakeToolCall(c, call, d) ==
  LET tool == call[2] arg == call[3] IN
  IF tool \notin WriteTools[call[1]] \union OtherTools[call[1]] THEN Raised(d)
  ELSE CASE tool = "suspend_line" -> SuspendLine(d)
         [] tool = "resume_line" -> ResumeLine(d)
         [] tool = "send_payment_request" -> SendPaymentRequest(d, arg)
         [] tool = "enable_roaming" -> SetLineRoaming(d, TRUE)
         [] tool = "disable_roaming" -> SetLineRoaming(d, FALSE)
         [] tool = "refuel_data" -> RefuelData(c, d)
         [] tool = "set_network_mode_preference" -> Done(SetNetworkMode(d, arg))
         [] tool = "toggle_airplane_mode" -> Done(ToggleAirplaneMode(d))
         [] tool = "reseat_sim_card" -> Done(ReseatSim(d))
         [] tool = "toggle_data" -> Done(ToggleData(d))
         [] tool = "toggle_roaming" -> Done(ToggleRoaming(d))
         [] tool = "toggle_data_saver_mode" -> Done(ToggleDataSaver(d))
         [] tool = "set_apn_settings" -> Done(SetApn(d))
         [] tool = "reset_apn_settings" -> Done(ResetApn(d))
         [] tool = "toggle_wifi" -> Done(ToggleWifi(d))
         [] tool = "toggle_wifi_calling" -> Done(ToggleWifiCalling(d))
         [] tool = "connect_vpn" -> Done(ConnectVpn(d))
         [] tool = "disconnect_vpn" -> Done(DisconnectVpn(d))
         [] tool = "grant_app_permission" -> Done(GrantPermission(d, arg))
         [] tool = "reboot_device" -> Done(RebootDevice(d))
         [] tool = "make_payment" -> Done(MakePayment(d))
         [] OTHER -> Done(d)

\* get_response: databases are brought in step unless the tool raised.
GetResponse(c, call, d) ==
  LET r == MakeToolCall(c, call, d) IN
  IF r.error THEN r ELSE Done(SyncTools(r.db))

\* What the answer tells, as far as replay compares it: error and status bar.
Content(c, call, d) ==
  LET r == MakeToolCall(c, call, d)
      p == r.db
  IN <<r.error, p.airplane_mode, p.tech, p.data, p.saver, p.vpn>>

\* Mutant: the user's tools are not looked up.
ReplayedOfAgent(call) == call[2] \in WriteTools.assistant

\* set_state runs the calls of known tools that write again, whichever toolkit
\* has them; the others it takes to change nothing.
Replayed(call) == call[2] \in WriteTools.assistant \union WriteTools.user
-----------------------------------------------------------------------------
(* The tasks: base tasks, how they are composed, and when they are fixed.  *)

Agent(tool, arg) == <<"assistant", tool, arg>>
User(tool, arg) == <<"user", tool, arg>>

Permissions == {"break_app_both_permissions", "break_app_sms_permission", "break_app_storage_permission"}
ServiceIssues == {"airplane_mode_on", "unseat_sim_card", "lock_sim_card_pin", "break_apn_settings",
                  "overdue_bill_suspension", "contract_end_suspension"}
MmsIssues == Permissions \union {"bad_wifi_calling", "break_apn_mms_setting"}

\* Base tasks by name, in the order compose_tasks sorts them in.
TaskOrder == <<"airplane_mode_on", "bad_network_preference", "bad_vpn", "bad_wifi_calling",
  "break_apn_mms_setting", "break_apn_settings", "break_app_both_permissions",
  "break_app_sms_permission", "break_app_storage_permission", "contract_end_suspension",
  "data_mode_off", "data_saver_mode_on", "data_usage_exceeded", "data_usage_exceeded_no_refuel",
  "lock_sim_card_pin", "overdue_bill_suspension", "unseat_sim_card",
  "user_abroad_roaming_disabled_off", "user_abroad_roaming_disabled_on",
  "user_abroad_roaming_enabled_off">>

\* run_env_function_call: databases are brought in step after every function.
Then(r) == SyncTools(r.db)
Abroad(d, roaming, allowed) ==
  LET off == Then(Done(TurnRoaming(Then(Done([d EXCEPT !.abroad = TRUE])), roaming)))
  IN Then(SetLineRoaming(off, allowed))

\* init_funcs: how a base task breaks environment c.  service_issues.py
BreakService(d, b) ==
  CASE b = "airplane_mode_on" -> Then(Done(TurnAirplaneModeOn(d)))
    [] b = "break_apn_settings" -> Then(Done(BreakApn(d)))
    [] b = "lock_sim_card_pin" -> Then(Done(LockSim(d)))
    [] b = "unseat_sim_card" -> Then(Done(UnseatSim(d)))
    [] b \in {"contract_end_suspension", "overdue_bill_suspension"} ->
         Then(Done(SimulateNetworkSearch(Then(SuspendLineForOverdueBill(d)))))

\* mobile_data_issues.py
BreakMobile(c, d, b) ==
  CASE b = "bad_network_preference" -> Then(Done(SetNetworkMode(d, "only_2g")))
    [] b = "bad_vpn" -> Then(Done(BreakVpn(d)))
    [] b = "data_mode_off" -> Then(Done(TurnDataOff(d)))
    [] b = "data_saver_mode_on" -> Then(Done(TurnDataSaverOn(d)))
    [] b = "data_usage_exceeded" -> Then(SetDataUsage(d, 151))
    [] b = "data_usage_exceeded_no_refuel" -> Then(SetDataUsage(Then(RefuelData(c, d)), 171))
    [] b = "user_abroad_roaming_disabled_off" -> Then(Done(SimulateNetworkSearch(Abroad(d, FALSE, FALSE))))
    [] b = "user_abroad_roaming_disabled_on" -> Then(Done(SimulateNetworkSearch(Abroad(d, TRUE, FALSE))))
    [] b = "user_abroad_roaming_enabled_off" -> Abroad(d, FALSE, TRUE)

\* mms_issues.py
BreakMms(d, b) ==
  CASE b = "bad_wifi_calling" -> Then(Done(SetWifiCallingOn(d)))
    [] b = "break_apn_mms_setting" -> Then(Done(BreakApnMms(d)))
    [] b = "break_app_both_permissions" -> Then(Done(RemovePermission(RemovePermission(d, "sms"), "storage")))
    [] b = "break_app_sms_permission" -> Then(Done(RemovePermission(d, "sms")))
    [] b = "break_app_storage_permission" -> Then(Done(RemovePermission(d, "storage")))

Break(c, d, b) ==
  IF b \in ServiceIssues THEN BreakService(d, b)
  ELSE IF b \in MmsIssues THEN BreakMms(d, b)
  ELSE BreakMobile(c, d, b)

\* fix_funcs: the calls that mend it; none where the agent has to give up.
FixesService(b) ==
  CASE b = "airplane_mode_on" -> <<User("toggle_airplane_mode", "")>>
    [] b = "break_apn_settings" -> <<User("reset_apn_settings", ""), User("reboot_device", "")>>
    [] b = "overdue_bill_suspension" ->
         <<Agent("send_payment_request", "overdue"), User("make_payment", ""),
           Agent("resume_line", ""), User("reboot_device", "")>>
    [] b = "unseat_sim_card" -> <<User("reseat_sim_card", "")>>
    [] OTHER -> <<>>

FixesMobile(b) ==
  CASE b = "bad_network_preference" -> <<User("set_network_mode_preference", "prefer_5g")>>
    [] b = "bad_vpn" -> <<User("disconnect_vpn", "")>>
    [] b = "data_mode_off" -> <<User("toggle_data", "")>>
    [] b = "data_saver_mode_on" -> <<User("toggle_data_saver_mode", "")>>
    [] b = "data_usage_exceeded" -> <<Agent("refuel_data", "")>>
    [] b = "user_abroad_roaming_disabled_off" ->
         <<Agent("enable_roaming", ""), User("toggle_roaming", "")>>
    [] b = "user_abroad_roaming_disabled_on" -> <<Agent("enable_roaming", "")>>
    [] b = "user_abroad_roaming_enabled_off" -> <<User("toggle_roaming", "")>>
    [] OTHER -> <<>>

FixesMms(b) ==
  CASE b = "bad_wifi_calling" -> <<User("toggle_wifi_calling", "")>>
    [] b = "break_apn_mms_setting" -> <<User("reset_apn_settings", ""), User("reboot_device", "")>>
    [] b = "break_app_both_permissions" ->
         <<User("grant_app_permission", "sms"), User("grant_app_permission", "storage")>>
    [] b = "break_app_sms_permission" -> <<User("grant_app_permission", "sms")>>
    [] b = "break_app_storage_permission" -> <<User("grant_app_permission", "storage")>>

Fixes(b) ==
  IF b \in ServiceIssues THEN FixesService(b)
  ELSE IF b \in MmsIssues THEN FixesMms(b)
  ELSE FixesMobile(b)

Unfixable == {"contract_end_suspension", "data_usage_exceeded_no_refuel", "lock_sim_card_pin"}

Roaming == {"user_abroad_roaming_disabled_off", "user_abroad_roaming_disabled_on",
            "user_abroad_roaming_enabled_off"}
Usage == {"data_usage_exceeded", "data_usage_exceeded_no_refuel"}

\* Selection sets: a task has at most one base task of each.
SelectionSets == [
  service |-> {{"airplane_mode_on"}, {"unseat_sim_card"}, {"lock_sim_card_pin"}, {"break_apn_settings"},
               {"overdue_bill_suspension", "contract_end_suspension"}},
  mobile |-> {{"airplane_mode_on"}, Roaming, {"data_mode_off"}, {"data_saver_mode_on"},
              {"bad_network_preference"}, {"bad_vpn"}, Usage},
  mms |-> {{"airplane_mode_on"}, {"unseat_sim_card"}, {"data_mode_off"}, Usage, Roaming,
           {"bad_network_preference"}, {"bad_wifi_calling"}, {"break_apn_mms_setting"}, Permissions}]

\* task_validator: a task is about its manager's own subject.
Sampled == [
  service |-> {},
  mobile |-> {"airplane_mode_on"},
  mms |-> {"airplane_mode_on", "unseat_sim_card", "data_mode_off"} \union Usage \union Roaming]

ComposedTasks(m) ==
  {t \in UNION {kSubset(n, UNION SelectionSets[m]) : n \in 1..MaxIssues} :
     /\ \A s \in SelectionSets[m] : Cardinality(t \cap s) <= 1
     /\ ~(t \subseteq Sampled[m])}

\* is_fixed, with the extra assertion of data_usage_exceeded.
ServiceFixed(d) == d.status = "connected" /\ d.bills["overdue"] \in {"none", "paid"}
IsFixed(d) ==
  /\ CASE manager = "service" -> ServiceFixed(d)
       [] manager = "mobile" -> InternetExcellent(d)
       [] manager = "mms" -> CanSendMms(d)
  /\ "data_usage_exceeded" \in issues => d.data_refueling = 20
-----------------------------------------------------------------------------
(* Playing a task.                                                         *)

\* A phone and an account without issues, in step.
Home(roams) ==
  [line_status |-> "active", line_roaming |-> roams, data_used |-> 87, data_refueling |-> 0,
   bills |-> [b \in {"issued", "overdue", "draft", "draft2"} |-> IF b = "issued" THEN "issued" ELSE "none"],
   drawn |-> [b \in {"issued", "overdue", "draft", "draft2"} |-> "seed"],
   airplane_mode |-> FALSE, sim_missing |-> FALSE, sim_status |-> "active", status |-> "connected",
   tech |-> "5G", mode |-> "prefer_5g", data |-> TRUE, roaming |-> FALSE, apn_name |-> "internet",
   apn_reset |-> FALSE, mmsc |-> TRUE, wifi |-> FALSE, wifi_calling |-> FALSE, mms_over_wifi |-> FALSE,
   saver |-> FALSE, vpn |-> FALSE, vpn_poor |-> FALSE, permissions |-> {"sms", "storage"},
   abroad |-> FALSE, line_active |-> TRUE, roaming_allowed |-> roams, exceeded |-> FALSE,
   request |-> NoRequest]

InOrder(t) == SelectSeq(TaskOrder, LAMBDA b : b \in t)

\* Initialization actions, the same for every environment.
Broken(c, t, roams) ==
  LET upTo[n \in 0..Len(TaskOrder)] ==
        IF n = 0 THEN Home(roams)
        ELSE IF TaskOrder[n] \in t THEN Break(c, upTo[n - 1], TaskOrder[n])
        ELSE upTo[n - 1]
  IN upTo[Len(TaskOrder)]

\* A task with an issue past mending has no reference but the transfer.
Reference(t) ==
  [b \in t |-> IF t \cap Unfixable = {} THEN Fixes(b) ELSE <<>>]

TelecomInit ==
  /\ manager \in Managers
  /\ issues \in ComposedTasks(manager)
  /\ todo = Reference(issues)
  /\ straight = TRUE /\ detours = 0 /\ diverged = FALSE
  /\ \E roams \in BOOLEAN : env = [c \in Copies |-> Broken(c, issues, roams)]

\* Mutant: the gold environment performs the agent's actions only.
MadeOfAgent(c, call, reference) ==
  CASE c = "live" -> GetResponse(c, call, env[c]).db
    [] c = "replay" -> IF Replayed(call) THEN GetResponse(c, call, env[c]).db ELSE env[c]
    [] c = "gold" -> IF reference /\ call[1] = "assistant" THEN MakeToolCall(c, call, env[c]).db ELSE env[c]

\* Each environment's share of a call made in the live one.  The gold one
\* performs reference actions only, by make_tool_call alone.
Made(c, call, reference) ==
  CASE c = "live" -> GetResponse(c, call, env[c]).db
    [] c = "replay" -> IF Replayed(call) THEN GetResponse(c, call, env[c]).db ELSE env[c]
    [] c = "gold" -> IF reference THEN MakeToolCall(c, call, env[c]).db ELSE env[c]

\* Bound: no charge in the live environment makes a third draft bill.
RoomForBill(d) == \E b \in {"draft", "draft2"} : d.bills[b] \in {"none", "draft"}

Perform(call, reference) ==
  /\ call[2] = "refuel_data" => RoomForBill(env["live"])
  /\ env' = [c \in Copies |-> Made(c, call, reference)]
  /\ diverged' = (diverged \/ /\ "replay" \in Copies /\ Replayed(call)
                              /\ Content("replay", call, env["replay"]) # Content("live", call, env["live"]))
  /\ UNCHANGED <<manager, issues>>

\* Agent and user make the next fix call of one of the issues.
FixCall(b) ==
  /\ todo[b] # <<>>
  /\ Perform(Head(todo[b]), TRUE)
  /\ todo' = [todo EXCEPT ![b] = Tail(@)]
  /\ straight' = (straight /\ LET open == SelectSeq(InOrder(issues), LAMBDA i : todo[i] # <<>>) IN b = Head(open))
  /\ UNCHANGED detours

DetourCalls ==
  (UNION {{r} \X ((WriteTools[r] \union OtherTools[r]) \ {"send_payment_request", "set_network_mode_preference",
                                           "grant_app_permission"}) \X {""} : r \in {"assistant", "user"}})
  \union {Agent("send_payment_request", b) : b \in {"issued", "overdue", "draft", "draft2"}}
  \union {User("set_network_mode_preference", m) : m \in DOMAIN Technology}
  \union {User("grant_app_permission", p) : p \in {"sms", "storage"}}
  \union {Agent("toggle_data", ""), User("no_such_tool", "")}

Detour ==
  /\ Cardinality(issues) + detours < MaxTrouble
  /\ \E call \in DetourCalls : Perform(call, FALSE)
  /\ detours' = detours + 1
  /\ UNCHANGED <<todo, straight>>

TelecomNext == Detour \/ \E b \in issues : FixCall(b)

TelecomSpec == TelecomInit /\ [][TelecomNext]_telecomVars
-----------------------------------------------------------------------------
(* Properties.                                                             *)

AllFixed == issues \cap Unfixable = {} /\ \A b \in issues : todo[b] = <<>>

\* TaskManager.verify_task performs the fix calls in one order.  Agent and user
\* may make those of different issues in any order: the task is fixed after all,
\* and not before, for no issue is mended by what mends the others: the task is
\* not fixed while no fix call of one of its issues has been made.
FixedByItsFixes ==
  detours = 0 =>
    /\ AllFixed => IsFixed(env["live"])
    /\ (\E b \in issues : todo[b] = Fixes(b)) => ~IsFixed(env["live"])

\* The environment the evaluator rebuilds is the live one, up to ids drawn at
\* random, and set_state does not raise, whatever calls were made, unless the
\* agent used such an id.
UpToIds(d) == [d EXCEPT !.drawn = [b \in DOMAIN d.bills |-> d.drawn[b] = "seed"]]
DrawnIdUsed ==
  \E b \in DOMAIN env["live"].bills :
    env["live"].drawn[b] # "seed" /\ env["live"].bills[b] # "draft"
ReplayFaithful ==
  DrawnIdUsed \/ /\ ~diverged
                 /\ UpToIds(SyncTools(env["replay"])) = UpToIds(env["live"])

\* Operator and user agree on what is to be paid: a bill awaits payment exactly
\* when the user has a request for it, and no more than one does.
AwaitingIsRequested ==
  LET d == env["live"] IN
  AwaitingBills(d) = (IF d.request = NoRequest THEN {} ELSE {d.request.bill}) /\ ~d.request.paid

\* EnvironmentEvaluator compares the databases of the environment rebuilt, which
\* set_state leaves in step, with those of the gold one, as make_tool_call left
\* them: no sync_tools told the gold phone what became of its line.  Up to ids:
\* a bill with an id drawn at random would tell the two apart as well.
DbMatch == UpToIds(SyncTools(env["replay"])) = UpToIds(env["gold"])

\* docs/evaluation.md:14-16: the reference trajectory solves the task, and the
\* gold environment it is replayed on has the end state a solution must have: so
\* the reference itself reaches the target.  It does not where the agent acts.
ReferenceReachesTarget == AllFixed /\ straight /\ detours = 0 => DbMatch

\* No fix call of the task's issues is the agent's.
UserMendsAll == \A b \in issues : \A i \in DOMAIN Fixes(b) : Fixes(b)[i][1] = "user"

\* A task mended by its reference trajectory is at the evaluator's target exactly
\* when the user makes all of its calls: what the phone is told of the line, and
\* the request for a bill, reach the gold environment by sync_tools alone.
TargetReachedByUser == AllFixed /\ straight /\ detours = 0 => (DbMatch <=> UserMendsAll)
=============================================================================
