------------------------------ MODULE WifiMenus ------------------------------
(***************************************************************************)
(* The Wi-Fi menus of the prompt (repl.cpp) on the station: enabling and   *)
(* disabling, connecting to a known network, trying all of them, adding    *)
(* one, disabling and deleting one, setting the clock by NTP, and the      *)
(* change of CPU clock that takes the radio down and up again.             *)
(*                                                                         *)
(* A menu is a task with a stage; while an operation is active the menu    *)
(* waits in wait_network_operation, where ESC cancels it.  operation_poll  *)
(* is called from there and from the main loop, so that it may run at any  *)
(* time; so may what the radio does.  Calls that alter the link stop the   *)
(* HTTP server first (ServerStop of HttpServer).                           *)
(***************************************************************************)
EXTENDS Naturals, Sequences, WifiStation

CONSTANTS
  Slots,                \* wifi_profiles.hpp: kCount
  MaxGeneration,        \* scans and NTP requests
  MaxAttempts           \* tasks of the menus

ASSUME SlotsAssumption == Slots \in Nat

-----------------------------------------------------------------------------
(* The list of known networks (wifi_profiles.hpp): a few slots, each with  *)
(* a network, its password and whether it may be connected on its own.     *)
(* What a configuration file says of them is normalised when it is read.   *)

SlotNumbers == 1..Slots
Unused == [used |-> FALSE, enabled |-> FALSE, ssid |-> NoNet, password |-> "wrong"]

ProfileLists ==
  [SlotNumbers -> [used : BOOLEAN, enabled : BOOLEAN, ssid : SSIDs \cup {NoNet},
                   password : Passwords]]

Find(profiles, ssid) ==
  {s \in SlotNumbers : ssid # NoNet /\ profiles[s].used /\ profiles[s].ssid = ssid}

Least(slots) == CHOOSE s \in slots : \A t \in slots : s <= t

(* available_slot: the one that has the name, or else the first free one.  *)
AvailableSlots(profiles, ssid) ==
  IF Find(profiles, ssid) # {} THEN {Least(Find(profiles, ssid))}
  ELSE LET unused == {s \in SlotNumbers : ~profiles[s].used}
       IN  IF unused = {} THEN {} ELSE {Least(unused)}

(* upsert: nothing if the list is full; a known network stays as enabled   *)
(* as it was.                                                              *)
Upsert(profiles, ssid, password) ==
  [s \in SlotNumbers |->
     IF s \in AvailableSlots(profiles, ssid)
     THEN [used |-> TRUE, enabled |-> IF profiles[s].used THEN profiles[s].enabled ELSE TRUE,
           ssid |-> ssid, password |-> password]
     ELSE profiles[s]]

Erase(profiles, slot) == [profiles EXCEPT ![slot] = Unused]

(* normalize: a slot without a name is unused, and of two slots with one   *)
(* name the first is kept.                                                 *)
Normalize(profiles) ==
  [s \in SlotNumbers |->
     IF \/ profiles[s].ssid = NoNet
        \/ \E t \in SlotNumbers : t < s /\ profiles[t].ssid = profiles[s].ssid
     THEN Unused ELSE [profiles[s] EXCEPT !.used = TRUE]]

(* migrate: the one network of an older file is taken if the file has no   *)
(* profiles.                                                               *)
Migrate(profiles, hasKeys, legacy) ==
  LET normal == Normalize(profiles)
  IN  IF ~hasKeys /\ legacy # NoNet /\ \A s \in SlotNumbers : ~normal[s].used
      THEN Upsert(normal, legacy, "right") ELSE normal

(* candidates and make_plan: the enabled networks that were found, in the  *)
(* order of their strength, whatever that is.                              *)
Candidates(profiles, found) ==
  {s \in SlotNumbers : profiles[s].used /\ profiles[s].enabled /\ profiles[s].ssid \in found}

Plans(profiles, found) ==
  {plan \in UNION {[1..n -> Candidates(profiles, found)] : n \in 0..Slots} :
     /\ \A i, j \in DOMAIN plan : plan[i] = plan[j] => i = j
     /\ \A s \in Candidates(profiles, found) : \E i \in DOMAIN plan : plan[i] = s}

-----------------------------------------------------------------------------
VARIABLES
  wifi,                 \* the world: network.cpp and the radio
  menu,                 \* the menu's task
  profiles,             \* settings_.wifi_profiles
  wifiEnabled,          \* settings_.wifi_enabled
  asked,                \* history: the network the user last asked for
  attempts              \* the tasks that are left of MaxAttempts

wifiVars == <<wifi, menu, profiles, wifiEnabled, asked, attempts>>

NoTask == [task |-> "none", stage |-> "rest", target |-> NoTarget, plan |-> <<>>,
           started |-> FALSE]

WifiInit ==
  /\ wifi = [n |-> NetOff, r |-> RadioOff]
  /\ menu = NoTask
  /\ \E raw \in [SlotNumbers -> [used : {FALSE}, enabled : BOOLEAN,
                                 ssid : SSIDs \cup {NoNet}, password : {"right"}]],
        hasKeys \in BOOLEAN, legacy \in SSIDs \cup {NoNet} :
       profiles = Migrate(raw, hasKeys, legacy)
  /\ wifiEnabled = FALSE
  /\ asked = NoNet
  /\ attempts = MaxAttempts

Idle == menu.task = "none"
FreeCookie(w) == w.n.generation < MaxGeneration

-----------------------------------------------------------------------------
Finish == menu' = NoTask
Goto(task, stage, target, plan) ==
  menu' = [task |-> task, stage |-> stage, target |-> target, plan |-> plan,
           started |-> FALSE]

(* The entry of wait_wifi_radio_ready polls once, and a leave that is then *)
(* under way is waited for.                                                *)
Prepare(task, target, plan, w, c) ==
  /\ wifi' = Polled(w, c)
  /\ Goto(task, IF wifi'.n.state = "Disassociating" THEN "settle" ELSE "ready", target, plan)

(* The prompt has nothing under way, and the user picks an entry.          *)
Picks(c) == Idle /\ attempts > 0 /\ attempts' = attempts - 1

(* Enable Wi-Fi: auto_connect_wifi follows.                                *)
MenuEnable(c) ==
  /\ Picks(c) /\ ~wifiEnabled
  /\ \E ok \in BOOLEAN :
       LET up == NetInit(wifi, ok, c)
       IN  IF ~up.n.on THEN UNCHANGED <<wifi, menu, wifiEnabled>>
           ELSE /\ wifiEnabled' = TRUE
                /\ IF \E s \in SlotNumbers : profiles[s].used /\ profiles[s].enabled
                   THEN Prepare("auto", NoTarget, <<>>, up, c)
                   ELSE wifi' = up /\ Finish
  /\ UNCHANGED <<profiles, asked>>

MenuDisable(c) ==
  /\ Picks(c) /\ wifiEnabled
  /\ wifi' = Shutdown(wifi, c) /\ wifiEnabled' = FALSE
  /\ asked' = NoNet
  /\ UNCHANGED <<menu, profiles>>

(* Auto Connect Now                                                        *)
MenuAuto(c) ==
  /\ Picks(c) /\ wifiEnabled /\ wifi.n.on
  /\ \E s \in SlotNumbers : profiles[s].used /\ profiles[s].enabled
  /\ Prepare("auto", NoTarget, <<>>, wifi, c)
  /\ UNCHANGED <<profiles, wifiEnabled, asked>>

TargetOf(slot) == [ssid |-> profiles[slot].ssid, password |-> profiles[slot].password]

(* Connect Now                                                             *)
MenuConnect(slot, c) ==
  /\ Picks(c) /\ wifiEnabled /\ wifi.n.on
  /\ profiles[slot].used /\ profiles[slot].enabled
  /\ Prepare("connect", TargetOf(slot), <<>>, wifi, c)
  /\ UNCHANGED <<profiles, wifiEnabled, asked>>

(* Scan & Add Network                                                      *)
MenuAdd(c) ==
  /\ Picks(c) /\ wifiEnabled
  /\ Prepare("add", NoTarget, <<>>, wifi, c)
  /\ UNCHANGED <<profiles, wifiEnabled, asked>>

(* sync_rtc_from_network                                                   *)
Sync(w, c) ==
  LET after == NtpStart(w, c)
  IN  /\ wifi' = after
      /\ IF NtpStarted(w, after) THEN Goto("sync", "ntp", NoTarget, <<>>) ELSE Finish

MenuSync(c) ==
  /\ Picks(c) /\ FreeCookie(wifi) /\ Sync(wifi, c)
  /\ UNCHANGED <<profiles, wifiEnabled, asked>>

(* Disable Profile and Delete end the link if it is this network's.        *)
LetGo(slot, c) ==
  IF CurrentSsid(wifi) = profiles[slot].ssid
  THEN wifi' = Disconnect(wifi, c) /\ asked' = NoNet
  ELSE UNCHANGED <<wifi, asked>>

MenuToggle(slot, c) ==
  /\ Picks(c) /\ profiles[slot].used
  /\ IF profiles[slot].enabled THEN LetGo(slot, c) ELSE UNCHANGED <<wifi, asked>>
  /\ profiles' = [profiles EXCEPT ![slot].enabled = ~@]
  /\ UNCHANGED <<menu, wifiEnabled>>

MenuDelete(slot, c) ==
  /\ Picks(c) /\ profiles[slot].used
  /\ LetGo(slot, c)
  /\ profiles' = Erase(profiles, slot)
  /\ UNCHANGED <<menu, wifiEnabled>>

(* apply_cpu_profile across a PLL change: the radio goes down as a whole,  *)
(* comes up, and the link there was is asked for again.                    *)
MenuCpuClock(c) ==
  /\ Picks(c) /\ wifi.n.on
  /\ \E ok \in BOOLEAN :
       LET was == Find(profiles, CurrentSsid(wifi))
           off == [Shutdown(wifi, c) EXCEPT !.r = [RadioOff EXCEPT !.dns = wifi.r.dns]]
           up == NetInit(off, ok, c)
       IN  /\ wifiEnabled' = up.n.on
           /\ IF up.n.on /\ was # {}
              THEN Prepare("connect", TargetOf(Least(was)), <<>>, up, c)
              ELSE wifi' = up /\ Finish
           /\ asked' = NoNet
  /\ UNCHANGED profiles

-----------------------------------------------------------------------------
(* In wait_network_operation; and what a waiting menu does when nothing is *)
(* active any more.                                                        *)
InWait ==
  \/ menu.stage \in {"settle", "scan", "ntp"}
  \/ menu.stage = "join" /\ (menu.started \/ menu.task = "add")

Waits(stage) == menu.stage = stage /\ ~Active(wifi.n)

(* The radio is ready: scan, or connect to the target.                     *)
ReadyScan(c) ==
  LET after == ScanStart(wifi, c)
  IN  /\ FreeCookie(wifi)
      /\ wifi' = after
      /\ IF ScanStarted(wifi, after) THEN menu' = [menu EXCEPT !.stage = "scan"] ELSE Finish
      /\ UNCHANGED asked

ReadyJoin(c) ==
  LET after == ConnectStart(wifi, menu.target, c)
      started == ConnectStarted(wifi, after)
  IN  /\ wifi' = after
      /\ asked' = IF CanStart(wifi) THEN menu.target.ssid ELSE asked
      /\ menu' = [menu EXCEPT !.stage = "join", !.started = started]

(* wait_wifi_radio_ready gives up on a cancel only if it waited: one that  *)
(* is over does not stop a later menu.  A plan goes on to see why it was   *)
(* not ready, and who adds a network may first be asked for its password.  *)
CancelledInWait == menu.stage = "settle" /\ wifi.n.state = "Cancelled"

MenuReady(c) ==
  /\ menu.stage = "ready" \/ Waits("settle")
  /\ \/ /\ CancelledInWait \/ (~RadioReady(wifi) /\ (menu.task # "auto" \/ menu.target = NoTarget))
        /\ Finish /\ UNCHANGED <<wifi, asked>>
     \/ /\ ~CancelledInWait /\ ~RadioReady(wifi) /\ menu.task = "auto" /\ menu.target # NoTarget
        /\ menu' = [menu EXCEPT !.stage = "join"] /\ UNCHANGED <<wifi, asked>>
     \/ /\ ~CancelledInWait /\ RadioReady(wifi) /\ menu.target = NoTarget
        /\ ReadyScan(c)
     \/ /\ ~CancelledInWait /\ RadioReady(wifi) /\ menu.target # NoTarget
        /\ ReadyJoin(c)
     \/ /\ ~CancelledInWait /\ RadioReady(wifi) /\ menu.target # NoTarget /\ menu.task = "add"
        /\ menu' = [menu EXCEPT !.stage = "prompt"] /\ UNCHANGED <<wifi, asked>>
  /\ UNCHANGED <<profiles, wifiEnabled, attempts>>

(* The password is typed while the radio goes on, or ESC is.               *)
MenuTypes(c) ==
  /\ menu.stage = "prompt"
  /\ ReadyJoin(c) \/ (Finish /\ UNCHANGED <<wifi, asked>>)
  /\ UNCHANGED <<profiles, wifiEnabled, attempts>>

(* The networks found: all that are known, or the one the user picks, with *)
(* the password the user will type.                                        *)
MenuFound(c) ==
  /\ Waits("scan")
  /\ \/ /\ wifi.n.state # "Succeeded" \/ wifi.n.found = {}
        /\ Finish /\ UNCHANGED wifi
     \/ /\ wifi.n.state = "Succeeded" /\ menu.task = "auto"
        /\ \E plan \in Plans(profiles, wifi.n.found) :
             IF plan = <<>> THEN Finish /\ UNCHANGED wifi
             ELSE Prepare("auto", TargetOf(plan[1]), Tail(plan), wifi, c)
     \/ /\ wifi.n.state = "Succeeded" /\ menu.task = "add"
        /\ \E s \in wifi.n.found, password \in Passwords :
             /\ IF AvailableSlots(profiles, s) = {} THEN Finish
                ELSE Goto("add", "picked", [ssid |-> s, password |-> password], <<>>)
             /\ UNCHANGED wifi
  /\ UNCHANGED <<profiles, wifiEnabled, asked, attempts>>

(* The list of networks, or the choice to try again, is left.              *)
MenuPicked(c) ==
  /\ menu.stage = "picked"
  /\ Prepare("add", menu.target, <<>>, wifi, c) \/ (Finish /\ UNCHANGED wifi)
  /\ UNCHANGED <<profiles, wifiEnabled, asked, attempts>>

Joined == menu.started /\ wifi.n.state = "Succeeded"

(* Wrong: the profile is saved when the link has associated.               *)
MenuJoinedEarly(c) ==
  /\ menu.stage = "join" /\ wifi.n.state \in {"Succeeded", "WaitingForIp", "Associating"}
  /\ profiles' = IF menu.task = "add"
                 THEN Upsert(profiles, menu.target.ssid, menu.target.password) ELSE profiles
  /\ Finish /\ UNCHANGED <<wifi, wifiEnabled, asked, attempts>>

(* Connected: a new network is saved, and the clock is set if that is on.  *)
MenuJoined(c) ==
  /\ Waits("join") /\ Joined
  /\ profiles' = IF menu.task = "add"
                 THEN Upsert(profiles, menu.target.ssid, menu.target.password) ELSE profiles
  /\ \/ menu.task # "add" /\ FreeCookie(wifi) /\ Sync(wifi, c)
     \/ Finish /\ UNCHANGED wifi
  /\ UNCHANGED <<wifiEnabled, asked, attempts>>

(* Not connected: the next of the plan; or, when adding, again with the    *)
(* same password, or with another one if it may be that.  A start that was *)
(* refused is waited for only when adding.                                 *)
MenuNotJoined(c) ==
  /\ Waits("join") \/ (menu.stage = "join" /\ ~InWait)
  /\ ~Joined
  /\ \/ Finish /\ UNCHANGED wifi
     \/ /\ menu.task = "auto" /\ menu.plan # <<>>
        /\ RadioReady(wifi) /\ wifi.n.state = "Failed"
        /\ Prepare("auto", TargetOf(Head(menu.plan)), Tail(menu.plan), wifi, c)
     \/ /\ menu.task = "add" /\ wifi.n.state # "Cancelled"
        /\ \E password \in Passwords :
             /\ password = menu.target.password
                  \/ (menu.started /\ wifi.n.error = "association")
             /\ Goto("add", "picked", [menu.target EXCEPT !.password = password], <<>>)
        /\ UNCHANGED wifi
  /\ UNCHANGED <<profiles, wifiEnabled, asked, attempts>>

MenuSynced ==
  /\ Waits("ntp")
  /\ Finish
  /\ UNCHANGED <<wifi, profiles, wifiEnabled, asked, attempts>>

(* ESC while an operation is waited for.                                   *)
MenuCancels(c) ==
  /\ InWait /\ Active(wifi.n)
  /\ wifi' = Cancel(wifi, c)
  /\ asked' = IF wifi.n.state \in {"Associating", "WaitingForIp", "Disassociating"}
              THEN NoNet ELSE asked
  /\ Finish
  /\ UNCHANGED <<profiles, wifiEnabled, attempts>>

-----------------------------------------------------------------------------
(* Between wait_wifi_radio_ready and the start there is no poll.           *)
Polls(c) ==
  /\ wifi.n.on /\ menu.stage # "ready"
  /\ UNCHANGED <<menu, profiles, wifiEnabled, asked, attempts>>
  /\ wifi' = Polled(wifi, c)

PollsOnTime == \E c \in Choices : ~c.late /\ Polls(c)
PollsLate == \E c \in Choices : c.late /\ Polls(c)

Background ==
  /\ wifi' \in LinkMoves(wifi) \cup LinkLeaves(wifi) \cup ScanHears(wifi) \cup ScanEnds(wifi)
                 \cup DnsAnswers(wifi) \cup NtpAnswers(wifi)
  /\ UNCHANGED <<menu, profiles, wifiEnabled, asked, attempts>>

Disturbance ==
  /\ wifi' \in LinkDrops(wifi) \cup LinkRetries(wifi)
  /\ UNCHANGED <<menu, profiles, wifiEnabled, asked, attempts>>

Menus(c) ==
  \/ MenuEnable(c) \/ MenuDisable(c) \/ MenuAuto(c) \/ MenuAdd(c) \/ MenuSync(c)
  \/ \E slot \in SlotNumbers : MenuConnect(slot, c) \/ MenuToggle(slot, c) \/ MenuDelete(slot, c)
  \/ MenuCpuClock(c)

Continues(c) ==
  \/ MenuReady(c) \/ MenuTypes(c) \/ MenuFound(c) \/ MenuPicked(c)
  \/ MenuJoined(c) \/ MenuNotJoined(c) \/ MenuCancels(c)

WifiNext ==
  \/ \E c \in Choices : ~c.late /\ (Menus(c) \/ Continues(c))
  \/ MenuSynced
  \/ PollsOnTime \/ PollsLate
  \/ Background \/ Disturbance

(* The main loop and every wait poll for ever, and time passes.  Nothing   *)
(* is asked of the radio.                                                  *)
WifiFairness == SF_wifiVars(PollsLate)

WifiSpec == WifiInit /\ [][WifiNext]_wifiVars /\ WifiFairness

-----------------------------------------------------------------------------
(* The network the station joins, waits to join or says it is on is the    *)
(* one the user last asked for and has not cancelled since, nor disabled   *)
(* or deleted while on it, and that is where the radio is.  Joins wait     *)
(* behind a leave, the driver brings old links back (network.cpp:417), and *)
(* a join that fails at DHCP keeps the name of the network before it       *)
(* (network.cpp:450-454): that name never becomes a connection again.      *)
OnlyWhatWasAsked ==
  /\ Connected(wifi) \/ wifi.n.state \in {"Associating", "WaitingForIp"} =>
       wifi.n.ssid = asked /\ wifi.r.at.ssid = asked
  /\ wifi.n.pending.ssid \in {NoNet, asked}

(* A known network is named once, and its password is one with which an    *)
(* address was got: whatever the scan, the retries and the cancels between *)
(* typing it and saving it (repl.cpp:3445-3491).                           *)
ProfilesWork ==
  \A s \in SlotNumbers : profiles[s].used =>
    /\ profiles[s].password = "right"
    /\ \A t \in SlotNumbers : profiles[t].used /\ profiles[t].ssid = profiles[s].ssid => s = t

(* The address an NTP request goes to is the answer to its own look-up:    *)
(* a cancelled one answers late (network.cpp:146-160).                     *)
OwnAnswers == wifi.n.state = "SyncingTime" => wifi.n.server \in {0, wifi.n.ntpGen}

(* Every operation ends, even if the radio never answers again.            *)
OperationsEnd == Active(wifi.n) ~> ~Active(wifi.n)
=============================================================================
