----------------------------- MODULE WifiStation -----------------------------
(***************************************************************************)
(* The Wi-Fi station (network.cpp): one operation at a time, started by a  *)
(* menu and driven by operation_poll, on a radio that answers in the       *)
(* background: joins and leaves are asynchronous, a leave is acknowledged  *)
(* only by the link going down, the driver retries a connection on its     *)
(* own, a scan cannot be aborted and a name look-up answers when it likes. *)
(*                                                                         *)
(* The module has the calls as operators on a world w: w.n is the state of *)
(* network.cpp, w.r the radio and lwIP.  A call takes c, what can turn out *)
(* one way or the other: whether the deadline was reached, whether the     *)
(* leave is accepted, and whether the start is, or DHCP does not start.    *)
(***************************************************************************)
EXTENDS Naturals

CONSTANT SSIDs          \* the names of networks

NoNet == "no network"

ASSUME NamesAssumption == NoNet \notin SSIDs

Passwords == {"right", "wrong"}      \* of the network it is used with
NoTarget == [ssid |-> NoNet, password |-> "wrong"]

Starts == {"ok", "refused", "noDhcp"}
Choices == [late : BOOLEAN, leaveOk : BOOLEAN, start : Starts]

NetOff ==
  [on |-> FALSE, state |-> "Idle", kind |-> "None", ssid |-> NoNet,
   pending |-> NoTarget, after |-> "Idle", afterError |-> "other", error |-> "other",
   blocked |-> FALSE, leaveFailed |-> FALSE, generation |-> 0,
   scanGen |-> 0, found |-> {}, ntpGen |-> 0, server |-> 0, ntpDone |-> FALSE, ntpOk |-> FALSE]

(* link: "down", "joining", "noip", "up", or "bad", a negative status.     *)
(* scan: the cookie of the physical scan; dns: of the look-ups under way.  *)
RadioOff ==
  [link |-> "down", at |-> NoTarget, leaving |-> FALSE, dhcp |-> FALSE,
   scan |-> 0, dns |-> {}]

Active(n) ==
  n.state \in {"Scanning", "DrainingScan", "Disassociating", "Associating",
               "WaitingForIp", "SyncingTime"}

LinkDown(w) == w.r.link = "down"
Connected(w) == w.n.on /\ w.n.ssid # NoNet /\ w.r.link = "up"
CurrentSsid(w) == IF Connected(w) THEN w.n.ssid ELSE NoNet

RadioReady(w) ==
  /\ w.n.on /\ ~w.n.blocked /\ w.n.state # "Disassociating"
  /\ w.n.ssid # NoNet \/ LinkDown(w)

CanStart(w) == RadioReady(w) /\ ~Active(w.n) /\ w.r.scan = 0

(* Wrong: a callback is taken for one of the operation under way.          *)
MatchesAny(arg, value) == TRUE

Matches(arg, value) == arg = value

-----------------------------------------------------------------------------
(* clear_station_ip_locked: the lease goes, and with it the address.       *)
ClearStationIp(w) ==
  [w EXCEPT !.r.dhcp = FALSE, !.r.link = IF @ = "up" THEN "noip" ELSE @]

(* begin_settle_locked: leave once, and wait for the link to go down.      *)
BeginSettle(w, result, error, c) ==
  LET cleared == ClearStationIp(w)
      left == [cleared EXCEPT !.n.after = result, !.n.afterError = error, !.n.ssid = NoNet,
                              !.n.blocked = TRUE, !.n.leaveFailed = ~c.leaveOk,
                              !.n.error = "other"]
  IN  IF c.leaveOk
      THEN [left EXCEPT !.n.state = "Disassociating", !.r.leaving = ~LinkDown(w)]
      ELSE [left EXCEPT !.n.state = "Failed", !.n.pending = NoTarget]

(* join_locked: the name of the network there was is kept if DHCP does not *)
(* start, and nothing is left then; a refused join is left.                *)
Join(w, target, c) ==
  LET cleared == ClearStationIp(w)
  IN  CASE c.start = "noDhcp" -> [cleared EXCEPT !.n.state = "Failed", !.n.error = "other"]
        [] c.start = "refused" -> BeginSettle(cleared, "Failed", "other", c)
        [] c.start = "ok" ->
             [cleared EXCEPT
                !.n.ssid = target.ssid, !.n.state = "Associating", !.n.error = "other",
                !.r.dhcp = TRUE, !.r.link = "joining", !.r.at = target]

(* init: wireless::init may fail.                                          *)
NetInit(w, ok, c) ==
  IF w.n.on \/ ~ok THEN w
  ELSE LET up == [ClearStationIp(w) EXCEPT
                    !.n.on = TRUE, !.n.state = "Idle", !.n.kind = "None",
                    !.n.pending = NoTarget]
       IN  IF w.n.blocked /\ ~w.n.leaveFailed /\ ~LinkDown(w)
           THEN [up EXCEPT !.n.after = "Idle", !.n.state = "Disassociating"]
           ELSE IF w.n.leaveFailed \/ ~LinkDown(w) THEN BeginSettle(up, "Idle", "other", c)
           ELSE [up EXCEPT !.n.blocked = FALSE]

NtpCleanup(w) == [w EXCEPT !.n.ntpGen = 0, !.n.server = 0]
ScanForgotten(w) == [w EXCEPT !.n.scanGen = 0, !.n.found = {}]

(* Wrong: a connection that waits for the old one to end is not cancelled. *)
CancelKeepsPending(w, c) ==
  CASE w.n.state \in {"Scanning", "DrainingScan"} ->
         [ScanForgotten(w) EXCEPT !.n.state = "Cancelled"]
    [] w.n.state \in {"Associating", "WaitingForIp"} ->
         BeginSettle([w EXCEPT !.n.pending = NoTarget], "Cancelled", "other", c)
    [] w.n.state = "Disassociating" -> [w EXCEPT !.n.after = "Cancelled"]
    [] w.n.state = "SyncingTime" -> [NtpCleanup(w) EXCEPT !.n.state = "Cancelled"]
    [] OTHER -> w

(* operation_cancel                                                        *)
Cancel(w, c) ==
  CASE w.n.state \in {"Scanning", "DrainingScan"} ->
         [ScanForgotten(w) EXCEPT !.n.state = "Cancelled"]
    [] w.n.state \in {"Associating", "WaitingForIp"} ->
         BeginSettle([w EXCEPT !.n.pending = NoTarget], "Cancelled", "other", c)
    [] w.n.state = "Disassociating" ->
         [w EXCEPT !.n.after = "Cancelled", !.n.pending = NoTarget]
    [] w.n.state = "SyncingTime" -> [NtpCleanup(w) EXCEPT !.n.state = "Cancelled"]
    [] OTHER -> w

(* shutdown: the radio is asked to leave once, and the latch of the leave  *)
(* is kept for init.                                                       *)
Shutdown(w, c) ==
  LET quiet == ScanForgotten(NtpCleanup(w))
      mustLeave == /\ w.n.state # "Disassociating" \/ w.n.leaveFailed
                   /\ ~LinkDown(w) \/ w.n.leaveFailed
      left == IF mustLeave THEN BeginSettle(quiet, "Idle", "other", c) ELSE quiet
  IN  IF ~w.n.on THEN w
      ELSE [left EXCEPT !.n.ssid = NoNet, !.n.pending = NoTarget, !.n.state = "Idle",
                        !.n.kind = "None", !.n.on = FALSE]

(* disconnect                                                              *)
Disconnect(w, c) ==
  LET quiet == [ScanForgotten(NtpCleanup(w)) EXCEPT
                  !.n.pending = NoTarget, !.n.kind = "None"]
  IN  IF ~w.n.on THEN w
      ELSE IF w.n.state = "Disassociating" THEN [quiet EXCEPT !.n.after = "Idle"]
      ELSE IF w.n.blocked THEN quiet
      ELSE IF LinkDown(w) THEN [quiet EXCEPT !.n.ssid = NoNet, !.n.state = "Idle"]
      ELSE BeginSettle(quiet, "Idle", "other", c)

-----------------------------------------------------------------------------
(* The starts: each gives the world after it; it was started if the        *)
(* operation it is to begin is under way.                                  *)

(* next_generation                                                         *)
NextGeneration(w) == [w EXCEPT !.n.generation = @ + 1]

ScanCycle(w, c) ==
  IF c.start = "ok" THEN [w EXCEPT !.r.scan = w.n.scanGen]
  ELSE [w EXCEPT !.n.scanGen = 0, !.n.state = "Failed"]

ScanStart(w, c) ==
  LET fresh == NextGeneration(w)
  IN  IF ~CanStart(w) THEN w
      ELSE ScanCycle([fresh EXCEPT !.n.found = {}, !.n.scanGen = fresh.n.generation,
                                   !.n.kind = "Scan", !.n.state = "Scanning"], c)

ScanStarted(before, after) == CanStart(before) /\ after.n.state = "Scanning"

ConnectStart(w, target, c) ==
  IF ~CanStart(w) THEN w
  ELSE IF LinkDown(w) THEN Join([w EXCEPT !.n.kind = "Connect"], target, c)
  ELSE BeginSettle([w EXCEPT !.n.kind = "Connect", !.n.pending = target], "Associating",
                   "other", c)

(* A join that was refused is being undone, one without DHCP has failed:   *)
(* neither is a start.                                                     *)
ConnectStarted(before, after) ==
  /\ CanStart(before)
  /\ after.n.state = IF LinkDown(before) THEN "Associating" ELSE "Disassociating"

(* ntp_start: a socket, and a look-up that answers later.                  *)
NtpStart(w, c) ==
  LET fresh == NextGeneration(w)
  IN  IF ~CanStart(w) \/ ~Connected(w) THEN w
      ELSE IF c.start # "ok"
      THEN [w EXCEPT !.n.state = "Failed", !.n.server = 0, !.n.ntpDone = FALSE]
      ELSE [fresh EXCEPT !.n.ntpDone = FALSE, !.n.ntpOk = FALSE, !.n.server = 0,
              !.n.ntpGen = fresh.n.generation, !.n.kind = "Ntp", !.n.state = "SyncingTime",
              !.r.dns = @ \cup {fresh.n.generation}]

NtpStarted(before, after) ==
  CanStart(before) /\ Connected(before) /\ after.n.state = "SyncingTime"

-----------------------------------------------------------------------------
(* operation_poll                                                          *)
PollSettling(w, c) ==
  CASE LinkDown(w) /\ w.n.pending # NoTarget ->
         [Join([w EXCEPT !.n.blocked = FALSE], w.n.pending, c) EXCEPT !.n.pending = NoTarget]
    [] LinkDown(w) /\ w.n.pending = NoTarget ->
         [w EXCEPT !.n.blocked = FALSE, !.n.state = w.n.after, !.n.error = w.n.afterError]
    [] ~LinkDown(w) /\ c.late ->
         [w EXCEPT !.n.pending = NoTarget, !.n.state = "Failed", !.n.error = "other"]
    [] OTHER -> w

PollScan(w, c) ==
  CASE c.late /\ w.r.scan # 0 -> [w EXCEPT !.n.scanGen = 0, !.n.state = "DrainingScan"]
    [] c.late /\ w.r.scan = 0 -> [w EXCEPT !.n.scanGen = 0, !.n.state = "Succeeded"]
    [] ~c.late /\ w.r.scan = 0 -> ScanCycle(w, c)
    [] OTHER -> w

PollDraining(w, c) ==
  CASE w.r.scan = 0 -> [w EXCEPT !.n.state = "Succeeded"]
    [] w.r.scan # 0 /\ c.late -> [w EXCEPT !.n.state = "Failed"]
    [] OTHER -> w

(* Wrong: only a negative status ends an attempt.                          *)
PollJoiningPatient(w, c) ==
  CASE w.r.link = "up" -> [w EXCEPT !.n.state = "Succeeded"]
    [] w.r.link = "bad" -> BeginSettle(w, "Failed", "association", c)
    [] OTHER -> w

PollJoining(w, c) ==
  CASE w.r.link = "up" -> [w EXCEPT !.n.state = "Succeeded"]
    [] w.r.link = "bad" \/ (w.r.link # "up" /\ c.late) ->
         BeginSettle(w, "Failed",
                     IF w.r.link # "bad" /\ w.n.state = "WaitingForIp"
                     THEN "other" ELSE "association", c)
    [] w.r.link = "noip" /\ w.n.state = "Associating" /\ ~c.late ->
         [w EXCEPT !.n.state = "WaitingForIp"]
    [] OTHER -> w

PollNtp(w, c) ==
  IF w.n.ntpDone \/ c.late
  THEN [NtpCleanup(w) EXCEPT
          !.n.state = IF w.n.ntpDone /\ w.n.ntpOk THEN "Succeeded" ELSE "Failed"]
  ELSE w

Polled(w, c) ==
  LET freed == [w EXCEPT !.n.blocked =
                  @ /\ ~(~w.n.leaveFailed /\ w.n.state # "Disassociating" /\ LinkDown(w))]
      unowned == /\ ~freed.n.blocked /\ w.n.ssid = NoNet /\ ~LinkDown(w)
                 /\ ~Active(w.n)
  IN  CASE ~w.n.on -> w
        [] w.n.on /\ unowned -> BeginSettle(freed, "Idle", "other", c)
        [] w.n.on /\ ~unowned /\ w.n.state = "Disassociating" -> PollSettling(freed, c)
        [] w.n.on /\ ~unowned /\ w.n.state = "Scanning" -> PollScan(freed, c)
        [] w.n.on /\ ~unowned /\ w.n.state = "DrainingScan" -> PollDraining(freed, c)
        [] w.n.on /\ ~unowned /\ w.n.state \in {"Associating", "WaitingForIp"} ->
             PollJoining(freed, c)
        [] w.n.on /\ ~unowned /\ w.n.state = "SyncingTime" -> PollNtp(freed, c)
        [] OTHER -> freed

-----------------------------------------------------------------------------
(* What the radio, the driver and lwIP do in the background.               *)

(* The attempt goes on; with the wrong password it never gets an address.  *)
LinkMoves(w) ==
  CASE w.r.link = "joining" ->
         {[w EXCEPT !.r.link = "bad"]}
           \cup (IF w.r.at.password = "right" THEN {[w EXCEPT !.r.link = "noip"]} ELSE {})
    [] w.r.link = "noip" /\ w.r.dhcp /\ ~w.r.leaving -> {[w EXCEPT !.r.link = "up"]}
    [] OTHER -> {}

(* The disassociation that answers a leave.                                *)
LinkLeaves(w) == IF w.r.leaving THEN {[w EXCEPT !.r.link = "down", !.r.leaving = FALSE]} ELSE {}

(* The access point goes, or a driver retry brings the last one back.      *)
LinkDrops(w) == IF w.r.link = "up" THEN {[w EXCEPT !.r.link = "down"]} ELSE {}
LinkRetries(w) ==
  IF w.r.link = "down" /\ w.r.at # NoTarget THEN {[w EXCEPT !.r.link = "joining"]} ELSE {}

(* scan_callback, and the end of a physical scan.                          *)
ScanHears(w) ==
  IF w.r.scan = 0 THEN {}
  ELSE {IF w.n.state = "Scanning" /\ Matches(w.r.scan, w.n.scanGen)
        THEN [w EXCEPT !.n.found = @ \cup {s}] ELSE w : s \in SSIDs}

ScanEnds(w) == IF w.r.scan = 0 THEN {} ELSE {[w EXCEPT !.r.scan = 0]}

(* ntp_dns_callback: an address, which is then asked, or none.             *)
DnsAnswers(w) ==
  UNION {LET answered == [w EXCEPT !.r.dns = @ \ {g}]
         IN  IF w.n.state = "SyncingTime" /\ Matches(g, w.n.ntpGen)
             THEN {[answered EXCEPT !.n.server = g],
                   [answered EXCEPT !.n.ntpDone = TRUE, !.n.ntpOk = FALSE]}
             ELSE {answered} : g \in w.r.dns}

(* ntp_receive_callback                                                    *)
NtpAnswers(w) ==
  IF w.n.state = "SyncingTime" /\ w.n.server # 0
  THEN {[w EXCEPT !.n.ntpDone = TRUE, !.n.ntpOk = ok] : ok \in BOOLEAN} ELSE {}
=============================================================================
