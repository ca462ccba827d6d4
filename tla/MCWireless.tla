------------------------------ MODULE MCWireless ------------------------------
(* Wi-Fi in one run, in two parts: the station under its menus, and the    *)
(* HTTP server on a link that may go at any time.                          *)
EXTENDS WifiMenus, HttpServer

VARIABLE part

(* The names of networks are interchangeable: one comes first in the list. *)
FirstName == CHOOSE s \in SSIDs : TRUE
NamedInOrder ==
  \A s \in SlotNumbers :
    \/ profiles[s].ssid \in {NoNet, FirstName}
    \/ \E t \in SlotNumbers : t < s /\ profiles[t].ssid = FirstName

(* The list has no gaps, and none of its networks is disabled: the menus   *)
(* make the other lists of these.                                          *)
FilledInOrder ==
  \A s \in SlotNumbers : profiles[s].used =>
    profiles[s].enabled /\ \A t \in SlotNumbers : t < s => profiles[t].used

(* So are the clients: one comes first.                                    *)
FirstPeer == CHOOSE p \in Peers : TRUE
AcceptedInOrder ==
  (\E p \in Peers : peers[p].st # "new") => peers[FirstPeer].st # "new"

MCWirelessInit ==
  /\ part \in {"station", "server"}
  /\ WifiInit /\ NamedInOrder /\ FilledInOrder
  /\ HttpInit

StationPart == part = "station" /\ UNCHANGED <<httpVars, part>>
ServerPart ==
  /\ part = "server" /\ UNCHANGED <<wifiVars, part>>
  /\ \A s \in SlotNumbers : ~profiles[s].used

MCWirelessNext ==
  \/ StationPart /\ WifiNext
  \/ ServerPart /\ HttpNext /\ AcceptedInOrder'

(* The fairness of WifiMenus and of HttpServer.                            *)
MCWirelessSpec ==
  /\ MCWirelessInit /\ [][MCWirelessNext]_<<wifiVars, httpVars, part>>
  /\ SF_wifiVars(StationPart /\ PollsLate)
  /\ WF_httpPc(ServerPart /\ PollBegins)
  /\ WF_httpPc(ServerPart /\ PollEnds)
  /\ WF_httpVars(ServerPart /\ FallsSilent)
=============================================================================
