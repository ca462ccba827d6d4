------------------------------ MODULE HttpServer ------------------------------
(***************************************************************************)
(* The HTTP file server (file_server.cpp, http_file_server_core.cpp): one  *)
(* client at a time, polled by the main loop, holding the storage lock     *)
(* for a listing, a download or an upload.  Its callbacks run in the       *)
(* background context of lwIP, between any two steps of the loop: a        *)
(* connection may fail and another one be accepted before the loop has     *)
(* looked.                                                                 *)
(*                                                                         *)
(* The server is a record.  A request is what parse_request makes of it;   *)
(* bodies, files and listings are counted in pieces.                       *)
(***************************************************************************)
EXTENDS Naturals, Sequences

CONSTANTS
  Peers,         \* clients, each with one connection
  MaxBody        \* pieces of the longest body

ASSUME BodyAssumption == MaxBody \in Nat

VARIABLES
  http,          \* State server
  httpPc,        \* the main loop: "rest", or "drive" inside file_server_poll
  sdLock,        \* storage_locked: free, or who holds it
  root,          \* external: the file in the root: "gone", "whole", or
                 \* "mixed" of what several clients sent
  peers          \* external: the clients

httpVars == <<http, httpPc, sdLock, root, peers>>

NoPeer == "nobody"

(* "answered": whatever is answered without the card, the index and every  *)
(* refusal of parse_request and of program_files.                          *)
Requests ==
  [kind : {"answered", "list", "get", "delete"}, length : {0}]
    \cup [kind : {"put"}, length : 0..MaxBody]

NoRequest == [kind |-> "answered", length |-> 0, from |-> NoPeer]

ServerAtRest ==
  [running |-> FALSE, client |-> NoPeer, silent |-> FALSE, incoming |-> <<>>,
   peerClosed |-> FALSE, connError |-> FALSE, held |-> FALSE,
   op |-> "Headers", begun |-> FALSE, request |-> NoRequest,
   header |-> FALSE, body |-> FALSE, io |-> FALSE,
   directory |-> FALSE, download |-> FALSE, upload |-> FALSE,
   left |-> 0, received |-> 0, mixed |-> FALSE]

PeerAtRest == [st |-> "new", request |-> NoRequest, sent |-> 0]
PeerGone == [PeerAtRest EXCEPT !.st = "gone"]

HttpInit ==
  /\ http = ServerAtRest
  /\ httpPc = "rest" /\ sdLock = "free" /\ root = "whole"
  /\ peers = [p \in Peers |-> PeerAtRest]

-----------------------------------------------------------------------------
(* The poll works on a world: the server, the lock and the root.           *)
World(s) == [s |-> s, lock |-> sdLock, root |-> root]

ReleaseStorage(w) ==
  IF w.s.held THEN [w EXCEPT !.lock = "free", !.s.held = FALSE] ELSE w

(* Wrong: a transaction that ends early leaves the lock.                   *)
CleanupKeepsLock(w) ==
  [w EXCEPT !.s =
     [@ EXCEPT !.download = FALSE, !.directory = FALSE, !.upload = FALSE,
               !.op = "Headers", !.begun = FALSE, !.header = FALSE, !.body = FALSE,
               !.io = FALSE, !.received = 0, !.left = 0, !.mixed = FALSE,
               !.request = NoRequest]]

(* cleanup_transaction: an upload that is not committed is aborted.  The   *)
(* request is forgotten with what is begun for it: nothing reads it again. *)
Cleanup(w) ==
  [ReleaseStorage(w) EXCEPT !.s =
     [@ EXCEPT !.download = FALSE, !.directory = FALSE, !.upload = FALSE,
               !.op = "Headers", !.begun = FALSE, !.header = FALSE, !.body = FALSE,
               !.io = FALSE, !.received = 0, !.left = 0, !.mixed = FALSE,
               !.request = NoRequest]]

PrepareStatic(w) == [w EXCEPT !.s.header = TRUE, !.s.body = TRUE, !.s.op = "Static"]

PrepareError(w) == PrepareStatic(Cleanup(w))

(* take_storage, by way of storage::init and storage::try_lock.            *)
TakeStorage(w, sdOk) ==
  IF ~sdOk THEN PrepareError(w)
  ELSE IF w.lock # "free" THEN PrepareError(w)
  ELSE [w EXCEPT !.lock = "http", !.s.held = TRUE]

(* commit() of the upload, and the answer to it.                           *)
CommitUpload(w, sdOk) ==
  IF ~sdOk THEN PrepareError(w)
  ELSE PrepareStatic(ReleaseStorage([w EXCEPT !.root = IF w.s.mixed THEN "mixed" ELSE "whole",
                                                 !.s.upload = FALSE]))

(* begin_request for a request that was parsed; sdOk: the card does what   *)
(* is asked of it.                                                         *)
Begin(w, sdOk) ==
  LET req == w.s.request
      taken == TakeStorage(w, sdOk)
      got == taken.s.held /\ ~w.s.held
      opened == [taken EXCEPT !.s.upload = TRUE, !.s.op = "Upload"]
      missing == got /\ req.kind \in {"delete", "get"} /\ w.root = "gone"
  IN  CASE req.kind = "answered" -> PrepareError(w)
        [] req.kind # "answered" /\ ~got -> taken
        [] missing -> PrepareError(taken)
        [] req.kind = "list" /\ got ->
             [taken EXCEPT !.s.directory = TRUE, !.s.op = "List", !.s.left = 2, !.s.header = TRUE]
        [] req.kind = "put" /\ got ->
             IF req.length = 0 THEN CommitUpload(opened, sdOk) ELSE opened
        [] req.kind = "delete" /\ got /\ ~missing ->
             PrepareStatic(ReleaseStorage([taken EXCEPT !.root = "gone"]))
        [] req.kind = "get" /\ got /\ ~missing ->
             [taken EXCEPT !.s.download = TRUE, !.s.op = "Download", !.s.left = 1,
                           !.s.header = TRUE]

(* consume: one unit of what came in.  Bytes that are not the start of a   *)
(* request spoil the one that follows them.                                *)
Consumed(w, unit, sdOk) ==
  CASE w.s.op = "Headers" /\ unit.what = "head" ->
         Begin([w EXCEPT !.s.request = [unit.request EXCEPT
                                         !.kind = IF w.s.begun THEN "answered" ELSE @]], sdOk)
    [] w.s.op = "Headers" /\ unit.what = "body" -> [w EXCEPT !.s.begun = TRUE]
    [] w.s.op = "Upload" ->
         LET more == [w EXCEPT !.s.received = @ + 1, !.s.mixed = @
                        \/ unit.what = "head" \/ unit.request.from # w.s.request.from]
         IN  IF w.s.received >= w.s.request.length \/ ~sdOk THEN PrepareError(w)
             ELSE IF more.s.received = w.s.request.length THEN CommitUpload(more, sdOk)
             ELSE more
    [] OTHER -> w

ConsumedAll(w, units, sdOk) ==
  LET after[n \in 0..Len(units)] ==
        IF n = 0 THEN w ELSE Consumed(after[n - 1], units[n], sdOk)
  IN  after[Len(units)]

Waiting(s) == s.op \in {"Headers", "Upload"}

(* Wrong: 30 seconds are given to the head of a request only.              *)
GivesUpHeaders(s) == s.client # NoPeer /\ s.silent /\ s.op = "Headers"

(* 30 seconds without a packet: 408.                                       *)
GivesUp(s) == s.client # NoPeer /\ s.silent /\ Waiting(s)

(* The first half of file_server_poll: what the callbacks left is taken    *)
(* under the lock of lwIP and consumed, then the two ways of giving up.    *)
Attended(w, sdOk) ==
  LET taken == [w EXCEPT !.s.incoming = <<>>, !.s.connError = FALSE]
      read == IF w.s.connError THEN Cleanup(taken)
              ELSE ConsumedAll(taken, w.s.incoming, sdOk)
      timed == IF GivesUp(read.s) THEN PrepareError(read) ELSE read
  IN  IF timed.s.peerClosed /\ Waiting(timed.s) THEN PrepareError(timed) ELSE timed

(* close_client                                                            *)
CloseClient(w) == [Cleanup(w) EXCEPT !.s.client = NoPeer]

(* drive_output: the header, the piece in io, then what the operation is   *)
(* at, each if the send buffer has room for it.                            *)
Driven(w, room, sdOk) ==
  LET flushed == [w EXCEPT !.s.header = FALSE, !.s.io = FALSE]
  IN  IF w.s.client = NoPeer \/ Waiting(w.s) THEN w
      ELSE IF room = 0 THEN w
      ELSE IF room = 1 /\ (w.s.header \/ w.s.io) THEN [w EXCEPT !.s.header = FALSE, !.s.io = @ /\ w.s.header]
      ELSE CASE w.s.op = "Static" -> CloseClient(flushed)
             [] w.s.op = "List" /\ w.s.left > 1 ->
                  [flushed EXCEPT !.s.io = TRUE, !.s.left = @ - 1]
             [] w.s.op = "List" /\ w.s.left <= 1 ->
                  ReleaseStorage([flushed EXCEPT !.s.io = TRUE, !.s.directory = FALSE,
                                                 !.s.op = "Static", !.s.body = FALSE])
             [] w.s.op = "Download" /\ w.s.left = 0 -> CloseClient(flushed)
             [] w.s.op = "Download" /\ w.s.left > 0 ->
                  IF ~sdOk THEN PrepareError(flushed)
                  ELSE [flushed EXCEPT !.s.left = @ - 1, !.s.io = TRUE]

-----------------------------------------------------------------------------
Apply(world) ==
  \E w \in {world} :
    /\ http' = w.s
    /\ sdLock' = w.lock
    /\ root' = w.root
    /\ peers' = [p \in Peers |-> IF p = http.client /\ w.s.client = NoPeer
                                  THEN PeerGone ELSE peers[p]]

(* file_server_start: a random token, a listener.                          *)
ServerStart ==
  /\ httpPc = "rest" /\ ~http.running
  /\ Apply([Cleanup(World(http)) EXCEPT !.s.running = TRUE])
  /\ UNCHANGED httpPc

Stopped(w) ==
  Cleanup([w EXCEPT !.s.client = NoPeer, !.s.incoming = <<>>, !.s.running = FALSE])

StopServer == Apply(Stopped(World(http)))

(* file_server_stop, from the menu, before USB takes the card, or before   *)
(* the Wi-Fi link is changed.                                              *)
ServerStop ==
  /\ httpPc = "rest" /\ http.running
  /\ StopServer
  /\ UNCHANGED httpPc

ServerPolls(sdOk) ==
  /\ httpPc = "rest" /\ http.running
  /\ httpPc' = "drive"
  /\ Apply(Attended(World(http), sdOk))

(* The poll finds that the Wi-Fi link is gone.                             *)
ServerOffline ==
  /\ httpPc = "rest" /\ http.running
  /\ StopServer
  /\ UNCHANGED httpPc

ServerDrives(room, sdOk) ==
  /\ httpPc = "drive"
  /\ httpPc' = "rest"
  /\ Apply(Driven(World(http), room, sdOk))

-----------------------------------------------------------------------------
(* The callbacks, and the clients behind them.                             *)

(* accepted: a second client is told 503; the first one is forgotten, with *)
(* whatever its failure left to do, as soon as it is no longer there.      *)
Accepted(p, request) ==
  /\ http.running /\ peers[p].st = "new"
  /\ IF http.client # NoPeer
     THEN /\ peers' = [peers EXCEPT ![p] = PeerGone]
          /\ UNCHANGED http
     ELSE /\ peers' = [peers EXCEPT ![p].st = "open",
               ![p].request = [kind |-> request.kind, length |-> request.length, from |-> p]]
          /\ http' = [http EXCEPT !.client = p, !.peerClosed = FALSE, !.connError = FALSE,
                                  !.silent = FALSE, !.op = "Headers", !.begun = FALSE]
  /\ UNCHANGED <<httpPc, sdLock, root>>

(* received: the head of the request, then pieces of a body, which may be  *)
(* longer or shorter than it says.                                         *)
Received(p) ==
  /\ peers[p].st = "open" /\ http.client = p
  /\ peers[p].sent < (IF peers[p].request.kind = "put" THEN peers[p].request.length + 2 ELSE 1)
  /\ peers' = [peers EXCEPT ![p].sent = @ + 1]
  /\ http' = [http EXCEPT !.silent = FALSE, !.incoming = Append(@,
       [what |-> IF peers[p].sent = 0 THEN "head" ELSE "body",
        request |-> peers[p].request])]
  /\ UNCHANGED <<httpPc, sdLock, root>>

(* received(NULL): the client has nothing more to send.                    *)
PeerCloses(p) ==
  /\ peers[p].st = "open" /\ http.client = p /\ ~http.peerClosed
  /\ http' = [http EXCEPT !.peerClosed = TRUE]
  /\ UNCHANGED <<httpPc, sdLock, root, peers>>

(* connection_failed                                                       *)
PeerFails(p) ==
  /\ peers[p].st = "open" /\ http.client = p
  /\ http' = [http EXCEPT !.client = NoPeer, !.connError = TRUE]
  /\ peers' = [peers EXCEPT ![p] = PeerGone]
  /\ UNCHANGED <<httpPc, sdLock, root>>

(* 30 seconds have passed since the last packet.                           *)
FallsSilent ==
  /\ http.client # NoPeer /\ ~http.silent
  /\ http' = [http EXCEPT !.silent = TRUE]
  /\ UNCHANGED <<httpPc, sdLock, root, peers>>

(* A serial transfer holds the lock while the main loop goes on.           *)
OtherLocks ==
  /\ httpPc = "rest" /\ sdLock = "free"
  /\ sdLock' = "other"
  /\ UNCHANGED <<http, httpPc, root, peers>>

OtherUnlocks ==
  /\ sdLock = "other"
  /\ sdLock' = "free"
  /\ UNCHANGED <<http, httpPc, root, peers>>

HttpPolls == \E sdOk \in BOOLEAN : ServerPolls(sdOk)
Drives == \E room \in 0..2, sdOk \in BOOLEAN : ServerDrives(room, sdOk)

HttpNext ==
  \/ ServerStart \/ ServerStop \/ ServerOffline
  \/ HttpPolls \/ Drives \/ FallsSilent
  \/ \E p \in Peers, request \in Requests : Accepted(p, request)
  \/ \E p \in Peers : Received(p) \/ PeerCloses(p) \/ PeerFails(p)
  \/ OtherLocks \/ OtherUnlocks

(* The main loop polls for ever, and time passes.  Nothing is asked of the *)
(* clients.  A poll is told by its pc: it is enabled as HttpPolls and      *)
(* Drives are, which can always be taken.                                  *)
PollBegins == httpPc = "rest" /\ http.running /\ httpPc' = "drive"
PollEnds == httpPc = "drive" /\ httpPc' = "rest"

HttpFairness == WF_httpPc(PollBegins) /\ WF_httpPc(PollEnds) /\ WF_httpVars(FallsSilent)

HttpSpec == HttpInit /\ [][HttpNext]_httpVars /\ HttpFairness

-----------------------------------------------------------------------------
(* The lock is the server's exactly while it has a directory, a download   *)
(* or an upload open: whichever way a transaction ends, and whoever is     *)
(* accepted before the loop has noticed (file_server.cpp:100-112).         *)
LockFollowsFiles ==
  /\ http.held <=> sdLock = "http"
  /\ http.held <=> http.directory \/ http.download \/ http.upload

(* An upload whose client is there does not keep the card for ever: the    *)
(* client falls silent, fails, stops short or is overtaken, or the link    *)
(* goes, and the upload is committed or given up (file_server.cpp:455).    *)
(* Not so one begun by what a client sent that was already hung up: it     *)
(* waits for the next client.                                              *)
UploadsEnd == http.upload /\ http.client # NoPeer ~> ~http.upload

(* A file that came by HTTP is the whole of one upload of one client,      *)
(* whatever clients fail, stop short, send too much or are hung up.  What  *)
(* came in for a client that was hung up stays in incoming, and so does    *)
(* the upload of one that failed, when the next is accepted.               *)
WholeUploads == root # "mixed"
=============================================================================
