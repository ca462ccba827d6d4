------------------------------- MODULE YModem -------------------------------
(***************************************************************************)
(* YMODEM (src/core/ymodem.cpp).  Block 0 carries the name and the size of *)
(* a file; EOT is answered by NAK and, the second time or when the line    *)
(* stays quiet for a moment, by ACK and 'C'; an empty block 0 ends the     *)
(* batch.  receive() takes batches; send() offers one file, and the peers  *)
(* of receive() that offer several, or that send EOT only once, are        *)
(* external and otherwise do what send() does.                             *)
(***************************************************************************)
EXTENDS SerialLine

-----------------------------------------------------------------------------
(* send()                                                                  *)

AnyByte == {"C", "ACK", "NAK", "CAN", "junk", "timeout"}

(* transmit(): the packet again until it is acknowledged.                  *)
YSends(s, item, queue, n) ==
    /\ snd' = [s EXCEPT !.tries = 1]
    /\ ToReceiver(queue, <<item>>, n)

YAcked(pc) ==
    /\ proto = "ymodem" /\ snd.pc = pc
    /\ SenderReads("ACK")
    /\ UNCHANGED <<setting, rcv, target, saved>>

YNotAcked(pc, item) ==
    /\ proto = "ymodem" /\ snd.pc = pc
    /\ \E c \in AnyByte \ {"ACK"} :
        /\ SenderReads(c)
        /\ IF c = "CAN" THEN SenderFails("Cancelled")
           ELSE IF snd.tries >= Retries THEN SenderFails("Gave up")
           ELSE /\ snd' = [snd EXCEPT !.tries = @ + 1]
                /\ toSend' = AfterSenderReads
                /\ ToReceiver(toRecv, <<item>>, FaultsAfter(c = "timeout"))
    /\ UNCHANGED <<setting, rcv, target, saved>>

(* A read that has to bring 'C'.                                           *)
YAsked(pc) ==
    /\ proto = "ymodem" /\ snd.pc = pc
    /\ SenderReads("C")
    /\ UNCHANGED <<setting, rcv, target, saved>>

YNotAsked(pc) ==
    /\ proto = "ymodem" /\ snd.pc = pc
    /\ \E c \in AnyByte \ {"C"} :
        SenderReads(c) /\ SenderFails(IF c = "CAN" THEN "Cancelled" ELSE "Gave up")
    /\ UNCHANGED <<setting, rcv, target, saved>>

YSendStart ==
    /\ proto = "ymodem" /\ snd.pc = "start"
    /\ \E c \in AnyByte :
        /\ SenderReads(c)
        /\ \/ /\ c = "C"
              /\ YSends([snd EXCEPT !.pc = "header"], Header(1), toRecv, faults)
              /\ toSend' = AfterSenderReads
           \/ c = "CAN" /\ SenderFails("Cancelled")
           \/ /\ c \notin {"C", "CAN"}
              /\ IF snd.tries + 1 >= StartRetries THEN SenderFails("Gave up")
                 ELSE /\ snd' = [snd EXCEPT !.tries = @ + 1]
                      /\ toSend' = AfterSenderReads
                      /\ faults' = FaultsAfter(c = "timeout")
                      /\ UNCHANGED toRecv
    /\ UNCHANGED <<setting, rcv, target, saved>>

YSendHeader ==
    \/ YNotAcked("header", Header(snd.f))
    \/ /\ YAcked("header")
       /\ snd' = [snd EXCEPT !.pc = "request"]
       /\ toSend' = AfterSenderReads
       /\ UNCHANGED <<toRecv, faults>>

(* The next block of file f, or EOT behind the last.                       *)
YOffer(s) ==
    /\ IF s.pos < batch[s.f]
       THEN YSends([s EXCEPT !.pc = "data"], Data(s.seq, s.f, s.pos), toRecv, faults)
       ELSE YSends([s EXCEPT !.pc = "eot"], Byte("EOT"), toRecv, faults)
    /\ toSend' = AfterSenderReads

(* source() may fail or come up short of the size that was announced.      *)
YSourceFails(s) == s.pos < batch[s.f] /\ faults > 0 /\ SenderFails("Card")

YSendRequested ==
    \/ YNotAsked("request")
    \/ /\ YAsked("request")
       /\ LET first == [snd EXCEPT !.seq = NextSeq(0), !.pos = 0] IN
          YOffer(first) \/ YSourceFails(first)

YSendBlock ==
    \/ YNotAcked("data", Data(snd.seq, snd.f, snd.pos))
    \/ /\ YAcked("data")
       /\ LET next == [snd EXCEPT !.seq = NextSeq(@), !.pos = @ + BlockSize] IN
          YOffer(next) \/ YSourceFails(next)

(* EOT until it is acknowledged; the answer to a NAK is one more EOT whose *)
(* own answer is read at once.                                             *)
YSendEot ==
    /\ proto = "ymodem" /\ snd.pc \in {"eot", "eot again"}
    /\ \E c \in AnyByte :
        /\ SenderReads(c)
        /\ \/ /\ c = "ACK"
              /\ snd' = [snd EXCEPT !.pc = "next"]
              /\ toSend' = AfterSenderReads
              /\ UNCHANGED <<toRecv, faults>>
           \/ c = "CAN" /\ SenderFails("Cancelled")
           \/ /\ c = "NAK" /\ snd.pc = "eot"
              /\ snd' = [snd EXCEPT !.pc = "eot again"]
              /\ toSend' = AfterSenderReads
              /\ IF oneEot THEN UNCHANGED <<toRecv, faults>>
                 ELSE ToReceiver(toRecv, <<Byte("EOT")>>, faults)
           \/ /\ c \notin {"ACK", "CAN"} /\ (c # "NAK" \/ snd.pc # "eot")
              /\ IF snd.tries >= Retries THEN SenderFails("Gave up")
                 ELSE /\ snd' = [snd EXCEPT !.pc = "eot", !.tries = @ + 1]
                      /\ toSend' = AfterSenderReads
                      /\ ToReceiver(toRecv, <<Byte("EOT")>>, FaultsAfter(c = "timeout"))
    /\ UNCHANGED <<setting, rcv, target, saved>>

(* Behind the last file the empty block 0, else the next file's.           *)
YSendNext ==
    \/ YNotAsked("next")
    \/ /\ YAsked("next")
       /\ toSend' = AfterSenderReads
       /\ IF snd.f < Len(batch)
          THEN YSends([snd EXCEPT !.pc = "header", !.f = @ + 1, !.pos = 0],
                      Header(snd.f + 1), toRecv, faults)
          ELSE YSends([snd EXCEPT !.pc = "last"], Header(0), toRecv, faults)

YSendLast ==
    \/ YNotAcked("last", Header(0))
    \/ YAcked("last") /\ SenderStops("None", toRecv)

-----------------------------------------------------------------------------
(* receive()                                                               *)

YAnswer(r, queue, bytes, timedOut) ==
    /\ rcv' = r
    /\ toRecv' = queue
    /\ ToSender(toSend, bytes, FaultsAfter(timedOut))

Keeps == UNCHANGED <<target, saved>>

(* A packet of which bytes are missing takes those of the next item.       *)
AfterPacket(item) ==
    IF item.how = "short" /\ Len(toRecv) > 1 THEN SubSeq(toRecv, 3, Len(toRecv))
    ELSE AfterReceiverReads

AfterItem(item) == IF IsPacket(item) THEN AfterPacket(item) ELSE AfterReceiverReads

HeaderLimit == IF rcv.files > 0 THEN Retries ELSE StartRetries

(* Waiting for a block 0.  'C' is repeated for whatever else comes, and    *)
(* nothing is drained, because a block 0 may be on its way.                *)
YBeginFile(item) ==
    /\ item.kind = "header" /\ item.how = "ok" /\ item.body # 0
    /\ \/ /\ target' = Opened
          /\ YAnswer([rcv EXCEPT !.pc = "data", !.f = item.body, !.exp = NextSeq(0), !.errors = 0],
                     AfterReceiverReads, <<"ACK", "C">>, FALSE)
          /\ UNCHANGED saved
       \/ faults > 0 /\ ReceiverFails("Card")

YBatchEnds(item) ==
    /\ item.kind = "header" /\ item.how = "ok" /\ item.body = 0
    /\ ReceiverStops("None", Append(toSend, Byte("ACK")))
    /\ UNCHANGED <<saved, faults>>

(* The second EOT of the last file, after the moment granted to it.        *)
YLateEot(item) ==
    /\ item.kind = "EOT" /\ rcv.files > 0
    /\ YAnswer(rcv, AfterReceiverReads, <<"ACK", "C">>, FALSE)
    /\ Keeps

YNoHeader(item) ==
    /\ \/ item.kind \in {"timeout", "junk", "data"}
       \/ item.kind = "EOT" /\ rcv.files = 0
       \/ item.kind = "header" /\ item.how # "ok"
    /\ IF rcv.waiting + 1 >= HeaderLimit THEN ReceiverFails("Gave up")
       ELSE /\ YAnswer([rcv EXCEPT !.waiting = @ + 1], AfterItem(item), <<"C">>,
                       item.kind = "timeout")
            /\ Keeps

YReceiveHeader ==
    /\ proto = "ymodem" /\ rcv.pc = "header"
    /\ \E item \in {Byte("timeout")} \union {toRecv[i] : i \in DOMAIN toRecv} :
        /\ ReceiverReads(item)
        /\ \/ YBeginFile(item) \/ YBatchEnds(item) \/ YLateEot(item) \/ YNoHeader(item)
           \/ item.kind = "CAN" /\ ReceiverFails("Cancelled")
           \/ /\ item.kind = "newline"
              /\ rcv' = [rcv EXCEPT !.waiting = @ + 1]
              /\ toRecv' = AfterReceiverReads
              /\ Keeps /\ UNCHANGED <<toSend, faults>>
    /\ UNCHANGED <<setting, snd>>

(* A block in sequence: stored up to the size, then acknowledged.          *)
Missing == batch[rcv.f] - Len(target.staged)

YTakeBlock(item) ==
    /\ item.kind = "data" /\ item.how = "ok" /\ item.seq = rcv.exp
    /\ \/ /\ Missing > 0
          /\ target' = WroteExact(SubSeq(item.body, 1, IF Missing < BlockSize THEN Missing ELSE BlockSize))
          /\ YAnswer([rcv EXCEPT !.exp = NextSeq(@), !.errors = 0], AfterReceiverReads,
                     <<"ACK">>, FALSE)
          /\ UNCHANGED saved
       \/ Missing > 0 /\ faults > 0 /\ ReceiverFails("Card")
       \/ Missing = 0 /\ ReceiverFails("Gave up")

Fresh == rcv.exp = NextSeq(0) /\ target.staged = <<>>

(* The same block 0 again: the peer missed its ACK and 'C'.                *)
YHeaderAgain(item) ==
    /\ IsPacket(item) /\ item.how = "ok" /\ item.seq = 0 /\ Fresh
    /\ IF item.kind = "header" /\ item.body = rcv.f
       THEN /\ YAnswer([rcv EXCEPT !.errors = 0], AfterReceiverReads, <<"ACK", "C">>, FALSE)
            /\ Keeps
       ELSE ReceiverFails("Gave up")

(* A whole packet that is neither: the block before is acknowledged again, *)
(* anything else ends the transfer.                                        *)
YOutOfTurn(item) ==
    /\ IsPacket(item) /\ item.how = "ok"
    /\ ~(item.seq = 0 /\ Fresh) /\ ~(item.kind = "data" /\ item.seq = rcv.exp)
    /\ IF item.seq # PrevSeq(rcv.exp) THEN ReceiverFails("Gave up")
       ELSE IF rcv.errors + 1 >= Retries
       THEN /\ ReceiverStops("Gave up", toSend \o <<Byte("ACK"), Byte("CAN")>>)
            /\ UNCHANGED <<saved, faults>>
       ELSE /\ YAnswer([rcv EXCEPT !.errors = @ + 1], AfterReceiverReads, <<"ACK">>, FALSE)
            /\ Keeps

(* One more error; before the first block the ACK and 'C' of block 0 are   *)
(* repeated when nothing comes, afterwards NAK asks for the block again.   *)
YBad(item) ==
    /\ item.kind \in {"junk", "timeout", "newline"} \/ (IsPacket(item) /\ item.how # "ok")
    /\ IF rcv.errors + 1 >= Retries THEN ReceiverFails("Gave up")
       ELSE /\ YAnswer([rcv EXCEPT !.errors = @ + 1], AfterItem(item),
                       IF item.kind = "timeout" /\ Fresh THEN <<"ACK", "C">> ELSE <<"NAK">>,
                       item.kind = "timeout")
            /\ Keeps

(* EOT: refused unless the file has the size announced, else NAK once.     *)
YEot(item) ==
    /\ item.kind = "EOT"
    /\ IF Missing # 0 THEN ReceiverFails("Gave up")
       ELSE /\ YAnswer([rcv EXCEPT !.pc = "grace"], AfterReceiverReads, <<"NAK">>, FALSE)
            /\ Keeps

YReceiveData ==
    /\ proto = "ymodem" /\ rcv.pc = "data"
    /\ \E item \in {Byte("timeout")} \union {toRecv[i] : i \in DOMAIN toRecv} :
        /\ ReceiverReads(item)
        /\ \/ YTakeBlock(item) \/ YHeaderAgain(item) \/ YOutOfTurn(item)
           \/ YBad(item) \/ YEot(item)
           \/ item.kind = "CAN" /\ ReceiverFails("Cancelled")
    /\ UNCHANGED <<setting, snd>>

(* The moment for the second EOT: only 250 ms, so nothing may come in time *)
(* although it is on its way.  A packet is left for the next block 0.      *)
YGrace ==
    /\ proto = "ymodem" /\ rcv.pc = "grace"
    /\ \E item \in {Byte("timeout")} \union {toRecv[i] : i \in DOMAIN toRecv} :
        /\ \/ toRecv # <<>> /\ item = Head(toRecv)
           \/ item = Byte("timeout") /\ toRecv = <<>>
        /\ \/ item.kind = "CAN" /\ ReceiverFails("Cancelled")
           \/ item.kind \in {"junk", "newline"} /\ ReceiverFails("Gave up")
           \/ /\ item.kind \in {"EOT", "timeout", "data", "header"}
              /\ \/ /\ saved' = [saved EXCEPT ![rcv.f] = target.staged]
                    /\ target' = Closed
                    /\ YAnswer([rcv EXCEPT !.pc = "header", !.files = @ + 1, !.waiting = 0],
                               IF IsPacket(item) THEN toRecv ELSE AfterReceiverReads,
                               <<"ACK", "C">>, FALSE)
                 \/ faults > 0 /\ ReceiverFails("Card")
    /\ UNCHANGED <<setting, snd>>
=============================================================================
