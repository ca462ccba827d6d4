------------------------------- MODULE XModem -------------------------------
(***************************************************************************)
(* XMODEM with CRC (src/core/xmodem.cpp): send() and receive() as the two  *)
(* ends of a line.  One block at a time; an ACK carries no number, a block *)
(* does, and the receiver answers a repeated block without storing it      *)
(* again.  No size is sent: the file ends where EOT is read.               *)
(***************************************************************************)
EXTENDS SerialLine

-----------------------------------------------------------------------------
(* send()                                                                  *)

(* The next block, or EOT behind the last one.                             *)
XOffer(s, queue, n) ==
    IF s.pos < batch[1]
    THEN /\ snd' = [s EXCEPT !.pc = "data", !.tries = 1]
         /\ ToReceiver(queue, <<Data(s.seq, 1, s.pos)>>, n)
    ELSE /\ snd' = [s EXCEPT !.pc = "eot", !.tries = 1]
         /\ ToReceiver(queue, <<Byte("EOT")>>, n)

(* source() fails.                                                         *)
XSourceFails ==
    /\ faults > 0
    /\ SenderFails("Card")

(* Waiting for the receiver's 'C'.                                         *)
XSendStart ==
    /\ proto = "xmodem" /\ snd.pc = "start"
    /\ \E c \in {"C", "ACK", "NAK", "CAN", "junk", "timeout"} :
        /\ SenderReads(c)
        /\ \/ /\ c = "C"
              /\ \/ /\ XOffer([snd EXCEPT !.seq = NextSeq(0)], toRecv, faults)
                    /\ toSend' = AfterSenderReads
                 \/ batch[1] > 0 /\ XSourceFails
           \/ c = "CAN" /\ SenderFails("Cancelled")
           \/ c = "NAK" /\ SenderFails("Gave up")
           \/ /\ c \in {"ACK", "junk", "timeout"}
              /\ IF snd.tries + 1 >= StartRetries THEN SenderFails("Gave up")
                 ELSE /\ snd' = [snd EXCEPT !.tries = @ + 1]
                      /\ toSend' = AfterSenderReads
                      /\ faults' = FaultsAfter(c = "timeout")
                      /\ UNCHANGED toRecv
    /\ UNCHANGED <<setting, rcv, target, saved>>

(* The answer to a block: ACK moves on, whatever block it answers.         *)
XSendBlock ==
    /\ proto = "xmodem" /\ snd.pc = "data"
    /\ \E c \in {"C", "ACK", "NAK", "CAN", "junk", "timeout"} :
        /\ SenderReads(c)
        /\ \/ /\ c = "ACK"
              /\ LET moved == [snd EXCEPT !.seq = NextSeq(@), !.pos = @ + BlockSize] IN
                 \/ XOffer(moved, toRecv, faults) /\ toSend' = AfterSenderReads
                 \/ moved.pos < batch[1] /\ XSourceFails
           \/ c = "CAN" /\ SenderFails("Cancelled")
           \/ /\ c \notin {"ACK", "CAN"}
              /\ IF snd.tries >= Retries THEN SenderFails("Gave up")
                 ELSE /\ snd' = [snd EXCEPT !.tries = @ + 1]
                      /\ toSend' = AfterSenderReads
                      /\ ToReceiver(toRecv, <<Data(snd.seq, 1, snd.pos)>>,
                                    FaultsAfter(c = "timeout"))
    /\ UNCHANGED <<setting, rcv, target, saved>>

XSendEnd ==
    /\ proto = "xmodem" /\ snd.pc = "eot"
    /\ \E c \in {"C", "ACK", "NAK", "CAN", "junk", "timeout"} :
        /\ SenderReads(c)
        /\ \/ c = "ACK" /\ SenderStops("None", toRecv)
           \/ c = "CAN" /\ SenderFails("Cancelled")
           \/ /\ c \notin {"ACK", "CAN"}
              /\ IF snd.tries >= Retries THEN SenderFails("Gave up")
                 ELSE /\ snd' = [snd EXCEPT !.tries = @ + 1]
                      /\ toSend' = AfterSenderReads
                      /\ ToReceiver(toRecv, <<Byte("EOT")>>, FaultsAfter(c = "timeout"))
    /\ UNCHANGED <<setting, rcv, target, saved>>

-----------------------------------------------------------------------------
(* receive()                                                               *)

(* The receiver takes an item, becomes r and answers.                      *)
XAnswer(r, byte, timedOut) ==
    /\ rcv' = r
    /\ toRecv' = AfterReceiverReads
    /\ ToSender(toSend, <<byte>>, FaultsAfter(timedOut))

(* A new block is stored before it is acknowledged.                        *)
XTakeBlock(item) ==
    /\ item.kind = "data" /\ item.how = "ok" /\ item.seq = rcv.exp
    /\ \/ /\ target' = Wrote(item.body)
          /\ XAnswer([rcv EXCEPT !.exp = NextSeq(@), !.started = TRUE, !.errors = 0], "ACK", FALSE)
          /\ UNCHANGED saved
       \/ faults > 0 /\ ReceiverFails("Card")

(* Wrong: the repeated block is stored again.                               *)
XRepeatedStored(item) ==
    /\ item.kind = "data" /\ item.how = "ok" /\ item.seq # rcv.exp
    /\ IF rcv.started /\ item.seq = PrevSeq(rcv.exp) /\ rcv.errors + 1 < Retries
       THEN /\ XAnswer([rcv EXCEPT !.errors = @ + 1], "ACK", FALSE)
            /\ target' = Wrote(item.body)
            /\ UNCHANGED saved
       ELSE ReceiverFails("Gave up")

(* The last block again: its ACK was lost.  Acknowledged, not stored.      *)
XRepeated(item) ==
    /\ item.kind = "data" /\ item.how = "ok" /\ item.seq # rcv.exp
    /\ IF rcv.started /\ item.seq = PrevSeq(rcv.exp) /\ rcv.errors + 1 < Retries
       THEN /\ XAnswer([rcv EXCEPT !.errors = @ + 1], "ACK", FALSE)
            /\ UNCHANGED <<target, saved>>
       ELSE ReceiverFails("Gave up")

(* Wrong: errors are not counted once a block has come.                     *)
XBadUncounted(item) ==
    /\ \/ item.kind \in {"junk", "timeout"}
       \/ IsPacket(item) /\ item.how # "ok"
    /\ LET silent == ~rcv.started /\ item.kind = "timeout"
           worse == IF silent THEN [rcv EXCEPT !.waiting = @ + 1]
                    ELSE rcv
       IN  IF (IF silent THEN worse.waiting >= StartRetries ELSE worse.errors >= Retries)
           THEN ReceiverFails("Gave up")
           ELSE /\ rcv' = worse
                /\ toRecv' = IF item.kind = "timeout" THEN toRecv
                             ELSE IF IsPacket(item) /\ item.how = "crc" THEN AfterReceiverReads
                             ELSE <<>>
                /\ ToSender(toSend, <<IF rcv.started \/ IsPacket(item) THEN "NAK" ELSE "C">>,
                            FaultsAfter(item.kind = "timeout"))
                /\ UNCHANGED <<target, saved>>

(* Anything else that was read, or nothing: one more error.  drain() drops *)
(* what else has arrived of a packet cut off or of noise.                  *)
XBad(item) ==
    /\ \/ item.kind \in {"junk", "timeout"}
       \/ IsPacket(item) /\ item.how # "ok"
    /\ LET silent == ~rcv.started /\ item.kind = "timeout"
           worse == IF silent THEN [rcv EXCEPT !.waiting = @ + 1]
                    ELSE [rcv EXCEPT !.errors = @ + 1]
       IN  IF (IF silent THEN worse.waiting >= StartRetries ELSE worse.errors >= Retries)
           THEN ReceiverFails("Gave up")
           ELSE /\ rcv' = worse
                /\ toRecv' = IF item.kind = "timeout" THEN toRecv
                             ELSE IF IsPacket(item) /\ item.how = "crc" THEN AfterReceiverReads
                             ELSE <<>>
                /\ ToSender(toSend, <<IF rcv.started \/ IsPacket(item) THEN "NAK" ELSE "C">>,
                            FaultsAfter(item.kind = "timeout"))
                /\ UNCHANGED <<target, saved>>

(* The line end behind the XRECV command.                                  *)
XLineEnd(item) ==
    /\ item.kind = "newline" /\ ~rcv.started
    /\ rcv' = [rcv EXCEPT !.waiting = @ + 1]
    /\ toRecv' = AfterReceiverReads
    /\ UNCHANGED <<toSend, target, saved, faults>>

(* EOT: the file is committed before EOT is acknowledged.                  *)
XFinish(item) ==
    /\ item.kind = "EOT"
    /\ \/ /\ saved' = [saved EXCEPT ![1] = Committed]
          /\ target' = Closed
          /\ XAnswer([rcv EXCEPT !.pc = "tail", !.tail = 0], "ACK", FALSE)
       \/ faults > 0 /\ ReceiverFails("Card")

XReceive ==
    /\ proto = "xmodem" /\ rcv.pc = "data"
    /\ \/ \E item \in {Byte("timeout")} \union {toRecv[i] : i \in DOMAIN toRecv} :
             /\ ReceiverReads(item)
             /\ \/ XTakeBlock(item) \/ XRepeated(item) \/ XBad(item)
                \/ XLineEnd(item) \/ XFinish(item)
                \/ item.kind = "CAN" /\ ReceiverFails("Cancelled")
    /\ UNCHANGED <<setting, snd>>

(* The ACK of EOT may be lost: EOT is acknowledged again, never committed  *)
(* again.                                                                  *)
XTail ==
    /\ proto = "xmodem" /\ rcv.pc = "tail"
    /\ \E item \in {Byte("timeout")} \union {toRecv[i] : i \in DOMAIN toRecv} :
        /\ ReceiverReads(item)
        /\ IF item.kind = "timeout" \/ (rcv.tail + 1 >= TailReads /\ item.kind # "EOT")
           THEN ReceiverStops("None", toSend) /\ UNCHANGED <<saved, faults>>
           ELSE IF item.kind = "EOT"
           THEN /\ IF rcv.tail + 1 >= TailReads
                   THEN /\ ReceiverStops("None", Append(toSend, Byte("ACK")))
                        /\ UNCHANGED faults
                   ELSE /\ XAnswer([rcv EXCEPT !.tail = @ + 1], "ACK", FALSE)
                        /\ UNCHANGED target
                /\ UNCHANGED saved
           ELSE /\ rcv' = [rcv EXCEPT !.tail = @ + 1]
                /\ toRecv' = AfterReceiverReads
                /\ UNCHANGED <<toSend, target, saved, faults>>
    /\ UNCHANGED <<setting, snd>>
=============================================================================
