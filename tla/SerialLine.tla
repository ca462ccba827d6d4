----------------------------- MODULE SerialLine -----------------------------
(***************************************************************************)
(* The two ends of a serial file transfer and the line between them, as    *)
(* far as XModem and YModem share them: the packets and control bytes on   *)
(* their way, what the line does to them, time-outs, cancelling, a pulled  *)
(* cable, and the TransferFile the receiver writes                         *)
(* (src/core/transfer_file.cpp).                                           *)
(*                                                                         *)
(* A packet is one item: whole ("ok"), with a wrong check sum ("crc") or   *)
(* cut off ("short").  A read() of the code takes one item or times out;   *)
(* everything a program does between two reads is one step.                *)
(*                                                                         *)
(* A file is a sequence of units <<f, i>>, the i-th of file f; a block     *)
(* carries BlockSize of them and pads the last one.                        *)
(***************************************************************************)
EXTENDS Integers, Sequences, FiniteSets

CONSTANTS Protocol,     \* {"xmodem", "ymodem"} or one of them
          Harsh,        \* the protocols that are also run over a harsh line
          Sizes,        \* sizes of files, in units
          MaxFiles,     \* the most files a YMODEM peer sends in one batch
          BlockSize,    \* units in a block (128 or 1024 bytes)
          SeqMod,       \* sequence numbers count modulo SeqMod (256)
          Retries,      \* retries (10)
          StartRetries, \* startup_retries (30)
          TailReads,    \* reads after XMODEM's last ACK (10)
          MaxFaults     \* things that go wrong in one transfer

ASSUME LineAssumption ==
    /\ Harsh \subseteq Protocol /\ Protocol \subseteq {"xmodem", "ymodem"}
    /\ {BlockSize, Retries, StartRetries, TailReads, MaxFiles} \subseteq Nat \ {0}
    /\ SeqMod \in Nat /\ SeqMod > 1 /\ MaxFaults \in Nat
    /\ Sizes \subseteq Nat

VARIABLES proto,   \* the protocol of this transfer
          batch,   \* batch[f]: the size of file f
          basic,   \* the target's name ends in .BAS
          toRecv,  \* items on their way to the receiver
          toSend,  \* control bytes on their way to the sender
          snd,     \* the sender: where it is, which block, how often tried
          rcv,     \* the receiver
          target,  \* the receiver's TransferFile
          saved,   \* saved[f]: what the receiver's card holds of file f
          faults,  \* faults still to come
          harsh,   \* the line also delays answers (so that one end may start
                   \* late), adds noise and loses the first byte of a packet
          oneEot   \* a YMODEM peer that does not answer the NAK of its EOT

setting == <<proto, batch, basic, harsh, oneEot>>
tvars == <<setting, toRecv, toSend, snd, rcv, target, saved, faults>>

Untouched == <<"before">>
Unit(f, i) == <<f, i>>
Pad == <<0, 0>>
Files == DOMAIN batch
Content(f) == [i \in 1..batch[f] |-> Unit(f, i)]

(* source(): the block behind the first pos units, padded with 0x1A.       *)
Block(f, pos) ==
    [i \in 1..BlockSize |-> IF pos + i <= batch[f] THEN Unit(f, pos + i) ELSE Pad]

NextSeq(s) == (s + 1) % SeqMod
PrevSeq(s) == (s + SeqMod - 1) % SeqMod

Byte(b) == [kind |-> b]
Data(seq, f, pos) == [kind |-> "data", seq |-> seq, body |-> Block(f, pos), how |-> "ok"]
(* Block 0 of YMODEM; file 0 is the empty one that ends a batch.           *)
Header(f) == [kind |-> "header", seq |-> 0, body |-> f, how |-> "ok"]

IsPacket(item) == item.kind \in {"data", "header"}
IsJunk(item) == item.kind = "junk"

-----------------------------------------------------------------------------
(* The line.                                                               *)

Junk == Byte("junk")

(* What can become of one item: lost, damaged, and on a harsh line its     *)
(* first byte lost, so that the rest of the packet is read byte by byte as *)
(* noise or, where the sequence number is 4, as EOT.                       *)
Damage(item) ==
    IF IsPacket(item)
    THEN {<<>>, <<[item EXCEPT !.how = "crc"]>>, <<[item EXCEPT !.how = "short"]>>}
         \union IF harsh
                THEN {<<Junk>>, <<Byte("EOT"), Junk>>, [i \in 1..Retries |-> Junk]}
                ELSE {}
    ELSE {<<>>, <<Junk>>}
         \union IF harsh THEN {<<Junk, item>>} ELSE {}

(* What arrives of a sequence of items of which at most one is damaged,    *)
(* with the number of faults then left of n.                               *)
Arrivals(items, n) ==
    {<<items, n>>}
    \union IF n = 0 THEN {}
           ELSE UNION {{<<SubSeq(items, 1, i - 1) \o d \o SubSeq(items, i + 1, Len(items)), n - 1>> :
                        d \in Damage(items[i])} : i \in DOMAIN items}

Over(end) == end.pc = "done"

ToReceiver(queue, items, n) ==
    IF Over(rcv) THEN toRecv' = <<>> /\ faults' = n
    ELSE \E a \in Arrivals(items, n) : toRecv' = queue \o a[1] /\ faults' = a[2]

ToSender(queue, bytes, n) ==
    IF Over(snd) THEN toSend' = <<>> /\ faults' = n
    ELSE \E a \in Arrivals([i \in DOMAIN bytes |-> Byte(bytes[i])], n) :
             toSend' = queue \o a[1] /\ faults' = a[2]

(* One end gives up and says so with three CANs; its own queue is drained  *)
(* by end_serial_transfer().  file.abort() drops what is not committed.    *)
SenderStops(err, queue) ==
    /\ snd' = [snd EXCEPT !.pc = "done", !.err = err]
    /\ toSend' = <<>>
    /\ toRecv' = IF Over(rcv) THEN <<>> ELSE queue
    /\ UNCHANGED faults

SenderFails(err) == SenderStops(err, Append(toRecv, Byte("CAN")))

ReceiverStops(err, queue) ==
    /\ rcv' = [rcv EXCEPT !.pc = "done", !.err = err]
    /\ toRecv' = <<>>
    /\ toSend' = IF Over(snd) THEN <<>> ELSE queue
    /\ target' = [staged |-> <<>>, pending |-> <<>>, open |-> FALSE]

ReceiverFails(err) ==
    /\ ReceiverStops(err, Append(toSend, Byte("CAN")))
    /\ UNCHANGED <<saved, faults>>

(* Time-outs.  Both wait seconds for an answer that takes milliseconds, so *)
(* on a good line one gives up waiting only when nothing is on its way;    *)
(* on a harsh one the answer may be late.                                  *)
Quiet == toRecv = <<>> /\ toSend = <<>>

(* read() of the sender: the next byte, or a time-out.                     *)
SenderReads(c) ==
    \/ toSend # <<>> /\ c = Head(toSend).kind
    \/ /\ c = "timeout" /\ toSend = <<>>
       /\ Quiet \/ (harsh /\ faults > 0)

AfterSenderReads == IF toSend = <<>> THEN <<>> ELSE Tail(toSend)

(* A time-out that is late is one of the faults.                           *)
FaultsAfter(timedOut) == IF timedOut /\ ~Quiet THEN faults - 1 ELSE faults

(* read() of the receiver.                                                 *)
ReceiverReads(item) ==
    \/ toRecv # <<>> /\ item = Head(toRecv)
    \/ /\ item = Byte("timeout") /\ toRecv = <<>>
       /\ Quiet \/ (harsh /\ faults > 0 /\ ~Over(snd))

AfterReceiverReads == IF toRecv = <<>> THEN <<>> ELSE Tail(toRecv)

(* ESC at the device, or a CAN from the peer: the result is CANCELLED.     *)
(* Behind XMODEM's last ACK the file is committed and the wait just ends.  *)
SenderCancelled ==
    /\ ~Over(snd) /\ faults > 0
    /\ snd' = [snd EXCEPT !.pc = "done", !.err = "Cancelled"]
    /\ toSend' = <<>>
    /\ toRecv' = IF Over(rcv) THEN <<>> ELSE Append(toRecv, Byte("CAN"))
    /\ faults' = faults - 1
    /\ UNCHANGED <<setting, rcv, target, saved>>

ReceiverCancelled ==
    /\ ~Over(rcv) /\ faults > 0
    /\ IF rcv.pc = "tail" THEN ReceiverStops("None", toSend)
       ELSE ReceiverStops("Cancelled", Append(toSend, Byte("CAN")))
    /\ faults' = faults - 1
    /\ UNCHANGED <<setting, snd, saved>>

(* The cable is pulled: every read and write answers disconnected.         *)
Unplugged ==
    /\ faults > 0 /\ ~(Over(snd) /\ Over(rcv))
    /\ snd' = IF Over(snd) THEN snd ELSE [snd EXCEPT !.pc = "done", !.err = "Disconnected"]
    /\ IF Over(rcv) THEN UNCHANGED <<rcv, target>> /\ toRecv' = <<>> /\ toSend' = <<>>
       ELSE ReceiverStops(IF rcv.pc = "tail" THEN "None" ELSE "Disconnected", <<>>)
    /\ toSend' = <<>>
    /\ faults' = 0
    /\ UNCHANGED <<setting, saved>>

-----------------------------------------------------------------------------
(* TransferFile.  XMODEM knows no size: write() keeps the last block back  *)
(* so that commit() can take the padding off a BASIC text; YMODEM writes   *)
(* what it is given and commits only the size it was told.                 *)

Opened == [staged |-> <<>>, pending |-> <<>>, open |-> TRUE]
Closed == [staged |-> <<>>, pending |-> <<>>, open |-> FALSE]

Wrote(block) ==
    [target EXCEPT !.staged = @ \o target.pending, !.pending = block]

WroteExact(units) == [target EXCEPT !.staged = @ \o units]

Trimmed(block) ==
    SubSeq(block, 1, Cardinality({i \in DOMAIN block : \E j \in i..Len(block) : block[j] # Pad}))

Committed == target.staged \o (IF basic THEN Trimmed(target.pending) ELSE target.pending)

(* Every file arrives as it was sent, but XMODEM keeps the padding of a    *)
(* file that is no BASIC text.                                             *)
BlockCount(f) == (batch[f] + BlockSize - 1) \div BlockSize
Goods(f) ==
    IF proto = "ymodem" \/ basic THEN Content(f)
    ELSE [i \in 1..(BlockCount(f) * BlockSize) |-> IF i <= batch[f] THEN Unit(f, i) ELSE Pad]
=============================================================================
