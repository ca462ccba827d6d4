--------------------------- MODULE SerialTransfer ---------------------------
(***************************************************************************)
(* A whole transfer: one of the two protocols, a sender and a receiver     *)
(* running send() and receive() of src/core/xmodem.cpp or ymodem.cpp, and  *)
(* the line between them (run_xmodem_transfer and run_ymodem_transfer of   *)
(* src/core/repl.cpp start one end each; the other is a PC, or a second    *)
(* PicoCalc).                                                              *)
(***************************************************************************)
EXTENDS XModem, YModem

Batches(p) ==
    IF p = "xmodem" THEN {<<s>> : s \in Sizes}
    ELSE UNION {[1..n -> Sizes] : n \in 1..MaxFiles}

TransferInit ==
    /\ proto \in Protocol
    /\ batch \in Batches(proto)
    /\ basic \in (IF proto = "xmodem" THEN BOOLEAN ELSE {FALSE})
    /\ oneEot \in (IF proto = "ymodem" THEN BOOLEAN ELSE {FALSE})
    /\ harsh \in (IF proto \in Harsh THEN BOOLEAN ELSE {FALSE})
    /\ toRecv \in {<<>>, <<Byte("newline")>>}
    /\ toSend = <<Byte("C")>>
    /\ snd = [pc |-> "start", tries |-> 0, seq |-> 0, f |-> 1, pos |-> 0, err |-> "busy"]
    /\ rcv = [pc |-> IF proto = "xmodem" THEN "data" ELSE "header",
              exp |-> NextSeq(0), errors |-> 0, waiting |-> 0, tail |-> 0,
              started |-> FALSE, f |-> 1, files |-> 0, err |-> "busy"]
    /\ target = IF proto = "xmodem" THEN Opened ELSE Closed
    /\ saved = [f \in DOMAIN batch |-> Untouched]
    /\ faults = MaxFaults

Sending ==
    \/ XSendStart \/ XSendBlock \/ XSendEnd
    \/ YSendStart \/ YSendHeader \/ YSendRequested \/ YSendBlock
    \/ YSendEot \/ YSendNext \/ YSendLast

Receiving == XReceive \/ XTail \/ YReceiveHeader \/ YReceiveData \/ YGrace

Trouble == SenderCancelled \/ ReceiverCancelled \/ Unplugged

TransferNext == Sending \/ Receiving \/ Trouble

(* Both ends run: each has a read() with a time-out that ends.             *)
TransferSpec ==
    /\ TransferInit /\ [][TransferNext]_tvars
    /\ WF_tvars(Sending) /\ WF_tvars(Receiving)

(* Seen from the two users a transfer is a file copy: what the receiver    *)
(* commits is the file that was sent, each file of a batch once and in     *)
(* order; on a line without delays a sender that reports success has been  *)
(* stored.  XMODEM keeps it whatever is lost, damaged or cancelled (and    *)
(* XmodemCopies proves it); YMODEM, where a peer sends more than one file, *)
(* as long as no file behind the first one is empty, or no three faults    *)
(* come together: the answer to an empty block 0 can then be taken for the *)
(* one to EOT.                                                             *)
Copy == INSTANCE FileCopy WITH
    goods <- [f \in Files |-> Goods(f)], stored <- saved, told <- snd.err,
    steady <- ~harsh /\ Len(batch) = 1 /\ batch[1] > 0
CopySpec == Copy!Spec

(* Neither end waits or repeats for ever: every loop of send() and         *)
(* receive() counts its retries, so both report an end.                    *)
TransfersEnd == <>(Over(snd) /\ Over(rcv))
=============================================================================
