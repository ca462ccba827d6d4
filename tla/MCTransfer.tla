----------------------------- MODULE MCTransfer -----------------------------
(* Serial transfers in one run: either the two ends and the line between   *)
(* them, or the port of one end with its receive ring.                     *)
EXTENDS SerialTransfer, SerialPort

VARIABLE part

MCInit ==
    /\ PortInit
    /\ \/ part = "line" /\ TransferInit /\ mode = "irq" /\ usb = FALSE
       \/ /\ part = "port"
          /\ proto = "xmodem" /\ batch = <<1>> /\ basic = FALSE /\ harsh = FALSE /\ oneEot = FALSE
          /\ toRecv = <<>> /\ toSend = <<>> /\ faults = 0
          /\ snd = [pc |-> "done", err |-> "busy"] /\ rcv = [pc |-> "done", f |-> 1]
          /\ target = Closed /\ saved = <<Untouched>>

MCNext ==
    \/ part = "line" /\ TransferNext /\ UNCHANGED <<pvars, part>>
    \/ part = "port" /\ PortNext /\ UNCHANGED <<tvars, part>>

MCSpec ==
    /\ MCInit /\ [][MCNext]_<<tvars, pvars, part>>
    /\ WF_tvars(part = "line" /\ Sending /\ UNCHANGED <<pvars, part>>)
    /\ WF_tvars(part = "line" /\ Receiving /\ UNCHANGED <<pvars, part>>)
=============================================================================
