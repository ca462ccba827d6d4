----------------------------- MODULE SerialPort -----------------------------
(***************************************************************************)
(* The serial port of a file transfer                                      *)
(* (src/platform/picocalc/serial_transfer.cpp): which of USB CDC and       *)
(* UART0 a transfer takes over, what begin and end change of the console's *)
(* setting, and the UART's receive ring, filled by an interrupt handler or *)
(* by DMA while the foreground reads.                                      *)
(*                                                                         *)
(* Bytes are numbered from 0 in the order in which they arrive.  DMA       *)
(* writes its own bytes between any two steps of a read; the completion    *)
(* of a lap of the ring raises an interrupt, which is taken as long as     *)
(* interrupts are on.                                                      *)
(***************************************************************************)
EXTENDS Integers, Sequences

CONSTANTS RingSize,  \* ring_size (4096)
          MaxBytes,  \* bytes that arrive during a transfer
          Chunks,    \* sizes of the reads, in bytes
          Race       \* DMA may complete a lap between the two loads of
                     \* dma_produced()

ASSUME PortAssumption ==
    /\ RingSize \in Nat \ {0} /\ MaxBytes \in Nat
    /\ Chunks \subseteq Nat \ {0} /\ Race \in BOOLEAN

VARIABLES
    active,     \* a transfer owns the port
    diagnostic, \* diagnostic_active
    command,    \* command_route: where the last console byte came from
    route,      \* transfer_route
    console,    \* the drivers whose input goes to the console
    callback,   \* the chars-available callback of UART0 is installed
    baud,       \* "console" or "transfer"
    mode,       \* performance.uart_rx_mode
    usb,        \* stdio_usb_connected()
    ring,       \* the bytes in the ring
    written,    \* bytes written into it: irq_produced, or what DMA did
    completed,  \* dma_completed
    pending,    \* the DMA completion interrupt is raised
    claimed,    \* dma_channel >= 0
    consumed,   \* irq_consumed or dma_consumed
    overflow,
    reader,     \* the read in progress
    chunk       \* what the last read delivered, and the place it belongs to

session == <<active, diagnostic, command, route, console, callback, baud, mode, usb, claimed>>
ringvars == <<ring, written, completed, pending, consumed, overflow>>
pvars == <<session, ringvars, reader, chunk>>

Route == {"auto", "usb", "uart"}
Drivers == {"usb", "uart"}
Slot == 0..(RingSize - 1)
NoRead == [pc |-> "none", base |-> 0, seen |-> 0, want |-> 0, got |-> <<>>]
Nothing == [from |-> 0, bytes |-> <<>>]

EmptyRing ==
    /\ ring' = [s \in Slot |-> -1]
    /\ written' = 0 /\ completed' = 0 /\ pending' = FALSE
    /\ consumed' = 0 /\ overflow' = FALSE

PortInit ==
    /\ active = FALSE /\ diagnostic = FALSE
    /\ command = "auto" /\ route = "auto"
    /\ console = Drivers /\ callback = FALSE /\ baud = "console"
    /\ mode \in {"irq", "dma"}
    /\ usb \in BOOLEAN
    /\ ring = [s \in Slot |-> -1]
    /\ written = 0 /\ completed = 0 /\ pending = FALSE /\ claimed = FALSE
    /\ consumed = 0 /\ overflow = FALSE
    /\ reader = NoRead /\ chunk = Nothing

Busy == active \/ diagnostic
Dma == active /\ route = "uart" /\ mode = "dma"
Irq == active /\ route = "uart" /\ mode = "irq"

-----------------------------------------------------------------------------
(* The console and the diagnostics.                                        *)

(* console_serial_read(): a byte from one of the routes, which becomes the *)
(* route of the command; with same_route only from that one.               *)
ConsoleByte(from, sameRoute) ==
    /\ ~Busy
    /\ from = "usb" => usb
    /\ sameRoute => command \in {"auto", from}
    /\ command' = from
    /\ UNCHANGED <<active, diagnostic, route, console, callback, baud, mode, usb, claimed,
                   ringvars, reader, chunk>>

(* console_local_input(): a key of the PicoCalc itself.                    *)
LocalInput ==
    /\ ~active
    /\ command' = "auto"
    /\ UNCHANGED <<active, diagnostic, route, console, callback, baud, mode, usb, claimed,
                   ringvars, reader, chunk>>

Diagnostic(on) ==
    /\ on => ~Busy /\ usb
    /\ diagnostic' = on
    /\ UNCHANGED <<active, command, route, console, callback, baud, mode, usb, claimed,
                   ringvars, reader, chunk>>

UsbPlug ==
    /\ usb' = ~usb
    /\ UNCHANGED <<active, diagnostic, command, route, console, callback, baud, mode, claimed,
                   ringvars, reader, chunk>>

-----------------------------------------------------------------------------
(* begin_serial_transfer(), end_serial_transfer()                          *)

(* selected_route(): an explicit route, else the one the command came from, *)
(* else USB when it is connected.                                          *)
Selected(explicit) ==
    IF explicit # "auto" THEN explicit
    ELSE IF command # "auto" THEN command
    ELSE IF usb THEN "usb" ELSE "uart"

(* Refused before anything changed but the route: no USB connection.       *)
BeginRefused(explicit) ==
    /\ ~Busy /\ Selected(explicit) = "usb" /\ ~usb
    /\ route' = "usb"
    /\ UNCHANGED <<active, diagnostic, command, console, callback, baud, mode, usb, claimed,
                   ringvars, reader, chunk>>

(* Wrong: the stdio driver is not enabled again.                            *)
BeginUndoneSilent(explicit) ==
    /\ ~Busy /\ Selected(explicit) = "uart"
    /\ route' = "uart"
    /\ EmptyRing
    /\ callback' = FALSE /\ baud' = "console" /\ claimed' = FALSE /\ console' = Drivers \ {"uart"}
    /\ UNCHANGED <<active, diagnostic, command, mode, usb, reader, chunk>>

(* The baud rate cannot be made, or every DMA channel is taken: what begin *)
(* had changed is put back.                                                *)
BeginUndone(explicit) ==
    /\ ~Busy /\ Selected(explicit) = "uart"
    /\ route' = "uart"
    /\ EmptyRing
    /\ callback' = FALSE /\ baud' = "console" /\ claimed' = FALSE /\ console' = Drivers
    /\ UNCHANGED <<active, diagnostic, command, mode, usb, reader, chunk>>

Begins(explicit) ==
    /\ ~Busy
    /\ LET r == Selected(explicit) IN
       /\ r = "usb" => usb
       /\ route' = r
       /\ console' = Drivers \ {r}
       /\ baud' = IF r = "uart" THEN "transfer" ELSE baud
       /\ callback' = (r = "uart" /\ mode = "irq")
       /\ claimed' = (r = "uart" /\ mode = "dma")
    /\ active' = TRUE
    /\ EmptyRing
    /\ UNCHANGED <<diagnostic, command, mode, usb, reader, chunk>>

(* What still comes in is read and dropped until the line is quiet.        *)
Ends ==
    /\ active /\ reader.pc = "none"
    /\ active' = FALSE
    /\ console' = console \union {route}
    /\ IF route = "uart" THEN callback' = FALSE /\ baud' = "console" /\ claimed' = FALSE
       ELSE UNCHANGED <<callback, baud, claimed>>
    /\ EmptyRing
    /\ chunk' = Nothing
    /\ UNCHANGED <<diagnostic, command, route, mode, usb, reader>>

(* Control Center -> Serial Config.                                        *)
SetMode(m) ==
    /\ ~active
    /\ mode' = m
    /\ UNCHANGED <<active, diagnostic, command, route, console, callback, baud, usb, claimed,
                   ringvars, reader, chunk>>

-----------------------------------------------------------------------------
(* The receive ring, filled by the interrupt handler: uart_received() takes *)
(* n bytes from the UART and drops those that do not fit.                  *)

UartReceived(n) ==
    /\ Irq /\ ~overflow /\ written + n <= MaxBytes
    /\ LET free == RingSize - (written - consumed)
           stored == IF n < free THEN n ELSE free
       IN  /\ ring' = [s \in Slot |->
                         IF \E i \in 0..(stored - 1) : (written + i) % RingSize = s
                         THEN CHOOSE b \in written..(written + stored - 1) : b % RingSize = s
                         ELSE ring[s]]
           /\ written' = written + stored
           /\ overflow' = (n > free)
    /\ UNCHANGED <<session, completed, pending, consumed, reader, chunk>>

(* uart_irq_read(), with interrupts disabled.                              *)
IrqRead(size) ==
    /\ Irq /\ ~overflow /\ written > consumed
    /\ LET count == IF size < written - consumed THEN size ELSE written - consumed IN
       /\ chunk' = [from |-> consumed,
                    bytes |-> [i \in 1..count |-> ring[(consumed + i - 1) % RingSize]]]
       /\ consumed' = consumed + count
    /\ UNCHANGED <<session, ring, written, completed, pending, overflow, reader>>

-----------------------------------------------------------------------------
(* The receive ring, filled by DMA: it writes over what nobody has read.   *)

InterruptsOff == reader.pc \in {"sample", "sample again"}

(* A lap is finished only after the interrupt of the lap before was taken; *)
(* 4096 bytes take 44 ms at the highest rate.                              *)
DmaWrites ==
    /\ Dma /\ written < MaxBytes
    /\ (written + 1) % RingSize = 0 => ~pending
    /\ (InterruptsOff /\ ~Race) => (written + 1) % RingSize # 0
    /\ ring' = [ring EXCEPT ![written % RingSize] = written]
    /\ written' = written + 1
    /\ pending' = (pending \/ (written + 1) % RingSize = 0)
    /\ UNCHANGED <<session, completed, consumed, overflow, reader, chunk>>

(* uart_dma_irq()                                                          *)
FoldLap == completed' = (IF pending THEN completed + RingSize ELSE completed) /\ pending' = FALSE

DmaIrq ==
    /\ Dma /\ pending /\ ~InterruptsOff
    /\ FoldLap
    /\ UNCHANGED <<session, ring, written, consumed, overflow, reader, chunk>>

(* dma_produced(): first a finished lap is counted, then the position in   *)
(* the present one is read.                                                *)
DmaRead(size) ==
    /\ Dma /\ ~overflow /\ reader.pc = "none"
    /\ FoldLap
    /\ reader' = [NoRead EXCEPT !.pc = "sample", !.base = completed', !.want = size]
    /\ UNCHANGED <<session, ring, written, consumed, overflow, chunk>>

Position == written % RingSize
Available == reader.base + Position - consumed

(* In 64 bits without a sign a negative count is a huge one.               *)
Overrun(n) == n < 0 \/ n > RingSize

ReadFails ==
    /\ overflow' = TRUE
    /\ reader' = NoRead
    /\ UNCHANGED <<completed, pending, consumed, chunk>>

DmaSample ==
    /\ reader.pc = "sample"
    /\ IF Overrun(Available) THEN ReadFails
       ELSE /\ reader' = [reader EXCEPT !.pc = IF Available = 0 THEN "none" ELSE "copy",
                                        !.want = IF reader.want < Available THEN reader.want
                                                 ELSE Available]
            /\ UNCHANGED <<completed, pending, consumed, overflow, chunk>>
    /\ UNCHANGED <<session, ring, written>>

DmaCopy ==
    /\ reader.pc = "copy" /\ Len(reader.got) < reader.want
    /\ reader' = [reader EXCEPT !.got = Append(@, ring[(consumed + Len(@)) % RingSize])]
    /\ UNCHANGED <<session, ringvars, chunk>>

DmaCheck ==
    /\ reader.pc = "copy" /\ Len(reader.got) = reader.want
    /\ FoldLap
    /\ reader' = [reader EXCEPT !.pc = "sample again", !.base = completed']
    /\ UNCHANGED <<session, ring, written, consumed, overflow, chunk>>

(* Wrong: no second look before the chunk is delivered.                     *)
DmaDeliverUnchecked ==
    /\ reader.pc = "sample again"
    /\ consumed' = consumed + reader.want
    /\ chunk' = [from |-> consumed, bytes |-> reader.got]
    /\ reader' = NoRead
    /\ UNCHANGED <<completed, pending, overflow>>
    /\ UNCHANGED <<session, ring, written>>

(* A chunk that DMA may have lapped meanwhile is rejected.                 *)
DmaDeliver ==
    /\ reader.pc = "sample again"
    /\ IF Overrun(Available) THEN ReadFails
       ELSE /\ consumed' = consumed + reader.want
            /\ chunk' = [from |-> consumed, bytes |-> reader.got]
            /\ reader' = NoRead
            /\ UNCHANGED <<completed, pending, overflow>>
    /\ UNCHANGED <<session, ring, written>>

-----------------------------------------------------------------------------
PortNext ==
    \/ \E from \in Drivers, same \in BOOLEAN : ConsoleByte(from, same)
    \/ LocalInput
    \/ \E on \in BOOLEAN : Diagnostic(on)
    \/ UsbPlug
    \/ \E r \in Route : BeginRefused(r) \/ BeginUndone(r) \/ Begins(r)
    \/ Ends
    \/ \E m \in {"irq", "dma"} : SetMode(m)
    \/ \E n \in Chunks : UartReceived(n) \/ IrqRead(n) \/ DmaRead(n)
    \/ DmaWrites \/ DmaIrq \/ DmaSample \/ DmaCopy \/ DmaCheck \/ DmaDeliver

PortSpec == PortInit /\ [][PortNext]_pvars

(* Bytes reach the protocol in the order in which they came, none left     *)
(* out, none replaced by one that DMA wrote over it.                       *)
DeliveredInOrder ==
    \A i \in DOMAIN chunk.bytes : chunk.bytes[i] = chunk.from + i - 1

(* However a transfer ended or was refused, the console has both drivers   *)
(* and UART0 its rate, no callback and no DMA.                             *)
ConsoleRestored ==
    ~active => console = Drivers /\ ~callback /\ baud = "console" /\ ~claimed
=============================================================================
