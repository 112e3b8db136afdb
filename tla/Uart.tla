-------------------------------- MODULE Uart --------------------------------
(***************************************************************************)
(* The interrupt-driven driver of the serial port                          *)
(* (BSP/drivers/src/altera_avalon_uart_{init,read,write}.c) with the port  *)
(* itself (uart.vhd), as this system builds them: no flow control, so that *)
(* the CTS branches of the driver are dead, and no parity.                 *)
(*                                                                         *)
(* The interrupt routine preempts the calls of one application thread      *)
(* between any two accesses to what they share; the line moves between any *)
(* two steps of either.  led_count.objdump keeps the order of the source,  *)
(* and the two stores to tx_start of one expression stay inside the        *)
(* routine.  The i-th character of a direction is the number i.            *)
(***************************************************************************)
EXTENDS Naturals, Sequences

CONSTANTS
  RingLen,      \* ALT_AVALON_UART_BUF_LEN, 64
  MaxBlock,     \* bound: largest block of one read or write call
  MaxLine,      \* bound: characters of a run, both directions together
  MaxErrors     \* bound: framing errors on the line

ASSUME RingAssumption ==
  /\ RingLen \in Nat \ {0, 1}
  /\ MaxBlock \in Nat /\ MaxLine \in Nat /\ MaxErrors \in Nat

VARIABLES
  rxdata, rrdy, fe,     \* receiver: register, character ready, framing error
  txdata, trdy,         \* transmitter: holding register, ready for a character
  enabled,              \* interrupt enables in the control register
  ctrl,                 \* the driver's copy of them
  rx_start, rx_end, rxbuf,
  tx_start, tx_end, txbuf,
  irq, status,          \* interrupt routine: place, status register read
  place, len, count, slot, block, \* the application's call and its locals
  accepted, line_out,   \* characters accepted by write; put on the line
  line_in, good, returned,  \* characters that came in; those that pass for good; returned by read
  overrun, spilled      \* history: the receiver, or the driver, overwrote a character

port == <<rxdata, rrdy, fe, txdata, trdy, enabled>>
line == <<line_out, line_in, good, overrun>>
rxRing == <<rx_start, rx_end, rxbuf>>
txRing == <<tx_start, tx_end, txbuf>>
routine == <<irq, status>>
call == <<place, len, count, slot, block, accepted, returned>>
uartVars == <<port, line, ctrl, rxRing, txRing, routine, call, spilled>>

Ring == 0 .. RingLen - 1
After(i) == (i + 1) % RingLen
NoStatus == [rrdy |-> FALSE, trdy |-> FALSE, fe |-> FALSE]

UartInit ==
  /\ rxdata = 0 /\ rrdy = FALSE /\ fe = FALSE
  /\ txdata = 0 /\ trdy = TRUE
  /\ enabled = {"RRDY"} /\ ctrl = {"RRDY"}
  /\ rx_start = 0 /\ rx_end = 0 /\ tx_start = 0 /\ tx_end = 0
  /\ rxbuf = [i \in Ring |-> 0] /\ txbuf = [i \in Ring |-> 0]
  /\ irq = "off" /\ status = NoStatus
  /\ place = "idle" /\ len = 0 /\ count = 0 /\ slot = 0 /\ block = TRUE
  /\ accepted = 0 /\ line_out = <<>> /\ line_in = 0 /\ good = <<>> /\ returned = <<>>
  /\ overrun = FALSE /\ spilled = FALSE

-----------------------------------------------------------------------------
(* The port. *)

\* A character is complete; one not yet taken is overwritten.
LineIn(bad) ==
  /\ accepted + line_in < MaxLine
  /\ bad => (line_in - Len(good)) < MaxErrors
  /\ line_in' = line_in + 1
  /\ good' = IF bad THEN good ELSE Append(good, line_in')
  /\ rxdata' = line_in' /\ rrdy' = TRUE /\ fe' = (fe \/ bad)
  /\ overrun' = (overrun \/ rrdy)
  /\ UNCHANGED <<txdata, trdy, enabled, line_out, ctrl, rxRing, txRing, routine, call, spilled>>

\* The holding register moves on to the shift register.
LineOut ==
  /\ ~trdy
  /\ trdy' = TRUE /\ line_out' = Append(line_out, txdata)
  /\ UNCHANGED <<rxdata, rrdy, fe, txdata, enabled, line_in, good, overrun, ctrl,
                 rxRing, txRing, routine, call, spilled>>

Requested == ("RRDY" \in enabled /\ rrdy) \/ ("TRDY" \in enabled /\ trdy)

-----------------------------------------------------------------------------
(* altera_avalon_uart_irq *)

Routine(from) == irq = from /\ UNCHANGED <<line_out, line_in, overrun, call>>

IrqEnter ==
  /\ Requested /\ Routine("off") /\ irq' = "status"
  /\ UNCHANGED <<good, port, ctrl, rxRing, txRing, status, spilled>>

IrqStatus ==
  /\ Routine("status") /\ irq' = "clear"
  /\ status' = [rrdy |-> rrdy, trdy |-> trdy, fe |-> fe]
  /\ UNCHANGED <<good, port, ctrl, rxRing, txRing, spilled>>

\* Mutant: a framing error is not cleared and spoils the characters after it.
IrqClear_KeepsError ==
  /\ Routine("clear")
  /\ irq' = IF status.rrdy THEN "rx" ELSE IF status.trdy THEN "tx" ELSE "off"
  /\ UNCHANGED <<good, port, ctrl, rxRing, txRing, status, spilled>>

\* The flags of a character that came after the status was read go as well:
\* that character will pass for a good one.
IrqClear ==
  /\ Routine("clear")
  /\ fe' = FALSE
  /\ good' = IF rrdy /\ fe /\ ~status.rrdy THEN Append(good, rxdata) ELSE good
  /\ irq' = IF status.rrdy THEN "rx" ELSE IF status.trdy THEN "tx" ELSE "off"
  /\ UNCHANGED <<rxdata, rrdy, txdata, trdy, enabled, ctrl, rxRing, txRing, status, spilled>>

\* altera_avalon_uart_rxirq.  It is reached whenever a character is ready, also
\* when the receive interrupt is off because the buffer is full.
IrqRx ==
  /\ Routine("rx")
  /\ rxbuf' = [rxbuf EXCEPT ![rx_end] = rxdata] /\ rrdy' = FALSE
  /\ IF status.fe THEN UNCHANGED <<rx_end, ctrl, enabled, spilled>>
     ELSE /\ rx_end' = After(rx_end)
          /\ spilled' = (spilled \/ After(rx_end) = rx_start)
          /\ IF After(rx_end') = rx_start
               THEN ctrl' = ctrl \ {"RRDY"} /\ enabled' = ctrl'
               ELSE UNCHANGED <<ctrl, enabled>>
  /\ irq' = IF status.trdy THEN "tx" ELSE "off"
  /\ status' = IF status.trdy THEN status ELSE NoStatus
  /\ UNCHANGED <<good, rxdata, fe, txdata, trdy, rx_start, txRing>>

\* altera_avalon_uart_txirq
IrqTx ==
  /\ Routine("tx")
  /\ IF tx_start = tx_end THEN UNCHANGED <<txdata, trdy, tx_start>>
     ELSE txdata' = txbuf[tx_start] /\ trdy' = FALSE /\ tx_start' = After(tx_start)
  /\ ctrl' = IF tx_start' = tx_end THEN ctrl \ {"TRDY"} ELSE ctrl \cup {"TRDY"}
  /\ enabled' = ctrl'
  /\ irq' = "off" /\ status' = NoStatus
  /\ UNCHANGED <<good, rxdata, rrdy, fe, rxRing, tx_end, txbuf, spilled>>

UartIrq == IrqEnter \/ IrqStatus \/ IrqClear \/ IrqRx \/ IrqTx

-----------------------------------------------------------------------------
(* The application's calls.  It runs only while no interrupt is served. *)

At(from, to) ==
  /\ irq = "off" /\ place = from /\ place' = to
  /\ UNCHANGED <<rxdata, rrdy, fe, txdata, trdy, line, routine, spilled>>

NoEnable == UNCHANGED <<ctrl, enabled>>

\* alt_irq_disable_all ... alt_irq_enable_all around the update of ctrl
Enable(bit) ==
  /\ ctrl' = ctrl \cup {bit} /\ enabled' = ctrl'
  /\ UNCHANGED <<rxRing, txRing, accepted, returned>>

\* The locals of a call are dead once it has returned.
Return == len' = 0 /\ count' = 0 /\ slot' = 0 /\ block' = TRUE
Locals == UNCHANGED <<len, count, slot, block>>

Enter(to) ==
  /\ At("idle", to) /\ NoEnable
  /\ len' \in 1 .. MaxBlock /\ block' \in BOOLEAN
  /\ UNCHANGED <<rxRing, txRing, count, slot, accepted, returned>>

Write == Enter("wNext") /\ accepted + line_in + len' <= MaxLine
Read == Enter("rNext")
Close ==
  /\ At("idle", "close") /\ block' \in BOOLEAN
  /\ NoEnable /\ UNCHANGED <<rxRing, txRing, len, count, slot, accepted, returned>>

\* Mutant: the slot that must stay empty is filled.
WriteNext_NoGap ==
  /\ count < len /\ slot' = After(tx_end)
  /\ IF tx_end # tx_start \/ count = 0 THEN At("wNext", "wPut")
     ELSE IF block THEN At("wNext", "wEnable") ELSE At("wNext", "wKick")
  /\ NoEnable /\ UNCHANGED <<rxRing, txRing, len, count, block, accepted, returned>>

WriteNext ==
  /\ count < len /\ slot' = After(tx_end)
  /\ IF After(tx_end) # tx_start THEN At("wNext", "wPut")
     ELSE IF block THEN At("wNext", "wEnable") ELSE At("wNext", "wKick")
  /\ NoEnable /\ UNCHANGED <<rxRing, txRing, len, count, block, accepted, returned>>

WriteDone ==
  /\ count = len /\ At("wNext", "wKick")
  /\ NoEnable /\ Locals /\ UNCHANGED <<rxRing, txRing, accepted, returned>>

WriteEnable == At("wEnable", "wSpin") /\ Enable("TRDY") /\ Locals
WriteSpin ==
  /\ At("wSpin", "wPut") /\ slot # tx_start
  /\ NoEnable /\ Locals /\ UNCHANGED <<rxRing, txRing, accepted, returned>>

WritePut ==
  /\ At("wPut", "wPublish")
  /\ txbuf' = [txbuf EXCEPT ![tx_end] = accepted + 1]
  /\ accepted' = accepted + 1 /\ count' = count + 1
  /\ NoEnable /\ UNCHANGED <<rxRing, tx_start, tx_end, len, slot, block, returned>>

WritePublish ==
  /\ At("wPublish", "wNext")
  /\ tx_end' = slot
  /\ NoEnable /\ Locals /\ UNCHANGED <<rxRing, tx_start, txbuf, accepted, returned>>

\* Mutant: write leaves without switching the transmit interrupt on.
WriteKick_NoEnable ==
  /\ At("wKick", "idle") /\ Return
  /\ NoEnable /\ UNCHANGED <<rxRing, txRing, accepted, returned>>

WriteKick == At("wKick", "idle") /\ Enable("TRDY") /\ Return

ReadNext ==
  /\ count < len /\ rx_start # rx_end /\ At("rNext", "rCopy")
  /\ NoEnable /\ Locals /\ UNCHANGED <<rxRing, txRing, accepted, returned>>

ReadStop ==
  /\ count = len \/ rx_start = rx_end
  /\ At("rNext", IF count = 0 THEN "rEmpty" ELSE "rKick")
  /\ NoEnable /\ Locals /\ UNCHANGED <<rxRing, txRing, accepted, returned>>

ReadCopy ==
  /\ At("rCopy", "rRelease")
  /\ returned' = Append(returned, rxbuf[rx_start]) /\ count' = count + 1
  /\ NoEnable /\ UNCHANGED <<rxRing, txRing, len, slot, block, accepted>>

ReadRelease ==
  /\ At("rRelease", "rNext")
  /\ rx_start' = After(rx_start)
  /\ NoEnable /\ Locals /\ UNCHANGED <<rx_end, rxbuf, txRing, accepted, returned>>

\* Nothing was read: rx_end is looked at a second time.
ReadEmpty ==
  /\ IF rx_start # rx_end THEN At("rEmpty", "rNext")
     ELSE IF block THEN At("rEmpty", "rEnable") ELSE At("rEmpty", "rKick")
  /\ NoEnable /\ Locals /\ UNCHANGED <<rxRing, txRing, accepted, returned>>

ReadEnable == At("rEnable", "rNext") /\ Enable("RRDY") /\ Locals
ReadKick == At("rKick", "idle") /\ Enable("RRDY") /\ Return

\* A close waits for the ring to drain, unless it was asked not to block.
CloseWait ==
  /\ At("close", "idle") /\ (tx_start = tx_end \/ ~block) /\ Return
  /\ NoEnable /\ UNCHANGED <<rxRing, txRing, accepted, returned>>

UartCall ==
  \/ WriteNext \/ WriteDone \/ WriteEnable \/ WriteSpin \/ WritePut \/ WritePublish \/ WriteKick
  \/ ReadNext \/ ReadStop \/ ReadCopy \/ ReadRelease \/ ReadEmpty \/ ReadEnable \/ ReadKick \/ CloseWait

UartNext ==
  \/ \E bad \in BOOLEAN : LineIn(bad)
  \/ LineOut \/ UartIrq \/ Write \/ Read \/ Close \/ UartCall

UartSpec == UartInit /\ [][UartNext]_uartVars

-----------------------------------------------------------------------------
(* Properties *)

UartPlaces ==
  {"idle", "close", "wNext", "wEnable", "wSpin", "wPut", "wPublish", "wKick",
   "rNext", "rCopy", "rRelease", "rEmpty", "rEnable", "rKick"}

UartTypeOK ==
  /\ rxdata \in Nat /\ txdata \in Nat /\ accepted \in Nat /\ line_in \in Nat
  /\ len \in Nat /\ count \in Nat /\ block \in BOOLEAN
  /\ rrdy \in BOOLEAN /\ fe \in BOOLEAN /\ trdy \in BOOLEAN
  /\ overrun \in BOOLEAN /\ spilled \in BOOLEAN
  /\ enabled \subseteq {"RRDY", "TRDY"} /\ ctrl \subseteq {"RRDY", "TRDY"}
  /\ rx_start \in Ring /\ rx_end \in Ring /\ tx_start \in Ring /\ tx_end \in Ring
  /\ slot \in Ring
  /\ rxbuf \in [Ring -> Nat] /\ txbuf \in [Ring -> Nat]
  /\ irq \in {"off", "status", "clear", "rx", "tx"}
  /\ status \in [rrdy : BOOLEAN, trdy : BOOLEAN, fe : BOOLEAN]
  /\ place \in UartPlaces
  /\ line_out \in Seq(Nat) /\ good \in Seq(Nat) /\ returned \in Seq(Nat)

\* The characters between two indices of a ring.
Between(ring, from, to) ==
  [i \in 1 .. (to + RingLen - from) % RingLen |-> ring[(from + i - 1) % RingLen]]

\* Characters handed to read and not yet released from the ring, or copied to
\* the ring by write and not yet published.
InHand == IF place = "rRelease" THEN 1 ELSE 0
UnderWay == IF place = "wPublish" THEN <<accepted>> ELSE <<>>
Holding == IF trdy THEN <<>> ELSE <<txdata>>
Numbers(k) == [i \in 1 .. k |-> i]

\* Everything accepted by write is on the line, in the port or in the ring, in
\* order and once; the port's register is never overwritten.
UartTransmits ==
  /\ line_out \o Holding \o Between(txbuf, tx_start, tx_end) \o UnderWay = Numbers(accepted)
  /\ ctrl = enabled

\* The transmitting side is a bounded first-in first-out channel.
Wire == INSTANCE SerialChannel
  WITH Char <- Nat, Capacity <- RingLen, sent <- Numbers(accepted), received <- line_out
UartChannel == Wire!Spec

\* What came in without error is returned, in the ring or in the port, in order
\* and once, until the port or the driver has to overwrite a character.
Kept(from) ==
  LET held == Between(rxbuf, rx_start, rx_end)
      waiting == IF rrdy /\ ~fe /\ ~(irq = "rx" /\ status.fe) THEN <<rxdata>> ELSE <<>>
  IN SubSeq(returned, 1, Len(returned) - InHand) \o held \o waiting = from
UartReceives == ~overrun /\ ~spilled => Kept(good)

\* altera_avalon_uart_init.c: "If the cicular buffer was full, disable
\* interrupts. Interrupts will be re-enabled when data is removed from the
\* buffer."  Nothing that arrived in time is lost while the ring is full.
FullRingKept == ~overrun => Kept(good)

\* No wake-up is lost: characters never wait in the ring with the transmit
\* interrupt off unless write is about to enable it, and the receive interrupt
\* is off only while read has something to find or is about to enable it.
UartNoLostWakeup ==
  /\ tx_start # tx_end /\ "TRDY" \notin enabled => place \in {"wNext", "wEnable", "wPut", "wPublish", "wKick"}
  /\ "RRDY" \notin enabled =>
       \/ spilled \/ rx_start # rx_end
       \/ place \in {"rNext", "rEmpty", "rEnable", "rKick"}

=============================================================================
