------------------------------ MODULE JtagUart ------------------------------
(***************************************************************************)
(* The interrupt-driven JTAG UART driver of the board support package      *)
(* (BSP/drivers/src/altera_avalon_jtag_uart_{init,read,write,ioctl}.c),    *)
(* which carries the printf of every program of HW8, with the hardware it  *)
(* drives (jtag_uart.vhd) and a host that may be unplugged.                *)
(*                                                                         *)
(* One application thread calls the driver; the interrupt routine and the  *)
(* one-second alarm preempt it between any two accesses to shared state    *)
(* but not each other (no nesting); the host and the FIFOs move between    *)
(* any two steps, those of the interrupt routine included.  led_count      *)
(* .objdump shows that the build keeps the order of the source.  The i-th  *)
(* character of a direction is the number i.                               *)
(***************************************************************************)
EXTENDS Naturals, Sequences

CONSTANTS
  BufLen,       \* ALTERA_AVALON_JTAG_UART_BUF_LEN, 2048 in the BSP
  WriteDepth, ReadDepth,          \* words in the hardware FIFOs, 64
  WriteThreshold, ReadThreshold,  \* their interrupt thresholds, 8
  IntMax,       \* INT_MAX
  DefaultTimeout, \* ALTERA_AVALON_JTAG_UART_DEFAULT_TIMEOUT, 10 seconds
  Timeouts,     \* arguments of the TIOCSTIMEOUT request
  MaxCall,      \* bound: largest block of one read or write call
  MaxChars,     \* bound: characters of a run, written and typed together
  MaxPlugs      \* bound: times the host is plugged in or out in a run

ASSUME SizeAssumption ==
  /\ BufLen \in Nat \ {0, 1}
  /\ WriteDepth \in Nat \ {0} /\ WriteThreshold \in 0 .. WriteDepth - 1
  /\ ReadDepth \in Nat \ {0} /\ ReadThreshold \in 0 .. ReadDepth - 1
  /\ IntMax \in Nat /\ IntMax > 3
  /\ DefaultTimeout \in 2 .. IntMax
  /\ Timeouts \subseteq Nat
  /\ MaxCall \in Nat /\ MaxChars \in Nat /\ MaxPlugs \in Nat

VARIABLES
  wfifo, rfifo,         \* hardware FIFOs towards the host and from it
  ien,                  \* interrupt enables in the control register
  pause_irq, ac,        \* idle-host interrupt condition; host activity bit
  host, plugs,          \* is the host there; how often that changed
  rx_in, rx_out, rx_buf,
  tx_in, tx_out, tx_buf,
  irq_enable,           \* the driver's copy of the interrupt enables
  host_inactive,        \* seconds without activity
  timeout,              \* seconds until the host is assumed absent
  isr, control, ravail, \* interrupt routine: place, register read, data left
  irqoff,               \* the application has disabled interrupts
  pc, seen, n, left, any, nonblock, word,   \* the application's call and its locals
  written, heard,       \* characters accepted by write; taken by the host
  typed, got            \* characters typed by the host; returned by read

hw == <<wfifo, rfifo, ien, pause_irq, ac>>
hostVars == <<host, plugs, heard, typed>>
rx == <<rx_in, rx_out, rx_buf>>
tx == <<tx_in, tx_out, tx_buf>>
drv == <<irq_enable, host_inactive, timeout>>
isrVars == <<isr, control, ravail>>
app == <<irqoff, pc, seen, n, left, any, nonblock, word, written, got>>
vars == <<hw, hostVars, rx, tx, drv, isrVars, app>>

Slots == 0 .. BufLen - 1

\* Mutant: the index is not wrapped.
Advance_Unwrapped(i, k) == i + k

\* Indices into the circular buffers advance modulo their length.
Advance(i, k) == (i + k) % BufLen

\* Characters held between two indices of a circular buffer.
Held(from, to) == IF to >= from THEN to - from ELSE BufLen - from + to

\* Between two readings of the control register its last value is dead.
NoControl == [RI |-> FALSE, WI |-> FALSE, space |-> 0]

Init ==
  /\ wfifo = <<>> /\ rfifo = <<>>
  /\ ien = {"RE"} /\ irq_enable = {"RE"}
  /\ pause_irq = FALSE /\ ac = FALSE
  /\ host \in BOOLEAN /\ plugs = 0
  /\ rx_in = 0 /\ rx_out = 0 /\ tx_in = 0 /\ tx_out = 0
  /\ rx_buf = [i \in Slots |-> 0] /\ tx_buf = [i \in Slots |-> 0]
  /\ host_inactive = 0
  /\ timeout \in {DefaultTimeout, IntMax}     \* IntMax: no alarm could be started
  /\ isr = "off" /\ control = NoControl /\ ravail = FALSE
  /\ irqoff = FALSE /\ pc = "idle" /\ seen = 0 /\ n = 0 /\ left = 0 /\ any = FALSE
  /\ nonblock = FALSE /\ word = {}
  /\ written = 0 /\ heard = <<>> /\ typed = 0 /\ got = <<>>

-----------------------------------------------------------------------------
(* The host and the hardware. *)

\* Interrupt conditions, each masked by its enable.
WI == "WE" \in ien /\ Len(wfifo) <= WriteThreshold
RI == "RE" \in ien /\ (pause_irq \/ ReadDepth - Len(rfifo) <= ReadThreshold)

HostTake ==
  /\ host /\ wfifo # <<>>
  /\ heard' = Append(heard, Head(wfifo))
  /\ wfifo' = Tail(wfifo)
  /\ UNCHANGED <<rfifo, ien, pause_irq, ac, host, plugs, typed, rx, tx, drv, isrVars, app>>

HostType ==
  /\ host /\ written + typed < MaxChars /\ Len(rfifo) < ReadDepth
  /\ typed' = typed + 1
  /\ rfifo' = Append(rfifo, typed')
  /\ ac' = TRUE
  /\ UNCHANGED <<wfifo, ien, pause_irq, host, plugs, heard, rx, tx, drv, isrVars, app>>

\* A host with nothing to type says so each time it polls the port.
HostPause ==
  /\ host
  /\ ac' = TRUE
  /\ pause_irq' = (pause_irq \/ rfifo # <<>>)
  /\ UNCHANGED <<wfifo, rfifo, ien, hostVars, rx, tx, drv, isrVars, app>>

Plug ==
  /\ plugs < MaxPlugs
  /\ plugs' = plugs + 1 /\ host' = ~host
  /\ UNCHANGED <<hw, heard, typed, rx, tx, drv, isrVars, app>>

-----------------------------------------------------------------------------
(* altera_avalon_jtag_uart_irq: one step per access to the device. *)

IsrStep(from) == isr = from /\ UNCHANGED <<hostVars, host_inactive, timeout, app>>

IsrEnter ==
  /\ WI \/ RI
  /\ ~irqoff
  /\ IsrStep("off") /\ isr' = "control"
  /\ UNCHANGED <<hw, rx, tx, irq_enable, control, ravail>>

IsrControl ==
  /\ IsrStep("control")
  /\ control' = IF WI \/ RI THEN [RI |-> RI, WI |-> WI, space |-> WriteDepth - Len(wfifo)]
                             ELSE NoControl
  /\ ravail' = RI
  /\ isr' = IF RI THEN "rx" ELSE IF WI THEN "tx" ELSE "off"
  /\ UNCHANGED <<hw, rx, tx, irq_enable>>

\* Nothing is read from the device while the buffer is full.
IsrRxFull ==
  /\ IsrStep("rx")
  /\ Advance(rx_in, 1) = rx_out
  /\ isr' = "rxEnd"
  /\ UNCHANGED <<hw, rx, tx, irq_enable, control, ravail>>

\* Mutant: the routine does not stop at a full buffer.
IsrRxRead_Unchecked ==
  /\ IsrStep("rx")
  /\ pause_irq' = FALSE
  /\ IF rfifo = <<>>
       THEN ravail' = FALSE /\ isr' = "rxEnd" /\ UNCHANGED <<rfifo, rx>>
       ELSE /\ rfifo' = Tail(rfifo)
            /\ ravail' = (Tail(rfifo) # <<>>)
            /\ rx_buf' = [rx_buf EXCEPT ![rx_in] = Head(rfifo)]
            /\ rx_in' = Advance(rx_in, 1)
            /\ UNCHANGED <<isr, rx_out>>
  /\ UNCHANGED <<wfifo, ien, ac, tx, irq_enable, control>>

IsrRxRead ==
  /\ IsrStep("rx")
  /\ Advance(rx_in, 1) # rx_out
  /\ pause_irq' = FALSE
  /\ IF rfifo = <<>>
       THEN ravail' = FALSE /\ isr' = "rxEnd" /\ UNCHANGED <<rfifo, rx>>
       ELSE /\ rfifo' = Tail(rfifo)
            /\ ravail' = (Tail(rfifo) # <<>>)
            /\ rx_buf' = [rx_buf EXCEPT ![rx_in] = Head(rfifo)]
            /\ rx_in' = Advance(rx_in, 1)
            /\ UNCHANGED <<isr, rx_out>>
  /\ UNCHANGED <<wfifo, ien, ac, tx, irq_enable, control>>

\* Data left behind: the buffer is full, so no more receive interrupts.
IsrRxEnd ==
  /\ IsrStep("rxEnd")
  /\ irq_enable' = IF ravail THEN irq_enable \ {"RE"} ELSE irq_enable
  /\ ien' = IF ravail THEN irq_enable' ELSE ien
  /\ isr' = IF control.WI THEN "tx" ELSE "control"
  /\ control' = IF control.WI THEN control ELSE NoControl
  /\ ravail' = FALSE
  /\ UNCHANGED <<wfifo, rfifo, pause_irq, ac, rx, tx>>

\* Mutant: the space read from the control register is not counted down to zero.
IsrTxWrite_NoSpace ==
  /\ IsrStep("tx")
  /\ tx_out # tx_in
  /\ wfifo' = IF Len(wfifo) < WriteDepth THEN Append(wfifo, tx_buf[tx_out]) ELSE wfifo
  /\ tx_out' = Advance(tx_out, 1)
  /\ control' = [control EXCEPT !.space = IF @ > 0 THEN @ - 1 ELSE 0]
  /\ UNCHANGED <<rfifo, ien, pause_irq, ac, rx, tx_in, tx_buf, irq_enable, isr, ravail>>

\* A word written to a full FIFO is lost (woverflow).
IsrTxWrite ==
  /\ IsrStep("tx")
  /\ control.space > 0 /\ tx_out # tx_in
  /\ wfifo' = IF Len(wfifo) < WriteDepth THEN Append(wfifo, tx_buf[tx_out]) ELSE wfifo
  /\ tx_out' = Advance(tx_out, 1)
  /\ control' = [control EXCEPT !.space = @ - 1]
  /\ UNCHANGED <<rfifo, ien, pause_irq, ac, rx, tx_in, tx_buf, irq_enable, isr, ravail>>

\* Mutant: transmit interrupts are switched off although characters are left.
IsrTxEnd_AlwaysOff ==
  /\ IsrStep("tx")
  /\ control.space = 0 \/ tx_out = tx_in
  /\ irq_enable' = irq_enable \ {"WE"}
  /\ ien' = irq_enable'
  /\ isr' = "control"
  /\ control' = NoControl
  /\ UNCHANGED <<wfifo, rfifo, pause_irq, ac, rx, tx, ravail>>

\* Space left in the FIFO: the buffer is empty, so no more transmit interrupts.
IsrTxEnd ==
  /\ IsrStep("tx")
  /\ control.space = 0 \/ tx_out = tx_in
  /\ irq_enable' = IF control.space > 0 THEN irq_enable \ {"WE"} ELSE irq_enable
  /\ ien' = IF control.space > 0 THEN irq_enable' ELSE ien
  /\ isr' = "control"
  /\ control' = NoControl
  /\ UNCHANGED <<wfifo, rfifo, pause_irq, ac, rx, tx, ravail>>

Isr ==
  \/ IsrEnter \/ IsrControl \/ IsrRxFull \/ IsrRxRead
  \/ IsrRxEnd \/ IsrTxWrite \/ IsrTxEnd

\* altera_avalon_jtag_uart_timeout, once a second.
Timeout ==
  /\ isr = "off" /\ ~irqoff /\ timeout # IntMax
  /\ IF ac
       THEN ac' = FALSE /\ ien' = irq_enable /\ host_inactive' = 0
       ELSE /\ host_inactive' = IF host_inactive < IntMax - 2 THEN host_inactive + 1
                                ELSE host_inactive
            /\ UNCHANGED <<ac, ien>>
  /\ UNCHANGED <<wfifo, rfifo, pause_irq, hostVars, rx, tx, irq_enable, timeout, isrVars, app>>

-----------------------------------------------------------------------------
(* The application's calls.  It runs only while no interrupt is served. *)

Absent == host_inactive >= timeout

Run(from) ==
  /\ pc = from /\ isr = "off"
  /\ UNCHANGED <<wfifo, rfifo, pause_irq, ac, hostVars, host_inactive, isrVars>>

NoStore == UNCHANGED <<ien, irq_enable, irqoff, word, timeout>>

\* The locals of a call are dead once it has returned.
Goto(to) ==
  /\ pc' = to
  /\ IF to = "idle" THEN n' = 0 /\ left' = 0 /\ any' = FALSE /\ nonblock' = FALSE
                    ELSE UNCHANGED <<n, left, any, nonblock>>

Call(place, k, nb) ==
  /\ Run("idle") /\ NoStore
  /\ pc' = place /\ left' = k /\ nonblock' = nb
  /\ UNCHANGED <<rx, tx, seen, n, any, written, got>>

CallWrite ==
  \E k \in 1 .. MaxCall, nb \in BOOLEAN :
    written + typed + k <= MaxChars /\ Call("wTake", k, nb)

CallRead == \E k \in 1 .. MaxCall, nb \in BOOLEAN : Call("rTake", k, nb)

CallClose == \E nb \in BOOLEAN : Call("cSpin", 0, nb)

\* TIOCSTIMEOUT
CallIoctl ==
  /\ Run("idle")
  /\ timeout # IntMax
  /\ \E t \in Timeouts : timeout' = IF t >= 2 /\ t < IntMax THEN t ELSE IntMax - 1
  /\ UNCHANGED <<ien, rx, tx, irq_enable, app>>

\* Mutant: the last slot is filled even when tx_out is at the buffer's start.
Room_NoGap(in, out) == IF in < out THEN out - 1 - in ELSE BufLen - in

\* Room up to the end of the buffer; one slot always stays empty.
Room(in, out) ==
  IF in < out THEN out - 1 - in
  ELSE IF out > 0 THEN BufLen - in ELSE BufLen - 1 - in

\* Characters up to the end of the buffer.
Filled(in, out) == IF in >= out THEN in - out ELSE BufLen - out

AtMost(k, bound) == IF k > bound THEN bound ELSE k

\* altera_avalon_jtag_uart_write.  What it returns is what it adds to written.
WTake ==
  /\ Run("wTake") /\ NoStore
  /\ n' = AtMost(Room(tx_in, tx_out), left)
  /\ seen' = IF n' = 0 /\ left > 0 /\ ~nonblock THEN tx_out ELSE 0
  /\ pc' = IF n' = 0 THEN "wKick" ELSE "wCopy"
  /\ UNCHANGED <<rx, tx, left, any, nonblock, written, got>>

WCopy ==
  /\ Run("wCopy") /\ NoStore
  /\ tx_buf' = [i \in Slots |-> IF i \in tx_in .. tx_in + n - 1
                                THEN written + 1 + (i - tx_in) ELSE tx_buf[i]]
  /\ written' = written + n /\ left' = left - n
  /\ pc' = "wPublish"
  /\ UNCHANGED <<rx, tx_in, tx_out, seen, n, any, nonblock, got>>

WPublish ==
  /\ Run("wPublish") /\ NoStore
  /\ tx_in' = Advance(tx_in, n) /\ n' = 0
  /\ pc' = "wTake"
  /\ UNCHANGED <<rx, tx_out, tx_buf, seen, left, any, nonblock, written, got>>

\* alt_irq_disable_all and the load of irq_enable, for the next step to store.
Kick(bit) ==
  /\ irqoff' = TRUE /\ word' = irq_enable \cup {bit}
  /\ UNCHANGED <<ien, irq_enable, timeout, rx, tx, seen, written, got>>

\* Mutant: only the register is written, not the driver's copy of it.
Store_NoCopy ==
  /\ ien' = word
  /\ irqoff' = FALSE /\ word' = {}
  /\ UNCHANGED <<irq_enable, timeout, rx, tx, seen, written, got>>

\* irq_enable and the control register are written; alt_irq_enable_all.
Store ==
  /\ irq_enable' = word /\ ien' = word
  /\ irqoff' = FALSE /\ word' = {}
  /\ UNCHANGED <<timeout, rx, tx, seen, written, got>>

WKick == Run("wKick") /\ Kick("WE") /\ Goto("wStore")
WStore == Run("wStore") /\ Store /\ Goto(IF left = 0 \/ nonblock THEN "idle" ELSE "wSpin")

\* A pass of a waiting loop that ends it, and the test behind the loop.
Leave(to, still) == NoStore /\ Goto(to) /\ seen' = still /\ UNCHANGED <<rx, tx, written, got>>

\* Mutant: an absent host does not end the wait.
WSpin_Patient == Run("wSpin") /\ seen # tx_out /\ Leave("wTest", seen)

WSpin == Run("wSpin") /\ (seen # tx_out \/ Absent) /\ Leave("wTest", seen)
WTest == Run("wTest") /\ Leave(IF seen = tx_out THEN "idle" ELSE "wTake", 0)

\* altera_avalon_jtag_uart_read; any says that ptr has left the buffer's start.
RTake ==
  /\ Run("rTake") /\ NoStore
  /\ LET k == AtMost(Filled(rx_in, rx_out), left)
         wait == k = 0 /\ ~any /\ ~nonblock
     IN /\ seen' = IF wait THEN rx_in ELSE 0
        /\ IF k > 0 THEN pc' = "rCopy" /\ n' = k /\ UNCHANGED <<left, any, nonblock>>
           ELSE Goto(IF any THEN "rKick" ELSE IF wait THEN "rSpin" ELSE "idle")
  /\ UNCHANGED <<rx, tx, written, got>>

RCopy ==
  /\ Run("rCopy") /\ NoStore
  /\ got' = got \o [i \in 1 .. n |-> rx_buf[rx_out + i - 1]]
  /\ any' = TRUE /\ left' = left - n
  /\ pc' = "rPublish"
  /\ UNCHANGED <<rx, tx, seen, n, nonblock, written>>

\* Mutant: read does not enable the receive interrupt again.
RPublish_NoKick ==
  /\ Run("rPublish") /\ NoStore
  /\ rx_out' = Advance(rx_out, n) /\ n' = 0
  /\ IF left > 0 THEN pc' = "rTake" /\ UNCHANGED <<left, any, nonblock>>
     ELSE pc' = "idle" /\ left' = 0 /\ any' = FALSE /\ nonblock' = FALSE
  /\ UNCHANGED <<rx_in, rx_buf, tx, seen, written, got>>

RPublish ==
  /\ Run("rPublish") /\ NoStore
  /\ rx_out' = Advance(rx_out, n) /\ n' = 0
  /\ pc' = IF left > 0 THEN "rTake" ELSE "rKick"
  /\ UNCHANGED <<rx_in, rx_buf, tx, seen, left, any, nonblock, written, got>>

RKick == Run("rKick") /\ Kick("RE") /\ Goto("rStore")
RStore == Run("rStore") /\ Store /\ Goto("idle")
RSpin == Run("rSpin") /\ (seen # rx_in \/ Absent) /\ Leave("rTest", seen)
RTest == Run("rTest") /\ Leave(IF seen = rx_in THEN "idle" ELSE "rTake", 0)

\* altera_avalon_jtag_uart_close
CSpin == Run("cSpin") /\ (tx_out = tx_in \/ Absent \/ nonblock) /\ Leave("idle", 0)

Resume ==
  \/ WTake \/ WCopy \/ WPublish \/ WKick \/ WStore \/ WSpin \/ WTest
  \/ RTake \/ RCopy \/ RPublish \/ RKick \/ RStore \/ RSpin \/ RTest \/ CSpin

Next ==
  \/ HostTake \/ HostType \/ HostPause \/ Plug
  \/ Isr \/ Timeout
  \/ CallWrite \/ CallRead \/ CallClose \/ CallIoctl
  \/ Resume

\* The processor runs; an interrupt stays requested while another is served or
\* interrupts are disabled, and is taken when that ends; a host that is plugged
\* in polls and drains the port.  Nobody is obliged to call or to type.
Fairness ==
  /\ SF_vars(Isr) /\ SF_vars(Timeout)
  /\ WF_vars(Resume)
  /\ WF_vars(HostTake) /\ WF_vars(HostPause)

Spec == Init /\ [][Next]_vars /\ Fairness

-----------------------------------------------------------------------------
(* Properties *)

WritePlaces == {"wTake", "wCopy", "wPublish", "wKick", "wStore", "wSpin", "wTest"}
ReadPlaces == {"rTake", "rCopy", "rPublish", "rKick", "rStore", "rSpin", "rTest"}

\* The state stays within the types of the C variables and registers: indices
\* inside the buffers, and no more in a FIFO than it holds.
TypeOK ==
  /\ wfifo \in Seq(Nat) /\ Len(wfifo) <= WriteDepth
  /\ rfifo \in Seq(Nat) /\ Len(rfifo) <= ReadDepth
  /\ ien \subseteq {"RE", "WE"} /\ irq_enable \subseteq {"RE", "WE"} /\ word \subseteq {"RE", "WE"}
  /\ pause_irq \in BOOLEAN /\ ac \in BOOLEAN /\ host \in BOOLEAN /\ ravail \in BOOLEAN
  /\ irqoff \in BOOLEAN /\ any \in BOOLEAN /\ nonblock \in BOOLEAN
  /\ plugs \in Nat /\ typed \in Nat /\ written \in Nat
  /\ heard \in Seq(Nat) /\ got \in Seq(Nat)
  /\ rx_in \in Slots /\ rx_out \in Slots /\ tx_in \in Slots /\ tx_out \in Slots /\ seen \in Slots
  /\ rx_buf \in [Slots -> Nat] /\ tx_buf \in [Slots -> Nat]
  /\ host_inactive \in Nat /\ timeout \in Nat
  /\ isr \in {"off", "control", "rx", "rxEnd", "tx"}
  /\ control \in [RI : BOOLEAN, WI : BOOLEAN, space : 0 .. WriteDepth]
  /\ pc \in {"idle", "cSpin"} \cup WritePlaces \cup ReadPlaces
  /\ n \in Slots /\ left \in Nat

\* Characters copied to the transmit buffer, but not yet published in tx_in.
Unpublished == IF pc = "wPublish" THEN n ELSE 0

\* Characters copied from the receive buffer that rx_out still covers.
Unreleased == IF pc = "rPublish" THEN n ELSE 0

InSequence(s, from) == \A i \in 1 .. Len(s) : s[i] = from + i

\* Every character written is in exactly one place between write and the host,
\* in order: taken by the host, in the FIFO or in the transmit buffer.
TransmitInOrder ==
  LET given == Len(heard) + Len(wfifo)
      held == Held(tx_out, tx_in) + Unpublished
  IN /\ InSequence(heard, 0)
     /\ InSequence(wfifo, Len(heard))
     /\ written = given + held
     /\ \A i \in 0 .. held - 1 : tx_buf[Advance(tx_out, i)] = given + 1 + i

\* The same for the characters the host types, up to the buffer of read.
ReceiveInOrder ==
  LET done == Len(got) - Unreleased
      held == Held(rx_out, rx_in)
  IN /\ InSequence(got, 0)
     /\ Unreleased <= held
     /\ \A i \in 0 .. held - 1 : rx_buf[Advance(rx_out, i)] = done + 1 + i
     /\ InSequence(rfifo, done + held)
     /\ typed = done + held + Len(rfifo)

\* No wake-up is lost.  Characters are never left in the transmit buffer with
\* the transmit interrupt off, unless write is on its way to enable it; the
\* receive interrupt is off only while read has something to find in the
\* buffer or is on its way to enable it again.
NoLostWakeup ==
  /\ tx_in # tx_out /\ "WE" \notin ien =>
       pc \in {"wTake", "wCopy", "wPublish", "wKick", "wStore"}
  /\ "RE" \notin ien =>
       \/ Held(rx_out, rx_in) > Unreleased
       \/ any /\ pc \in {"rTake", "rPublish", "rKick", "rStore"}

\* Each direction is a bounded first-in first-out channel.
Identity(k) == [i \in 1 .. k |-> i]
Down == INSTANCE SerialChannel
  WITH Char <- Nat, Capacity <- BufLen - 1 + WriteDepth, sent <- Identity(written), received <- heard
Up == INSTANCE SerialChannel
  WITH Char <- Nat, Capacity <- BufLen - 1 + ReadDepth, sent <- Identity(typed), received <- got
Channels == Down!Spec /\ Up!Spec

\* Nobody hangs on a missing host: a call that waits ends when the host drains
\* the port or is assumed absent, unless the application asked never to give
\* up (a timeout of IntMax - 1, or no alarm).  A reader may wait for a host
\* that is there and types nothing.
CallsEnd ==
  (timeout < IntMax - 1 /\ pc \in WritePlaces \cup {"cSpin"}) ~> (pc = "idle")
TypedIsRead ==
  (pc = "rSpin" /\ (rfifo # <<>> \/ rx_in # rx_out)) ~> (pc = "idle" \/ ~host)

\* What write has accepted reaches a host that stays.
AllHeard == <>[]host => <>[](Len(heard) = written)

=============================================================================
