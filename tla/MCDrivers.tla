------------------------------ MODULE MCDrivers ------------------------------
(***************************************************************************)
(* The drivers of the board support package that share state with          *)
(* interrupts, each with its device: the JTAG UART, the serial port and    *)
(* the alarms of the system clock.  They are used by different programs; a *)
(* behaviour follows one of them and the others stay as they were.         *)
(***************************************************************************)
EXTENDS MCJtagUart, Uart, Alarm

VARIABLE device

driversVars == <<vars, uartVars, alarmVars, device>>

DriversInit ==
  /\ device \in {"jtag", "serial", "clock"}
  /\ device # "jtag" => host = FALSE /\ timeout = IntMax
  /\ device # "clock" => alarm = CHOOSE a \in Alarms : TRUE
  /\ Init /\ UartInit /\ AlarmInit

Jtag(A)   == device = "jtag" /\ A /\ UNCHANGED <<uartVars, alarmVars, device>>
Serial(A) == device = "serial" /\ A /\ UNCHANGED <<vars, alarmVars, device>>
Clock(A)  == device = "clock" /\ A /\ UNCHANGED <<vars, uartVars, device>>

DriversNext == Jtag(Next) \/ Serial(UartNext) \/ Clock(AlarmNext)

DriversSpec == DriversInit /\ [][DriversNext]_driversVars

\* The state of every driver and device stays within its types.
DriversTypeOK == TypeOK /\ UartTypeOK /\ AlarmTypeOK

\* Each direction of both serial drivers, rings and device together, is a
\* channel that delivers every character once and in order (SerialChannel).
DriversChannels == Channels /\ UartChannel
=============================================================================
