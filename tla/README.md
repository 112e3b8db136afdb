# HDL From School: a verification project

The repository is one student's hardware and embedded coursework: VHDL and
Verilog designs for Altera DE2 boards, and C programs for the Nios II systems
built on them, with the board support packages (BSP) they are linked against.
It has no documentation beyond the sources and their comments; most of its
3830 files are output of Quartus and SOPC Builder, many of them several times
over.  This directory models the logic that keeps state in TLA+, checks it with
TLC and proves the properties that matter most with TLAPS.

Contents: 1 inventory, 2 modules and how they correspond to the code, 3 what
the runs check, 4 bounds, 5 fairness, 6 what is proved, 7 disagreements
found, 8 what is not modelled.

Paths are relative to `src/`; `EMSD` stands for `Embedded Micro System Design`,
`DL` for `Digital Logic`, `SW` for
`EMSD/Project/embedded project/DE2/DE2_Media_Computer/app_software`, `BSP` for
`EMSD/HW8/hw8a/BSP`.

## 1. Inventory

The programs are independent of each other, with these exceptions: the two
halves of the LCD clock share the digits; the interrupt-driven media program
is three activities (audio, PS/2 and timer, moving text) of one processor; the
polled media program does the recorder's job in one loop; and the HW8 programs
call the BSP drivers, two of which (JTAG UART and LCD panel) are woken by the
BSP's alarms.

### Modelled

**SCOMP processor** (`EMSD/HW5/scomp/scomp.vhd`).  State: control FSM,
instruction register, accumulator, program counter, write enable, and the RAM
with its registered port.  Operations: a clock edge in each of 14 control
states; the asynchronous reset.  Interaction: the FSM chooses the RAM address
combinationally, the RAM answers one edge later.  Hard: a word fetched or an
operand read one edge too early or late; reset in the middle of a STORE; the
ADDI state that does not always leave itself.  Correct when: every program,
self-modifying ones included, runs as its instruction set says, and only a
STORE changes memory.

**LCD clock, time** (`DL/Labs/lab7/Better Circuit/clock.vhd`).  State: six BCD
digits and an AM/PM flag.  Operation: one edge per second, with three buttons
read at it.  Hard: four sections of one process assign the same signals, and a
button can coincide with any carry.  Correct when: the digits are a settable
12-hour clock.

**LCD clock, display** (`lcdclk.vhd`, `clk_div.vhd`, `translate.vhd`,
`display.vhd` of the same directory).  State: 42 writing states with a toggle
and a wait state between them, the bus, and the display's own cursor and
memory.  Hard: digits are read one at a time while the time runs on a clock of
another period; nothing is ever read back from the display.  Correct when:
every character lands in its own cell and every second is shown in full.

**Media program, audio** (`SW/media_interrupt_C/audio_ISR.c`,
`pushbutton_ISR.c`, `exception_handler.c`).  State: recording buffers and their
index, the audio core's four FIFOs and control register, the edge-capture
register, LEDs.  Operations: the key handler starts a recording or playback,
the audio handler moves samples.  Hard: the codec moves half a frame between
any two register accesses; a key can cut into anything.  Correct when:
recordings hold whole frames in order, playback is complete and in order, and
the activity ends.

**Media program, PS/2 and refresh** (`media_interrupt.c`, `PS2_ISR.c`,
`interval_timer_ISR.c`).  State: `byte1..byte3`, `timeout`, the HEX displays.
Hard: the main loop reads the bytes one at a time with interrupts on.  Correct
when: the displays end up with the last three bytes, one refresh per tick.

**Media program, moving text** (`media_interrupt.c`).  State: position and
direction of a word.  Hard: edges are tested for equality, so one wrong step
is never corrected.  Correct when: the word stays on the screen, off the
message in the box, and is never trapped.

**Timed state machine** (`Intro FPLDs/HW 6/hw6 - Paul kafka/hw6.vhd`).  State:
four states, a count, a latch for the awaited sample.  Operations: a clock edge
with a sample, the asynchronous reset.  Hard: the reset does not clear the
count.  Correct when: the output changes only after a stable input.

**Media recorder, polled** (`SW/media_C/media.c`).  State: one buffer index,
`record` and `play`, the FIFOs.  Hard: two keys share the index, and reading a
key waits until it is let go.  Correct when: every recording ends.

**JTAG UART driver** (`BSP/drivers/src/altera_avalon_jtag_uart_*.c`).  State: two
circular buffers, the control register's interrupt enables and the driver's
copy of them, the count of idle seconds.  Operations: read, write, close and
ioctl in one thread; an interrupt routine and a once-a-second alarm; the host,
which may be unplugged.  Hard: a wake-up lost when the buffer empties (or
fills) as a call looks at it.  Correct when: characters arrive once and in
order, none waits for ever, and no call hangs on a missing host.

**Serial port driver** (`altera_avalon_uart_*.c`).  As above, with a port of one
character each way, framing errors, and no host that can be absent.

**LCD panel driver** (`altera_avalon_lcd_16207.c`).  State: cursor, text lines
of 80, the part shown, scrolling position and speed, a copy of the panel's
address counter, an "active" flag.  Operations: write (characters and control
sequences), a timer routine that scrolls.  Hard: the timer skips its repaint
when write is active, and moves the position while write paints; scrolling
arithmetic in signed chars.  Correct when: the copy matches the panel, the
panel shows the text at the scrolling position, and all of a long line is
shown in time.

**Alarms** (`BSP/HAL/src/alt_alarm_start.c`, `alt_tick.c`).  State: tick counter
of 32 bits, list of alarms with a time and a roll-over flag.  Operations: start
and stop, `alt_tick` with its callbacks.  Hard: the counter wraps; callbacks
change the list that is being walked.  Correct when: each alarm is called at its
tick.

### Not modelled

| component | source | state | what could go wrong |
|---|---|---|---|
| Interrupt example | `SW/interrupt_example_C` | a pattern shared by two handlers | lost key presses |
| Test program, JTAG echo | `SW/test_Media_Computer_C`, `SW/JTAG_UART_C` | UART FIFOs, display buffer | characters dropped |
| LCD transfer handshake | `DL/Labs/lab7/Found Online/LCD_Controller.v` | start, busy, done | start in the cycle of done |
| DE2_CLOCK | `DL/Labs/lab7/Found Online/lcd controller/DE2_CLOCK.vhd`, `Lab7_New/test.vhd` | 24-hour clock with tenths, LCD FSM | as the LCD clock |
| LCD tutorial | `EMSD/HW2/tutorial2 - Copy/LCD_Display.vhd` | LCD FSM, character counter | reset in a transfer |
| LCD line writer | `DL/Labs/lab7/Found Online/lcd controllerr/lcd_controller.vhd` | straight sequence | nothing but reset |
| Ripple clock | `DL/Labs/lab7/Found Online/lab6` | three counters clocked by each other | a reset makes a clock edge |
| Lab 6 clock | `DL/Labs/lab6/project files/lab6/Lab5.vhd` | three counters | none |
| Pig game | `Intro FPLDs/HW 8/Code Files/piggyGame.vhd` | FSM, turn and game totals | totals in a combinational process |
| Simon game | `DL/Final Project/Simon Game.vhd` | stage, attempts | does not compile |
| VGA driver | `DL/Final Project/VGA_driver.vhd` | row and column counters | range ends |
| 4-bit counters, logic units | `EMSD/HW3`, `EMSD/HW4` | four flip-flops; none | - |
| Adder, multiplier | `Intro FPLDs/hw 5`, `HW 3` | none | - |
| Bit swap benchmark, LCD character demo, small demos | `EMSD/HW8`, `done/hw8c`, `SW/getting_started_C`, `SW/floating_C` | none to speak of | - |
| SOPC systems, altera_up IP, rest of BSP/HAL, Quartus output, Labs 0-5 | generated, vendored, schematics | - | - |

Section 8 says why for each.  The hazards of the code, each with its line and
the properties about it, are in `PROJECT.json`.

## 2. Modules

An action is a clock edge (hardware), one register access (`MediaAudio`,
`PolledMedia`, `JtagUart`, `Uart`), one character written or painted
(`LcdDriver`), or the part of a routine between two accesses that others can
observe (`MediaPS2`, `Alarm`).  Definitions keep the source's names.  Definitions marked
*Mutant*, or named `X_Something` beside a definition `X`, are deliberate bugs
used to test the properties; nothing else refers to them.

**`Scomp`**: one action per control state of scomp.vhd; `RamEdge` is the
altsyncram on the same edge (address, data and write enable registered, output
not, and a read of the word being written sees the new data, as the megafunction's
NEW_DATA setting says).  `memory_address_register` is the combinational
address.  `AssertReset` moves the state register only, because the reset branch
of the process assigns nothing else; `HeldEdge` is a clock edge under reset:
the registers hold and the RAM still takes the edge.  `Init` is `reset_pc` with
zeroed registers: the fitter's report (scomp.map.rpt) encodes `reset_pc` as the
all-zero state, and FPGA registers power up at zero.  A reset in mid-run is
something the project itself simulates: scomp.vwf has a second reset pulse.

**`ScompISA`**: the abstract machine, one step per instruction, without clock,
states or port.  It is the instruction set the execute states implement, its
oddities included: an unknown opcode executes the word it addresses; ADDI adds
the addressed *word*, and if that is `X"FF"` subtracts one and takes the next
program word as another addend; a reset that strikes a STORE may write the
accumulator to word 0.  The refinement mapping (end of `Scomp`) commits an
instruction on the edge that leaves its execute state.

**`MCScomp`** instantiates it with four words of six bits and all programs made
of chosen words.  **`ScompProgram`** is program.mif and what its comments promise;
**`MCScompProgram`** runs it at the real size, with a real logic unit, of which the
assumption `OnTestMachine` says that it is one the program is written for.
**`ScompLogic`** holds one assumption about the logic unit, apart from `Scomp`
because TLC would evaluate it for 2^32 pairs of words at the real size.

**`LcdClock`**: one action, an edge of `clk` with any buttons; the last
assignment of the process wins, as in VHDL.  **`ClockSpec`** is the abstract
clock in numbers; the mapping reads the digits.

**`LcdWriter`**: the chain of writing states is a script of bus writes; `Write`,
`TOGGLE_E` and `WAITUP` are the three kinds of state, `PanelTakes` the HD44780
display latching the bus when `LCD_EN` falls (external: the display is not in
the repository; modelled from the commands the code sends).  The clock appears
as the parity of the second, and `SecondEdge` may come after the number of pulses
that the two real dividers leave room for.  A digit on the display is the
parity of the second it was read in, a letter the switch position it was read
under: `InPlace`, `EverySecondShown` and `NameSettles` distinguish no more.

**`MediaAudio`**: the handlers one register access per action, the audio core
(`Audio.v` and its serializers, vendored but in the repository) as four FIFOs with the
behaviour of its Verilog: the deserializer
drops a half frame when its FIFO is full and is held empty by a clear bit, the
serializer starts a frame only when both FIFOs have a word.  A sample is the
number of its frame since the recording was enabled; an output word is the
buffer index it came from.  The buffers keep the recording in progress only.
The globals `record` and `play` are never set by the code and are left out.
Interrupts do not nest, as the Nios II handler leaves them disabled.

**`MediaPS2`**: each interrupt routine is one action (nothing can run within
it, and what devices do meanwhile commutes with it), the main loop one action
per shared access.  The compiler's order of evaluating the three arguments is
a free choice.  `shift_buffer` and `hex_segs` are the conversion as the code
performs it, sign extension included.

**`Bounce`**: one action per refresh.

**`TimedFsm`**: a step is an edge of the clock with a sample, or of the reset.
The combinational process is `T`, `input1` (a latch: only two of the states set
it) and `nx_state`; `count` has the bits of `0 to time2` and wraps.

**`PolledMedia`**: one access to keys or audio port per step, with the code up to
the next.  A frame is a pair of words, left and right: the loop moves both together.

**`SerialChannel`** is the promise of a serial driver in one direction: a bounded
channel that accepts and delivers blocks, once and in order.

**`JtagUart`**: the program places of `read` and `write` (`pc`) and of the
interrupt routine (`isr`) are the accesses to what the two share; `Kick` and
`Store` are the two halves of the update of `irq_enable` and the control
register with interrupts disabled; `Timeout` is the alarm.  The FIFOs, the
"idle host" interrupt and the host are external, after jtag_uart.vhd and the
way the driver reads them.  The i-th character is the number i, so that a loss,
a repetition and an exchange all show.  Which accesses are separate was read
off the disassembly the project carries (led_count.objdump).

**`Uart`**: the same for the serial port; `IrqClear` writes the status register,
which clears the error flag of a character that has come meanwhile.  A close
waits for the ring to drain unless it is asked not to block.

**`LcdDriver`**: the terminal works on two records, `sp` (the driver's state) and
`panel`; operators such as `WriteData`, `ScrollUp` and `Paint` map one pair to
the next, as the C functions do.  The foreground call is the chain `Character`,
`SetLayout`, `Look`, `Repaint`, `Release`, `Finish`, `Again`, `Reactivate`.  Indices start
at 1.

**`Alarm`**: `AlarmTick` enters the walk, `NotExpired` and `Callback` look at an
alarm, `CallbackReturn` restarts or removes it; between the last two the
callback may start and stop alarms.  `due` is a history variable: it counts
ticks in plain numbers, and the code does not use it.

**Benches.**  `Board`, `MCMedia` and `MCDrivers` put several of these next to
each other and choose one at the start: they share no state, so that running
them together would only multiply their states.  `MCBoard` is `Board` with the
SCOMP program.  `MCJtagUart` and `MCLcdDriver`
give the constants of runs of their own, `MCMediaPS2` the two disagreements.

## 3. Runs

| run | what it asks | properties |
|---|---|---|
| `scomp` | any program, reset at any moment | `TypeOK`. `PortInv`: the RAM output is the word about to be used. `OnlyStoresWrite`. `ImplementsISA`: refinement of `ScompISA`. `InstructionsComplete`: no control state is a dead end except the ADDI spin |
| `board` | six small designs, all of them at real size but for the recorder's | `BoardTypeOK`. `ProgramResults`: program.mif leaves the values its comments promise. `ImplementsClockSpec`: all 86,400 times and all buttons. `InPlace`, `EverySecondShown`, `NameSettlesOnBoard`: the display writer. `Debounced`: the output of HW 6 changes only after a stable input, whatever count a reset left. `OnScreen`, `MessageIntact`, `WordKeepsCrossing`: the orbit of 7368 positions. `RecordEnds`: a polled recording ends, whatever keys are pressed |
| `media` | both halves of the interrupt-driven program | `MediaTypeOK`. `RecordedAligned`: whole frames from the first on, unless the FIFOs lost half a frame. `PlaybackInOrder`. `LedMode`. `AudioStops`. `LastThreeBytes`: bytes and mouse commands follow the stream. `RefreshOnlyOnTick`. `DisplaysSettle` |
| `drivers` | both serial drivers and the alarms, interrupts anywhere | `DriversTypeOK`. `TransmitInOrder`, `ReceiveInOrder`, `UartTransmits`, `UartReceives`: every character in exactly one place, in order. `NoLostWakeup`, `UartNoLostWakeup`: characters never wait with their interrupt off and nobody on the way to enable it. `DriversChannels`: refinement of `SerialChannel`, both directions of the JTAG UART and the transmitting one of the serial port. `OnTime`: alarms at their tick, across the wrap |
| `jtag_uart_wait` | a host that is unplugged or comes back | `CallsEnd`: a write or close ends when the host is slow or gone. `TypedIsRead`. `AllHeard`: a host that stays hears all that was accepted |
| `lcd_driver` | scrolling lines, ticks in a repaint, an unplugged panel | `DriverTypeOK`. `CopyMatchesPanel`. `ShowsText`: no position is left unpainted. `EveryCharacterShown` |
| `scomp_addi` (violated) | the value promised for ADDI | `AddiResult` |
| `scomp_address` (violated) | the comment on `execute_store2` | `AddressValidDuringWrite` |
| `media_ps2_torn`, `media_ps2_sign` (violated) | "Displays the last three bytes" | `NotTorn`, `ShowsItsArguments` |
| `lcd_driver_long` (violated) | lines "scroll ... to display them all" | `EveryCharacterShown` at real size |
| `uart_full` (violated) | interrupts stay off while the ring is full | `FullRingKept` |

For each property of each passing run `PROJECT.json` names a mutant of the
model that breaks it.

`UartReceives` excepts two losses: an overrun of the port, which the hardware
reports, and the driver overwriting a full ring.  The second is what `uart_full`
is about; the exception makes sure that it is the only one.

## 4. Bounds

- `scomp`: 4 words of 6 bits.  The properties relate the port, the control
  state and single words; four words hold a STORE into the word about to be
  fetched, a jump, a wrap of the program counter, an unknown opcode and the two
  forms of ADDI.  `FF` becomes 3, the largest operand, as it is in 8 bits.
- `board`: the SCOMP program, the clock, the dividers and the script of the
  display writer, the times of the state machine and the screen are the real
  ones.  The writer's switch moves once (`MaxToggles`): one change already meets
  every position of the script, and later ones start from a state that one
  change reaches too.  The history of equal samples stops at 9, beyond both
  times.  The recorder has FIFOs of 3 frames (128), reads above 1 (96), a
  buffer of 4 (500000) and at most 3 key presses: a key can fall into a
  recording, into a playback and into one restarted.
- `media`, audio half: FIFOs of 2 words (128), threshold 2 (96), a buffer of 3
  frames, at most 2 presses, frame numbers modulo 3.  An interrupt moves more
  than one word, the buffer ends within an interrupt and between two, the FIFOs
  overflow, and the second press falls at every point of the first activity.
  Display half: bytes `00`, `1B` and `AA` (the mouse's reset answer, a byte below
  and a byte above 80), a FIFO of 2, at most 4 bytes: one more than is shown.
- `drivers`, JTAG UART: buffers of 3 slots (2048), FIFOs of 1 (64), thresholds
  0 (8), blocks of at most 2, 4 characters in all
  (`MaxChars`), no unplugging.  A block wraps round the buffer's end, the buffer fills
  and empties with a call half way, and a burst ends with data left.  Serial
  port: a ring of 3 (64), blocks of 2, 4 characters in all (`uart_full`: 5), one framing
  error.
  Alarms: 3 of them, a counter of 4 values (2^32), delays 0 and 2, periods 0, 1
  and 3: an alarm falls due in the tick of the wrap, before and after it, and is
  restarted across it.  That the safety properties do not depend on these sizes is
  what section 6 proves.
- `jtag_uart_wait`: buffers of 2, FIFOs of 1, blocks of 1, 3 characters, one
  change of the plug.  The timeout is 2 alarms, 3 after a request of the
  application, and `IntMax` is 4: the count of idle alarms stops at 2, so that
  2 gives up and 3, like a timeout without an alarm, never does.
- `lcd_driver`: a panel of 2 columns with lines of 4 and chars up to 10, so that
  a line is longer than the panel but `scrollmax` fits, as in the real one for
  lines up to 62 characters; three texts that reach every control sequence, the
  line below the last one, a full line and two lines of different speed.  The
  timer fires any number of times in a call, except that within a pass of write
  (from the look at the position to the check) it does not bring the position
  back to where it was (`NoRound`).  On the real panel a round takes at least 36
  ticks of 100 ms, and a pass some milliseconds, or about a second if the panel
  dies in it.  `lcd_driver_long`: the real 16, 80 and 127, with one line of 63
  characters.

## 5. Fairness

`Scomp`: the clock is free running, and a reset that is pressed is let go; no
one is obliged to press it.  `LcdWriter`: the dividers run, so that pulses and
seconds alternate as their bounds allow.  `MediaAudio`: the codec's clocks and
the processor run; a playback waits for the serializer, a recording for the
deserializer.  `MediaPS2`: the processor executes and takes interrupts; the
timer, which runs continuously, ticks again.  `Bounce`: the main loop is
released by the timer.  `PolledMedia`: codec and loop run.  Nobody has to press
a key, send a byte or move a switch.

`JtagUart`: strong fairness for the interrupt routine and the alarm, weak for
the rest.  Strong, because either is disabled again and again: by the other, by
the application's sections with interrupts off, and by a host that empties the
condition; the request itself is kept by the hardware, so that a condition that
recurs is served.  A host that is plugged in drains the port and lets it go
idle; nobody has to call, type, plug or unplug.  `LcdDriver`: the 100 ms alarm
recurs and a call, once made, runs.  `Uart`, `Alarm` and `TimedFsm` are checked for
safety and refinement only.  The runs of the serial
drivers (`drivers`, `jtag_uart_wait`, `uart_full`) set `CHECK_DEADLOCK FALSE`:
with no one calling and the bounds used up, the system is at rest.

In the benches one formula serves a task of several parts (`MediaFairness`,
`BoardFairness`): only one of them is ever enabled, so it is the fairness of the
part that runs.

## 6. What is proved

Every safety property that a passing run checks is a theorem; so are the three
refinements, every action property and the three liveness properties whose
argument has a fixed number of stages.  The theorems hold for every value of
the constants that the modules' named assumptions allow; what some of them
assume beyond that is said below.  `BoardCorrect`, `MediaCorrect` and
`DriversCorrect` state the safety results once more for the benches of the runs
`board`, `media` and `drivers`, whose invariant is the conjunction of those of
the parts: each part takes the steps of its own specification or none.

- `ScompProofs`: `TypeCorrect`, `PortCorrect`, `WriteEnableCorrect`,
  `OnlyStoresWriteCorrect` and `Refinement` (SCOMP implements `ScompISA`), for
  every memory size, word size, program and bitwise logic.  Assumed: sizes are
  positive, an address fits in a word, programs and logic are typed.  The
  inductive invariant is `TypeOK /\ WriteEnableInv /\ ControlInv /\ PortInv`:
  the port invariant alone is not inductive, since the word in flight is the
  right one only if the previous edge did not write (`WriteEnableInv`) and if
  the control state belongs to the instruction held (`ControlInv`).  The
  refinement goes action by action: the edges into decode and the execute
  states are stuttering, the edge that leaves them is the instruction.

  `ProgramCorrect`: on a machine of the size program.mif is written for, whose
  logic unit is right on the four pairs of words it is applied to (`TestMachine`),
  the program leaves its results however often reset strikes.  `ProgramInv` is an
  invariant of the instruction-set view, so that by the refinement one
  case per instruction suffices: what the accumulator holds in front of each
  (`AccumulatorInv`) and what is stored behind each (`StoredInv`).  What makes it
  long is the torn STORE: it can put seven values over the first instruction
  (`Torn`), most of which are no instruction, so that the word they address is
  executed in place of the second one, and sometimes the word that one addresses
  in place of the third (`BeginningInv`).  From the fourth instruction on the
  damaged program goes the same way with other data; hence `Finished` asks
  for an intact program, and `DamageIsPermanent` shows that damage is never
  repaired.  `AddiEnds`: the word announced as 5554 is 5555.
- `MediaAudioProofs`: `TypeCorrect`, `RecordedCorrect`, `PlaybackCorrect` and
  `LedCorrect`, for FIFOs, thresholds and buffers of any size.  A property of the
  buffers alone is not inductive: `StreamInv` follows each half frame from the
  codec through the FIFO into the buffer (buffer and FIFO together are the frames
  since the recording began, and the left side may be one half frame ahead),
  `PlayInv` does the same in the other direction, up to what has been heard.
  `ControlInv` says which part of a handler can be running under which setting of
  the control register: a key cuts a recording short at any access, and the rest
  of the interrupted handler must not be taken for the new activity.
- `MediaProofs`: `LastThreeCorrect` and `OneRefreshPerTick` for any bytes and
  FIFO, and `MediaTypeCorrect` for both halves of the program together.  The
  three variables are followed through the main loop as a suffix of the bytes
  taken (`QueueInv`); `TickPending` says that `timeout` is set only if a tick
  came since the last refresh, or the main loop is already in one.
- `BoardProofs`, the small designs:
  - `ClockTypeCorrect` and `ClockRefinement` (the digit cascade is the clock of
    `ClockSpec`).  The type invariant is inductive as it stands because it ties
    the two hour digits together (`hour \in 1..12`).
  - `WriterTypeCorrect` and `InPlaceCorrect`, for every pair of dividers.  The
    machine never reads the display back; `MachineInv` says that nevertheless the
    display's cursor is where the next character belongs (`AddressFor`), and, while
    `LCD_EN` is high, that the bus holds the word of the state just left (`OnBus`).
    Lemmas first compute the script of 42 words from its pieces.
  - `EverySecondCorrect`: every second is shown in full *if it has room for 103
    pulses of the writer's clock*.  `FreshInv` gives each digit an age, the pulses
    since the display took it: as soon as more pulses have passed since the
    digits changed than the age and one for the reading, the digit is the new one.
    The oldest age is 101, hence 103 (`LongSecond`); the real dividers leave 131,
    those of the comment at lcdclk.vhd:140 leave 65.
  - `DebouncedCorrect` and `FsmTypeCorrect`, for all times and counter widths.  In
    the two states with a time of their own the count is the length of the present
    run; in the other two it may be anything a reset left.
  - `StaysOnScreen` and `WordTypeCorrect`, for every screen and box with room for
    the word on all sides (`LayoutAssumption`).  The strengthening `HeadedBack` says
    that at an edge the word is already headed inwards; that needs the box too far
    from the edges to turn it outwards in the same step.
  - `MessageCorrect`: the word never touches the message, *if the box covers an odd
    number of rows and the message keeps off its last column* (`OddHeight`,
    `HoldsMessage`: rows 26 to 34, columns 28 to 52, and the message in columns 33 to
    46).  The word does enter the box: on its way along a side it is turned round in
    the corner and is inside at the next step.  As its column and row add up to an
    even number for ever, it then swings between the two outermost columns
    (`CaughtInv`) and finds the other corner of that side, which turns it out.  In a
    box of even height it can miss that corner and work its way inwards, one column
    at each turn (it does if row 33 is made the last), so the hypothesis is needed.
  - `PolledTypeCorrect`: the index of the polled recorder never passes the buffer.
  - `BoardTypeCorrect`: the same for all of them on the board of the run `board`.
- `JtagUartProofs`: `TypeCorrect`, `TransmitCorrect`, `ReceiveCorrect` and
  `NoLostWakeupCorrect`, for all sizes of buffers and FIFOs, thresholds, blocks
  and any host.  The three are not inductive alone: `Blocks` (what a call has
  decided to copy still fits or is still there, because the interrupt routine
  only adds room or data, and lies in one piece), `RoutineInv` (the routine leaves
  its receive loop with data only because the buffer is full, which is why
  switching the interrupt off there is safe) and `Enables` (the driver's copy of
  the enables is right, and the word a call is about to store only adds to it,
  since nothing runs between its two accesses) make them so.  Lemmas reduce the
  circular indices (`Advance`, `Held`) to plain differences first; then there is
  one lemma per group of actions.
- `UartProofs`: `UartTypeCorrect`, `UartTransmitCorrect`, `UartReceiveCorrect` and
  `UartWakeupCorrect`, for every ring of two or more places, any blocks and any
  traffic and errors on the line.  `Sending` says that a place write has found
  free stays free and the port stays ready for the routine that saw it ready;
  `Receiving` that the character the routine takes is there, with the error flag
  it has read unless the port overran, and that the one read is about to release
  is the one it copied.  Where the driver can overwrite its own ring (`spilled`,
  disagreement 6 below) the receiving claims are conditional, as in
  the property.  Ring lemmas (`BetweenGrow` and its kin) say what one step of an
  index or one write does to the sequence a ring holds.
- `DriversProofs`: `ChannelsRefined`, that each direction of the JTAG UART and
  the sending direction of the serial port implement `SerialChannel`.  By the
  invariants above, what was sent and what has arrived are both an initial piece of
  1, 2, 3 ..., so a channel is two counts: a step that moves neither is a
  stutter, one that moves one of them is a send or a delivery, and the capacity
  bounds their difference.  `CalledOnTime` and `AlarmTypeCorrect`, for every counter
  width, set of alarms, delays up to 2^w - 2 and any callbacks: `time` and
  `rollover` together say how far an alarm is from being due, but differently on
  the two sides of the walk, since the flag of an alarm the walk has not reached
  yet still belongs to the tick before (`Ahead` against `Settled`).
  `DriversTypeCorrect`: all three drivers together.
- `LcdDriverProofs`: `TypeCorrect`, `CopyCorrect` and `ShownCorrect`, for panels of
  2 to 39 columns, lines of any length that a char can count, and texts of any
  letters and control sequences.  `PhaseInv` says what the "active" flag
  means at each point of a call, `ScrollInv` how far the panel has been painted for
  which position: the timer may move the position any number of times, but not a
  whole round within a pass (`NoRound`), so `old` differs from it exactly when
  another pass is due.  That a line's text
  is laid out to a width is what makes the positions comparable; the longest
  line is found with the minimum principle of a well-founded order.

### Liveness

`KeepsFetching` (SCOMP), `DisplaysCorrect` (the HEX displays) and `NameCorrect` (the
display writer) prove `InstructionsComplete`, `DisplaysSettle` and
`NameSettlesOnBoard`.  The provers do not look into ENABLED, and know no induction
over temporal formulas; two kinds of hypotheses take their place, each named
where it is used.

- That a fair step can be taken when its guard holds: `ClockRuns`, `DisplaysRun`,
  `DividersRun`.  The actions are guards and assignments, and TLC, which does
  evaluate ENABLED, has found the three true in every state of the instances
  that the runs use.
- That the environment comes to rest: `Silent` (no more bytes), `SwitchRests`.
  The specifications bound the bytes and the moves of the switch, from which the
  same follows; but the bound is a constant, and counting up to it is an induction.
  The theorems do not depend on the bound.

The argument is a chain of stages, each left by a fair step for the next and by
no other step.  In `KeepsFetching` the stages are the number of edges left to the
next fetch; an ADDI that finds FF goes back to where it was, and one that does so
for ever is the exception the property makes.  In `DisplaysCorrect` they are the
accesses of one refresh: a refresh that begins after the last byte reads the right
three, whatever the one before it has shown, and `ReadInv` says which of them a
refresh under way has already read.  In `NameCorrect` a round of the display takes
102 pulses; that it ends is shown on the binary digits of the pulses left, as a
digit that is set is cleared at the next pulse after those below it are
(`RoundsEnd`).  The round that begins after the switch has come to rest, and after
the letter then on the bus is gone, puts the name chosen into every cell
(`Swept`), and none takes it away.

### Only model-checked

`AudioStops`, `WordKeepsCrossing`, `RecordEnds`, `CallsEnd`, `TypedIsRead`, `AllHeard`
and `EveryCharacterShown`: liveness whose number of stages depends on a constant
(the length of a buffer, a text, the width of the screen), so that a proof is an
induction over a temporal formula, which the installed provers do not do.
`WordKeepsCrossing` is moreover a fact about this screen and this box: on a screen
of 21 columns and 9 rows, with a box of column 7 and rows 5 and 6, the word ends
up in an orbit that misses the right-hand edge.

No module declares a RECURSIVE operator.

## 7. Disagreements found

Runs that show the code departing from its own comments (`findings`):

1. program.mif:53 promises 5554 after ADDI; the machine adds memory word FF,
   not the integer FF, and leaves 5555.
2. scomp.vhd:132 says the address is valid until the write enable falls; a
   reset between moves it to 0 and the next edge writes the accumulator there.
3. The HEX displays can show three bytes that were never the last three
   (main reads them with interrupts enabled) until the next refresh.
4. A byte of 80 or more shows `FF` for every byte to its left (signed `char`).
5. A line of 63 to 80 characters on the LCD panel never scrolls: `scrollmax`, a
   signed char, is set to twice the width (altera_avalon_lcd_16207.c:460).
6. The serial driver's read enables the receive interrupt after its last look
   at the ring.  If the ring filled in between, the next character is stored
   over the free slot and the whole ring is lost.

Smaller observations that no run is spent on:

- pushbutton_ISR.c: a key pressed between the read and the clear of the
  edge-capture register, or together with another, is dropped.
- media.c: `play` pressed before a recording ends finds the index at the end of
  the buffer and stays set, with its light on, until KEY2 is pressed again.
- altera_avalon_uart_init.c: clearing the status register also clears the error
  flag of a character that came after it was read; that character passes for a
  good one.  The flow-control branches are dead: the port has no CTS.
- altera_avalon_lcd_16207.c:338: clearing to the end of the line while the
  cursor rests below the last line writes behind the line array.
- alt_alarm_start.c: a delay of 2^32 - 1 ticks is called at the next tick, and a
  callback that stops the alarm saved as next leaves it pointing to itself, so
  that the walk never ends.  No caller in the repository does either.
- The JTAG UART driver disables interrupts around the update of `irq_enable`;
  with one thread no wake-up would be lost without it, and the once-a-second
  alarm, which rewrites the control register from the copy, would repair an
  enable lost in the register.
- lcdclk.vhd:103: the letter of the second half of the day is written as `51`,
  a Q, and toggles with `hflag`; lcdclk.vhd:140 says 769230 clocks where the code
  counts 380000 (with 769230 a second would not be shown in full: that is the
  mutant of `EverySecondShown`).
- media_interrupt.c:227: the segment table shows 6 and b alike; and the moving word
  slips onto the last column of the box when it passes a corner diagonally,
  against the comment at lines 27-29 but without touching the message
  (`MessageCorrect` says why).
- altera_avalon_lcd_16207.c: once `scrollmax` has overflowed (disagreement 5), the
  timer moves the position and nobody repaints; `ShowsText` leaves this case out.

## 8. Not modelled

Whole components, with the reason:

- *No defined step*: the pig game updates totals from themselves in a
  combinational process and the ripple clock clocks counters with each other's
  carries, so gate delays and not the source decide what they do.  The Simon
  game and the drafts beside the LCD line writer do not compile.
- *Nothing a model adds to*: the Lab 6 clock, VGA driver, 4-bit counters, logic
  units, adder, multiplier, bit swap and LCD character demos are stateless,
  without input, or small enough for exhaustive simulation.
- *Not used*: the LCD transfer handshake and DE2_CLOCK were downloaded for the
  lab, and no design that the student built contains them; the LCD tutorial is
  the display writer with a constant text.
- *Shown elsewhere*: the interrupt example's key handling is that of
  pushbutton_ISR.c; the test program's UART loop is polled and drops characters
  by design.
- *Generated or vendored*: SOPC Builder and Quartus output, the altera_up IP and
  the rest of the BSP (flash table, start-up, logging, files, devices).  What the
  modelled programs need of them (FIFOs, interrupt conditions, ports, timer) is
  modelled as external definitions, from their Verilog or VHDL where the
  repository has it.  These, and further copies of the same BSP, are most of the
  source lines of the repository, so that only a small share of all lines
  can ever be mapped.

Within modelled components: metastability of the asynchronous reset and of the
buttons; the electrical timing of the LCD bus; the contents of audio samples;
drawing on the screen other than the moving word; what earlier recordings left
in the buffer; bouncing of the push buttons, which the DE2 board filters in
hardware; the small, polled variants of the drivers, which the BSP does not
build; the semaphores of the drivers, which are empty in this single-threaded
BSP; the LCD driver's escape buffer (control sequences arrive complete) and
power-up sequence; the order within the alarm list (a walk may take any); the
PS/2 half of the polled media program, which shares no state with its recorder;
project/media.c, a copy of it with other texts that does not compile.
