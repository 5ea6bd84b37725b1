# core-k: verification project

`core-k` is the low-level controller of a 3D printer on a Raspberry Pi. Its heart
is the kernel module `data_getter`: /proc handlers store what users want, three
hrtimer callbacks talk to the chips over i2c, SPI0 and SPI1. This directory holds
TLA+ models of that module, of the bus drivers it calls and of the program that
connects it to the PC, the TLC runs that check them on small instances, and
TLAPS proofs for every instance.

All paths below are relative to `src/prepare_rpi/`; `dg.c` is
`linux_aha/data_getter.c`.

## The system

| component | state | operations | interacts with |
|---|---|---|---|
| PWM outputs | `pwm_channel[c].wanted_value`, `.actual_value`; the registers of the PCA9685 | `schedule_set_pwm`, `set_pwm`, `proc_set_heater/hooter/head_ac220`, `turn_off_all_pwm_channels` | slow callback writes; handlers, alarms, reset and unload store |
| expander outputs | `gpiox1b/2a/2b_reg` (byte, `changed`, lock), `val8`; the expander latches | `proc_set_microstep/door/axis`, `turn_off_all_axes`, flush in the slow callback, `set_gpiox_reg` | as above |
| control core | `iostatus`, `module_stats`, `old_reset` | fast callback (reset, RTD reset, enable, counters), sloow callback (door, watchdog, error windows), handlers | sets `is_enabled`, which gates the two above |
| RGB lamp | `rgb`, `rgb_lock`, `blink_timer` | `set_rgb`, `proc_set_rgb`, blink code | stores PWM wishes |
| slot schedule | `ctr` of the slow callback | one slot in twenty per tick | order of all reads and writes |
| sensor reads | `rx_rtdbuf`, `rx_ctrbuf`, status bits | `read_rtd`, `read_spi1`, `read_fault_pins`, ... | error counters; /proc readers copy the buffers |
| i2c driver | completion, current message | `bcm2835_i2c_xfer`, ISR | all i2c users share `buf0`, `i2cmsg` |
| SPI drivers | FIFO counters, chip select | polling transfer with timeout | sensor reads |
| module lifecycle | proc entries, timers | `data_getter_init`, `data_getter_cleanup` | everything |
| UDP bridge | one socket, one UART | five threads of `connect_to_pc` | writes /proc files, reads /proc files |
| CRC, test programs, scripts | none that is shared | | |

What is hard about it: users, three callbacks and chips run concurrently with few
locks; a shadow value says what a chip is believed to hold and transfers fail
without being repeated; an enable flag is tested long before the write it guards;
errors are counted by one callback, judged by another and reset by a third; and
every request is a level or an edge that another actor polls. The list with line
numbers is `hazards` in `PROJECT.json`.

What makes each part correct: outputs move only while enabled, end up at the last
wish, never go back to an older one, and recover from a failed transfer at the next
clean write; an alarm is raised for enough failures and only then; alarm and reset
drop old wishes; a reset leaves a clean slate; requests are served; the watchdog
bites when armed. A bus transfer that reports success has moved its own
bytes, whatever timed out before, and every transfer returns; a datagram from the PC is
applied once and to all entries that accept it, and the bridge ends when told to. Some
of this the code keeps with exceptions only; each is named at its property and listed
under Findings.

## Modules

| module | what it is |
|---|---|
| `WriteBehind` | abstract specification: a register that shows, a while later, the newest value asked |
| `PwmChannels` | the PWM outputs down to single bytes of a duty |
| `GpioxPorts` | the expander ports with lock, flag, unlocked reads and the tick counter that gives each its turn |
| `SenseControl` | the three callbacks and the handlers that steer them |
| `RgbLamp` | who chooses the colour of the lamp, and how it reaches the three lamp channels |
| `I2cXfer` | one i2c call against its interrupt handler, with timeouts |
| `SpiPoll` | the constants and variables that `RtdSpi` and `AuxSpiPoll` share |
| `RtdSpi` | `read_rtd` and `cfg_rtd_chips` on the polling transfer of the SPI0 driver |
| `AuxSpiPoll` | the polling transfer of the counters' SPI bus |
| `ModuleLifecycle` | load, failing load and unload against handlers and timers |
| `UdpBridge` | the threads of `connect_to_pc` around one socket |
| `PwmChannelsProofs`, `GpioxPortsProofs`, `SenseControlProofs`, `RgbLampProofs`, `I2cXferProofs`, `SpiProofs`, `ModuleLifecycleProofs`, `UdpBridgeProofs` | theorems of each |
| `MCPwmChannels`, `MCGpioxPorts`, `MCSenseControl`, `MCRgbLamp`, `MCI2cXfer` | constants for TLC |

### PwmChannels

`wanted` and `actual` are the two values of `struct pwmval`, `chip` the LEDn_OFF
registers. A writer's call is the sequence of `schedule_set_pwm` it makes
(`proc_set_heater`: one per heater, `turn_off_all_pwm_channels`: one per channel),
consumed one store per step, so callers and callback interleave between any two.
`RejectBadData` is the early return in the loop of `proc_set_heater`. The callback
is `SkipSlot` (nothing to write), `BeginWrite` (the compare at dg.c:310), `Latch`
(the second read at 312), four `WriteByte` or `WriteByteFails` (324, 340, 355, 367)
and `Commit` (372). A byte that fails may or may not have reached the chip. A duty
is a pair of bytes. `hit` is history: channels whose latest write met a failure.

### GpioxPorts

`val` and `changed` are the port bytes (by field) and flags, `lock` the spin lock.
A caller takes the lock, makes the two stores, in either order as the callback
looks without the lock, and releases it. The callback counts a tick in `Skip` and
`BeginFlush`; `Due` is the test `!((ctr + k) % EVERY_NTH_TIME)`, whose sum has the width
of `ctr`, and `current` is the port whose tick it is. After the test of the flag come
`CopyByte`, `set_gpiox_reg` or `TransferFails`, and `Clear`, which waits for the lock,
compares and clears.

### SenseControl

One action per statement that touches what another callback or a handler can see;
`pc[t]` says where callback `t` is. The fast callback is `FastBegin`, then either
the reset (`ResetInit`, `turn_off_everything`, `clear_all_stats`,
`clear_all_errors`, `ResetDone`) or `RtdTest`, `RtdClear`, `init_i2c0`, `Gate`,
`read_spi1`. The sloow callback is `SloowBegin` (door latch), then the watchdog: `DogTest`
(the read at dg.c:1659), `DogLoad` and `DogStore` (the read and the write of `-=` at 1661),
`DogJudge` (the read at 1662) and `Bite`, with users writing between any two of them;
then `Window` per bus, with `ErrorDisable` and `ErrorTurnOff` for
`handle_hw_error` and `RaiseFlag` before it (i2c) or after it (all others), as the
code has it. The slow callback handles one slot per tick. `Cpu` gives the CPU of
each timer: callbacks of one CPU exclude each other (the hrtimer core runs them one
after the other, also when a transfer makes one of them wait), others interleave.
Outputs are on or off here; `believed` is what the slow callback takes an output to be
(`actual_value`, or `changed` being down), `shown` what the chip has. `SlowPush` records
the wish in `believed` whether its transfers (up to four) go through or not; a push that
fails is counted and not repeated. `burst`, `rtdOwed`, `biteWanted`, `fresh`, `hit` and
`disarmed` are history: failures since the last quiet window, a request not yet served,
whether the user wants a bite, outputs asked for since the last alarm or reset, outputs
whose latest push met a failure, and a disarm between the reads of one watchdog check.

### RgbLamp

`proc_set_rgb` checks a user's colours and rejects all of them if one is out of range;
`Lock`, `CopyField` (the `memcpy`, field by field) and `Unlock` store them in `rgb`.
`set_rgb`, which the fast callback calls at every tick (`FastReset`, `FastColour`) and
`handle_hw_error` at an alarm, waits for the same lock, behind the test of test mode
(`MaySet`). The sloow callback moves the blink timer and reads the pattern (`SloowBegin`),
stores a wish per colour (`SloowColour`), all without the lock, and ends with
`SloowQuiet` or `handle_hw_error`. `Push` is a lamp slot of the slow callback for one
colour: `PushClean`, or `PushFails`, which leaves any level in the chip and the wish in
the shadow (`ShadowTakes`); the bytes are the subject of `PwmChannels`. `Rank` is the
order in which `memcpy` comes to the fields. A pattern that is no member
of `pattern_t` skips the switch, as no branch is taken. `whole` and `torn` are history:
the last setting stored completely, and whether a handler was copying during this tick;
`hit` has the channels whose latest push failed.

### I2cXfer

The caller is `Begin` (up to `reinit_completion`), `start_transfer`, `Completed` or
`TimedOut`, then `Return` or `ReturnTimeout`. The handler reads the status once
(`IsrEnter`) and goes through `IsrError`, `IsrDone`, `IsrTooMany` or `Fill`, the last a byte at a
time; with the FIFO filled it tests for another message (`IsrMore`) and moves on to it
(`IsrNext`). All other branches end in `IsrClear` (controller and status) and
`IsrComplete`. `start_transfer` is called by both and is four steps in each: `Load` (reading
`curr_msg`), `Test` (of `num_msgs`), `Take` (its decrement) and `Go` (the registers), `IsrLoad`
to `IsrGo` in the handler. Handler and caller may be on two CPUs, so they interleave, and
a timeout may come at any moment of the wait. The controller sends or receives a byte at
a time, or fails, between any two steps: it may be through with the first message
before it is given the second (`overtaken`). A handler that moves `curr_msg` past the end of
a call finds what other calls have put there (`MessageAt`). The interrupt
line is shared, so the handler may run whenever its status has something to say.

`sent`, `got`, `nacked`, `overtaken`, `before` and `straggler` are history. `straggler`
marks calls that were started while the handler was at work on what an earlier one left, or
met it while they were being started. For those the code gives no guarantee: a late
`complete` passes for the new call's own, and both may pass the test of `num_msgs`, which
then goes to -1. The properties say so; they do say that it takes a timeout, as no call that
did not time out leaves a handler under way (`QuietAfterReturn`). The history of a straggler
stands still, as nothing is said of it. `Begin` is one step although it makes three stores:
a handler that is under way meanwhile makes the call a straggler, and one that comes and
goes between the stores does nothing that it would not do before them. Messages of
`data_getter` are one or two bytes long, so the level at which the RXR interrupt comes is
never reached and its branch is not modelled. A call is one or two messages of which the
first is written (`CallAssumption`), as all callers make them.

### RtdSpi

A call (`read_rtd` in the slots, `cfg_rtd_chips` at a reset) selects a chip over i2c
(`Select`, `SelectFails`), starts the transfer (`transfer_one`) and polls: `wr_fifo` and
`Filled`, `rd_fifo`, then `RtdKeepPolling`, `RtdGiveUp` after the timeout, or `Complete`, which
resets the controller. `Deselect` follows a completed transfer only: after a timeout
`read_rtd` returns with the chip selected and the controller as it is. `Shift` is the
controller with the selected chip, `RtdJiffies` the clock. A received byte is named by chip
and place in its frame; a stored one is right or wrong. `spoiled` and `tainted` are history:
this transfer began on what a failure left, and buffers such a transfer has filled.
Names that `AuxSpiPoll` has too carry the prefix `Rtd` (`RtdInit`, `RtdGiveUp`, ...), so that
one module can hold the theorems of both.

### AuxSpiPoll

The loop of `bcm2835aux_spi_transfer_one_poll` reads the status (`ReadStatus`), then
writes a word, reads one, looks at the clock (`AuxKeepPolling`, `AuxGiveUp`) or ends (`Done`).
The status is a snapshot: the controller (`Load`, `Store`, `Lose`) goes on between it and
its use. `Begin` is `read_spi1` up to the loop; it does not empty the FIFOs, because the
code does not. Words carry their place and the transfer, so a word of an earlier
transfer can be told. `dirty` is history: a transfer timed out or a word was lost.

### ModuleLifecycle

`InitModule` is what a load starts with (the kernel's zeroed statics), `InitFails` and
`CreateFails` the two ways out, `proc_mkdir`, `proc_create` and `hrtimer_start` the rest of
`data_getter_init`. The unload is `ExitModule`, `CleanupOff` (`turn_off_everything`),
`HideEntry` and `RemoveEntry` per entry, `RemoveDir`, and `hrtimer_cancel` per timer, which
waits for a running callback. Handlers are entered and left (`Enter`, `Handled`); one whose
code is gone ends the kernel (`Oops`). `Expire`, `Fast`, `Slow` and `Sloow` are the callbacks,
reduced to what they do to the enable flag and to on/off outputs. `kept`, `missed` and
`leaked` are history: outputs on since before the load, outputs whose latest transfer
failed, and a load that failed between two entries.

### UdpBridge

`recvthread` and `serial_write` both call `recvfrom` on `sockfd`; what one takes the other
does not see. A write datagram is `OpenFile` (or `OpenFails`) and `PutFile` per entry. What
is written may be lost (`Lost`): the handler of an entry in `Refusing` does not take every
value (dg.c:402, 424; a datagram's `bad` says which entries its values do not suit), a file
in `Stray` is opened outside /proc (`connect_to_pc.c:139`), and another thread may have
closed the number of the file. A failed `fopen` is followed by `fclose(NULL)`: `Crash`.
`sockfd` says what the descriptor number stands for: the socket, nothing, or a file that
`recvthread` opened after another thread closed the socket. A thread that waits in
`recvfrom` keeps the socket alive. The loops of the two sending threads change nothing here
until SIGINT makes them close the socket and leave.

Datagrams are numbered as they arrive at the socket (`NumberedComes`): the network may
lose, repeat and reorder what the PC sends, and nothing here depends on the order of
sending. `serial_read` counts the characters of a line against the `Room` of its buffer
(99 and the NUL); the buffer starts with anything, as it is not initialised. `ReadFails`
is a read that returns -1, which `if(ret)` lets pass, so that the old character is appended
again. Once `strcat` has written beyond the buffer (`spilled`) its contents are anybody's guess
and the program may crash (`Overrun`). `asked`, `clean` and `arrived` are history: the latest
write taken that suits each entry, and the characters that came since the last Z of a line
that is not the first and was read without a failure.

### WriteBehind

`want`, `taken`, `shown`, `open`. `PwmChannels` and `GpioxPorts` implement it when
no transfer fails; a failed transfer is what the history `hit` excepts in their
properties. The refinement mapping takes `taken` from the latched value while a write is
under way and from the shadow or chip otherwise; while the low byte of a duty is in the
chip and the high byte is not, the register counts as showing the old duty.

## Runs

Bounds are named constants: calls (`MaxJobs`, `MaxCalls`, `MaxAsks`), failing transfers
(`MaxFaults`), configurations at resets (`MaxResets`), alarms and failing pushes of the lamp
(`MaxMishaps`), datagrams (`MaxNumber`, `InboxSize`), how far a late handler goes on in the
messages (`MaxMsg`). `rtd`, `gpiox`, `bridge`, `i2c`, `control` and `rgb` take two to three
minutes each, `pwm` about one, all others seconds.

| run | cfg | result | what it shows |
|---|---|---|---|
| pwm | PwmChannels | holds | `CleanWriteHeals`, `OnlyWrittenWhileEnabled`, `LastAskIsShown` with two writers, one failure |
| pwm_refines | PwmRefines | holds | `PwmChannels` implements `WriteBehind`, fairness included |
| gpiox | Gpiox | holds | `FlagDownMeansFlushed`, `OnlyFlushedWhileEnabled`, `LastStoreIsFlushed` with two callers and one failure; `RoundServesAll` across the wrap of `ctr` |
| control | Control | holds | on one CPU: `HeldResetDisables`, `ResetIsClean`; alarms are earned and bursts seen (`AlarmMeansBurst`, `NoBurstForgotten`); `AlarmDropsWishes`, `OnlyPushedWhileEnabled`; RTD requests are served, the watchdog bites, outputs follow unless their last push failed |
| rgb | RgbLamp | holds | a quiet tick shows one setting; the lamp tells the mode, in test mode it is the user's, but for channels whose last push failed |
| i2c | I2cXfer | holds | no message is started twice (`OwnMessages`), success means all bytes moved, errors have a cause, the bus is quiet after a return, every call returns |
| rtd | RtdSpi | holds | bytes of one chip stay out of another's buffer (`OwnBytes`), reads return and recover |
| spi1 | AuxSpi | holds | `OwnWords`, `WordsAreFramed`, `EveryTransferReturns` |
| lifecycle | ModuleLifecycle | holds | what an unload leaves, which outputs stay on behind zeroed statics, `rmmod` ends |
| bridge | UdpBridge | holds | each entry shows the latest write that suits it, clean lines go out whole, SIGINT ends the program |
| control_error | ControlError | violated | outputs come back on while an error flag is up |
| control_disabled | ControlDisabled | violated | disabling does not switch outputs off |

Why the bounds are enough. The races on outputs are between one callback and at most two
writers on one register: two writers with two or three calls give a store before, during and
after a write and a second writer between them. Two byte values per half distinguish a torn
duty from both whole ones. One failure is enough to separate shadow and chip; a second one
only repeats it, and recovery after it is a property of the first. `Control` uses thresholds
of one failure per window (1 for SPI1 in the code, 10 and 1000 for the others, and the
comparison is the same), so two failures raise an alarm; three user writes give wish, enable
and one of reset, watchdog or a change of mind. A timeout of one tick makes the watchdog
bite at the first, one of 7 ms, no multiple of the tick of 5, at the second with -3 left. In
`I2cXfer` the two calls of `data_getter` follow each other for ever, as numbers of calls are
kept by parity; the only bound is `MaxMsg` = 2, how far a handler that meets another call
may move `curr_msg`: calls it does not meet never come to it, and with 3 the invariants hold
too. `AuxSpi` has two words and FIFOs of one, so that FIFOs fill, empty and overflow and a
word is left over. `UdpBridge` has three entries for the nine, one that refuses values, one
outside /proc and one that takes all; two numbered datagrams, as many others as the PC
likes, and room for two characters, so that lines fit, fill the buffer and overrun it.

`Gpiox` has a round of five ticks and nine values of `ctr`: like 2^32, a multiple of 20 plus
16, nine is no multiple of the round and leaves most of one, so that the wrap comes in the
middle of a round. `RgbLamp` has one user with four settings (steady, beating, pattern or
colour out of range; the alarm adds a blinking one) and a blink time of two ticks, so that
the timer has a bottom, a middle and a top; two user writes give a setting and a switch, or
two settings, in either order, one alarm or failing push comes at any time, and callbacks
come without bound. `RtdSpi` has two chips and frames of two bytes: enough for a byte to
land with the wrong chip or in the wrong place; one failing select or deselect, one
configuration, and timeouts without bound. `ModuleLifecycle` has a gated and an ungated
output and two entries, the first and the last of a list; loads, unloads and failing
transfers come without bound.

Deadlock is checked in every run but `bridge`, whose program ends, and `lifecycle`, where
a call of code that is gone ends the kernel. `TypeOK` of `GpioxPorts`, `SenseControl`,
`I2cXfer` and `ModuleLifecycle` and `AuxTypeOK` are proved (that of `I2cXfer` within `IInv`)
and not part of a run.

Error counters are unbounded naturals (`MaxFaults` bounds them in runs); that they wrap
after 2^32 failures is left out. The tick counter `ctr` wraps in the model as in the code.

### Fairness

`PwmChannels` and `GpioxPorts`: weak fairness of the slow callback, which the
hrtimer core restarts for ever (`HRTIMER_RESTART`), and of a writer that is inside a
handler; users never have to call. `Clear` waits for a lock that its holder, who is
inside a handler, releases. `SenseControl`: strong fairness of each callback. On one
CPU another timer may be ready whenever this one is, and only the order of expiry
decides; expired timers are served in that order, so none is passed over for ever.
No fairness is assumed of users, of enabling or of failures. `I2cXfer`: weak fairness
of a call that has begun; the controller and the interrupt may stop for good.
`AuxSpiPoll`: weak fairness of the loop and of jiffies; none of the controller.
`RgbLamp`: weak fairness of a handler that has been entered, of the callback under way and
of the fast tick, strong fairness of the beginning of the sloow tick and of the push, for
the reason given for `SenseControl`. `RtdSpi`: weak fairness of the reads, the driver and
jiffies; that the controller works is a hypothesis of `ReadsRecover` only.
`ModuleLifecycle`: weak fairness of the unload, of callbacks and of handlers that have been
entered; strong fairness of `hrtimer_cancel`, which tries again until it meets
the timer between two runs of its callback. None of loading or of `rmmod` being called.
`UdpBridge`: weak fairness of each thread and of the PC sending something when
the socket has room; none of who gets a datagram, and none of SIGINT.

## Findings

1. `control_error`: `handle_hw_error` (dg.c:1366) never sets `hardware_error`; the next
   fast tick enables again. The head of dg.c asks for safe outputs on internal errors.
2. `control_disabled`: disabling (dg.c:1496) leaves outputs on, against the same comment.

Each is the run of one property that a comment of the code states. Other behaviour of
the code that the models show and that the properties above are worded around:

- With timers on several CPUs `is_enabled`, tested once per slow tick (dg.c:1547), may be
  stale when an output is written; no timer is pinned to a CPU. Some of the `SenseControl`
  theorems assume `OneCpu` for that reason.
- The check of the watchdog (dg.c:1659-1662) is a test, a load, a store and a second test. A
  disarm or a feed between load and store is overwritten; a disarm between the first test and
  the load makes it bite at once, as -1 - 5 is taken for time run out, and so does one between the
  store and the second test. `WatchdogBites` speaks of users who stay with their wish,
  `BitesAreDue` excepts the disarm.
- An i2c call of two messages may fail with -EIO although bus and driver did all right: if
  the first message is over before the handler has started the second
  (i2c-bcm2835-hrt.c:222, 282), its DONE is taken for the end of the second (`ErrorsAreEarned`).
- A call that is started while a late handler is under way may be completed with that
  one's status, and both may decrement `num_msgs` (i2c-bcm2835-hrt.c:265, 268).
- A transfer of SPI1 that times out (spi-bcm2835aux-hrt.c:285) leaves its words in the
  FIFOs and the next one takes them for its own and succeeds; dg.c:121 speaks of "most
  recent counter values, corrected by checksum", and no checksum is compared.
  `OwnWords` is about transfers with no such predecessor.
- A comment in `read_rtd` says its transfer is not complete on return; with the polling
  driver it always is.
- A timed-out `read_rtd` leaves the chip selected and the controller active; the next
  read of another chip may take over its bytes. The read after that is right again.
- The red blink of an alarm is overwritten by the next fast tick, which comes sooner than the next
  sloow one, as `hardware_error` stays FALSE (`LampTellsMode` holds after alarms too).
- Unload stores zeroes that no callback pushes, so outputs stay on; a reload believes
  them off and does not write them until something else is asked (`OnlyInherited`).
- A load that fails between two /proc entries leaves those made so far, which lead to
  code that is gone, and the directory, so that no later load succeeds.
- `connect_to_pc.c:139` opens `reset_hw` without the /proc prefix, so a reset from the PC
  never reaches the module.
- After SIGINT a write of `recvthread` may be lost because another thread closes its file
  (`connect_to_pc.c:160`, `224`, `263`), which is why `OneDatagramAtATime` is about the time
  before.
- An entry of /proc that refuses a value (dg.c:402, 424) keeps an older one while the other
  entries of the datagram move on; nobody looks at the results of `fwrite` and `fclose`.
- `serial_read` overruns its buffer when no Z comes for 100 characters
  (`connect_to_pc.c:290`), sends what the buffer held at the start in its first line, and takes
  a failed read for a character (`connect_to_pc.c:287`); `LinesAreWhole` is about the other lines.
- A failed flush of a port or a failed byte of a duty is counted, recorded as done and not
  repeated before the wish changes: the output, and the lamp, may stay different from what was
  asked for ever (`hit` in `LastAskIsShown`, `LastStoreIsFlushed`, `OutputsFollow`,
  `LampTellsMode`, `TestLampIsTheUsers`).

## Proofs

Every theorem holds for all values of the constants that satisfy the named
assumptions (`ChannelAssumption`, `VisitAssumption`, `BoundAssumption`, ...), that is for
any channels, ports, outputs, slot orders, users, bounds and thresholds.

Liveness itself is beyond the prover: it needs ENABLED and induction over a measure. What
can be proved is the safety half of such an argument, and the theorems whose names end in
`End`, `Closer` or `Served` do so. Each gives a natural number that falls with every step
of the process that shall get somewhere and that no other process raises, or shows
that no turn is taken in vain. What is left for the liveness property is that the
process goes on, which is the fairness assumed, and that part only TLC checks.

*PwmChannelsProofs.* The inductive invariant `IInv` says, for the write under way, how many
bytes of the latched duty are in the chip unless a transfer of it failed, and that
a gated channel is being written only while enabled. From it follow `TypeCorrect`,
`Heals`, `SkipIsSound` and `GatedOutputs`, and `SlotsAreServed`: the channels come in order, and
none is left with a skipped or half-made write that passes for a served one, which is the
safety half of `LastAskIsShown`. `PwmImplementsWriteBehind` (assuming
`MaxFaults = 0`) maps `Latch` to `Take`, the byte that completes the duty to `Show`, a
store to `Ask` and everything else to a stutter.

*GpioxPortsProofs.* `LockInv` says who holds a lock is between the two stores of a call
on that port, and has raised the flag unless that store is still to come; `FlushInv` says
that after the transfer the expander holds the copied byte. `FlagDownMeansFlushed` is
not inductive without them: the clear compares under the lock, and only the lock
discipline shows that no half-made store hides behind an equal byte. `RoundIsWhole` is
arithmetic of the counter: whatever its width, provided it holds one round, the turn
of every port comes within any `EVERY_NTH_TIME` ticks, as the sum `ctr + k` is zero at its
own wrap and zero is a turn.

*SenseControlProofs.* There are two inductive invariants. `EachInv` holds on whatever CPUs
the timers expire, however their callbacks interleave: `CauseInv` and `SlotInv` (where a
callback stands says what it is working on), `ResetInv`, `RequestInv` (a reset of the RTD
chips that is owed is still up or being carried out), `DueInv` (what the watchdog has left
from its first read to its bite, unless a user disarms it in between) and `HealInv` (chip
and belief agree but for `hit`). From it `TypeCorrect`, `ResetHolds`, `RequestsAreKept` (the
safety half of `RtdResetServed` and `WatchdogBites`), `BitesAreDue` (no early bite but for
that disarm) and `SlotsAreServed` (that of `OutputsFollow`). `IInv` adds what needs
`OneCpu`, the timers expiring on one CPU; without it the enable test may be stale and
`GatedPushes` is false. `Solo` (at most one callback under way) carries the rest: `PushInv`
(a push under way is enabled), `CleanInv` (what a reset has wiped so far), `WishInv` (a wish
is fresh, or an alarm or reset is about to drop it) and `CountInv` (the two counters differ
by the failures since the last quiet window; an alarm under way has seen too many). `Solo`,
`WishInv` and `CountInv` are what is not visible in any single handler. TLC finds each of
`OnlyPushedWhileEnabled`, `AlarmDropsWishes` and `ResetIsClean` violated as soon as one of
the three timers has a CPU of its own, and `AlarmMeansBurst` unless the fast and the sloow
timer share one. That a failure is counted in one step is itself a consequence of `OneCpu`:
on two CPUs `errors++` is a load and a store, so nothing about the counts is claimed there.
`AlarmsAreEarned` and `BurstsAreSeen` are the two directions of `CountInv`: no alarm without
more than `TooMany` failures since the last quiet window, and no such burst forgotten before
a reset.

*RgbLampProofs.* The holder of `rgb_lock` has copied all but its `todo` (`LockInv`); without
a holder `rgb` is the last whole setting (`WholeInv`); during a tick in which nobody has
copied it is so as well, and the pattern read is that setting's (`TickInv`), so that the
wishes stored so far are (`ShownInv`). `set_rgb` cannot change it under the tick because callbacks
of one CPU exclude each other.

*I2cXferProofs.* All of it is about calls that no late handler meets (`~straggler`).
`DriverInv` says which message caller and handler are at and how many are left, step by
step of `start_transfer`; `OwnMessages` is not inductive without it, since between test and
decrement nothing but the place of the two tells that the other is not there
too. While the handler fills the FIFO the transfer is `Writing`, while it goes on to the
second message `Leaving`; between two runs of it the engine is still at the first message with the
second in its queue (`Behind`), asks for bytes (`Waiting`), sends the last of them (`Written`)
or reads (`Receiving`). `Situation` picks the one that fits, `RunInv` says
in each how engine, FIFO and the driver's counters add up to the bytes of the call, and which
DONE is `Stale`; `ClosingInv` and `EndInv` carry that through the handler's way out, `StartInv` is
what a new call may find, and `StatusInv` ties the status bits to what the engine did. From it
`MessagesAreOwn`, `SuccessIsMoved`, `ErrorsEarned` and `QuietAfter`, for any calls of one or two
messages with any number of bytes.

*SpiProofs, RtdSpi.* For any number of chips and failures, any length of a reading, and FIFOs
that hold a whole transfer (`RtdAssumption`; the FIFOs have 64 bytes, the longest transfer nine).
`Engine` says that a controller that is not active is empty and that only a timeout leaves it
active, `Selection` that the chip of the call stays selected, that a chip whose
buffer is filled from leftovers is tainted, and that any other transfer begins at the
head of a frame; `BytesClean` that in such a transfer the bytes read, those in the two FIFOs
and those still to be written are consecutive places of one frame, and that those
read are right. Together with `OwnBytes` they are inductive (`RtdInv`); `OwnBytes` alone is not, as
a wrong byte in a FIFO shows in no buffer yet. `RtdCallsEnd`: every step of a call brings
its end closer but a look at the clock before the timeout.

*SpiProofs, AuxSpiPoll.* The words of a transfer are a pipeline: buffer, receive FIFO, wire,
transmit FIFO, words still to write. As long as nothing was lost their places are
consecutive, which gives `WordsAreOwn` for transfers and FIFOs of any length;
`WordsUnderSelect` needs that a finished loop has read as many words as it wrote.
`AuxTransfersEnd`: once the clock has run out, at most `4 * Words + 2` steps of the loop are
left, as a turn that does not look at the clock has moved a word (`EveryTransferReturns`).

*ModuleLifecycleProofs.* `AtInv` says where load and unload are in their lists, `TimerInv`
that a timer is armed from its start to its cancel and only an armed timer's callback
runs, `ProcInv` that an entry is gone from its removal on, and its handlers with it.
`OnlyInheritedDiffer` needs `TimerInv`: no callback writes while the module is out.
`UnloadComesCloser`: no step of an unload is taken twice, as a hidden entry is not found
and a cancelled timer not armed again; at most nine are left (`UnloadEnds`).

*UdpBridgeProofs.* The datagrams that wait are in the order in which they arrived and
younger than what `recvthread` holds (`Waiting`), and what is being applied is not older
than what it replaces (`Forward`). With `AskedInv`, what the entries not yet reached are
meant to show, every entry shows the latest write that suits it, or is still to be
reached (`OneAtATime`), for any set of refusing and stray entries. `WholeLines` needs what the
buffer of `serial_read` holds between two Zs and that a line ceases to be clean with a failing
read or an overrun. `OneAtATime` speaks of the time before SIGINT;
`NothingIsOlder` holds for ever: neither an entry nor the UART goes
back to an earlier arrival, although one thread takes what the other would have used. The
order in which the network delivers is no part of it. `StopComesCloser` adds up what each thread
has left to do after SIGINT (`StopEnds`); a crash brings it to zero.

Only model-checked: everything temporal under fairness (`LastAskIsShown`,
`LastStoreIsFlushed`, `RtdResetServed`, `WatchdogBites`, `OutputsFollow`, `LampTellsMode`,
`TestLampIsTheUsers`, `EveryCallReturns`, `ReadsRecover`, `EveryTransferReturns`, `UnloadEnds`,
`StopEnds`, and the liveness part of the refinement), which the prover cannot do; the
violations. The refinement of `WriteBehind` by `GpioxPorts` is proved
(its safety part) and not a run.

Worth proving next: the safety halves of `LastStoreIsFlushed` and `TestLampIsTheUsers` beyond
`RoundIsWhole` and `OneSetting`.

## Not modelled

- Several callbacks in one i2c call at a time (`buf0`, `i2cmsg`; `i2c_lock` is never taken,
  dg.c:202). On one CPU callbacks exclude each other (lemma `SoloNext` of
  `SenseControlProofs`), so there is nothing to show; on several any mixture of two
  messages can be sent and no statement about the bytes would be left.
- The alarm repeats at every sloow tick until a reset, as the old count is not brought
  up to date (dg.c:1671). The model does so too; no text says it should not.
- A reset written and released between two fast ticks is not seen (dg.c:1461): the entry is
  a level that is sampled, and who holds it long enough is outside the repository.
- A handler that holds a port lock and is interrupted by the hrtimer that wants it (dg.c:606).
  With the real-time kernel that `setup_drivers.sh` names, callbacks are threads and the
  lock has its owner's priority raised; under a plain kernel the two would wait for ever.
- The wrap of the 32-bit error counters after 2^32 failures.
- The interrupt paths of the SPI drivers, which the short polled transfers of `data_getter`
  never take; probe functions, clocks and debug output of all three drivers.
- Decoding of pins and of the counter message, values of sensors, log messages.
- In the bridge: contents of frames to the PC, jitter statistics, the reads of /proc by the two
  sending threads (their opens are taken to succeed), and other programs that write to /proc.
- The chip select going low by itself that a comment speaks of (dg.c:1007-1012).
- `crc.c` (a loop of twelve lines that only an interactive test calls), the test programs,
  the examples, the test peer `connect_to_rpi.c`, build and start scripts: straight-line
  code with prompts and I/O, nothing that runs concurrently or is kept.
