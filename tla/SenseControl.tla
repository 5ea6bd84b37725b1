---------------------------- MODULE SenseControl ----------------------------
(***************************************************************************)
(* The control core of data_getter: the three hrtimer callbacks and the     *)
(* /proc handlers that steer them.                                          *)
(*                                                                          *)
(*   fast  (200 us)  reset, RTD reset, enable, counters over SPI1           *)
(*   slow  (600 us)  reads, and the gated outputs one per tick              *)
(*   sloow (5 ms)    door latch, watchdog, error windows of the three buses *)
(*                                                                          *)
(* Callbacks whose hrtimer sits on the same CPU run one after the other;    *)
(* data_getter_init starts the three timers in a row and pins none, so the  *)
(* CPU of each is a parameter.  /proc handlers run between any two steps.   *)
(*                                                                          *)
(* An output (PWM channel or port field) is off (0) or on (1); how it is    *)
(* written, and that a port is written again with what it has, is the       *)
(* subject of PwmChannels and GpioxPorts.  Left out: the lamp, test mode,   *)
(* the values read, the uint32 wrap of the counters.                        *)
(***************************************************************************)
EXTENDS Integers, Sequences

CONSTANTS
    Cpu,        \* the CPU of each timer
    Output,     \* the gated outputs
    Visit,      \* the slots of the slow callback: outputs and bus reads
    TooMany,    \* TOOMANY_x_ERRORS of each bus
    Tick,       \* laarge_delay_ms
    Timeouts,   \* what users write to watchdog_timeout_msec
    MaxAsks,    \* bound: writes to /proc
    MaxFaults   \* bound: failing bus transfers

Timer == {"fast", "slow", "sloow"}
Bus   == {"i2c", "spi0", "spi1"}
Cause == Bus \cup {"watchdog"}

ASSUME VisitAssumption ==
    Visit \in Seq(Output \cup Bus) /\ Len(Visit) > 0 /\ Output \cap Bus = {}

ASSUME NumberAssumption ==
    /\ TooMany \in [Bus -> Nat] /\ Tick \in Nat \ {0} /\ Timeouts \subseteq Int
    /\ MaxAsks \in Nat /\ MaxFaults \in Nat

VARIABLES
    reset_status, reset_i2c0, enabled_status,  \* iostatus, written by users
    is_enabled,         \* iostatus.is_enabled
    watchdog_timer,     \* iostatus.watchdog_timer
    flag,               \* iostatus.i2c_hardware_error ... watchdog_timeout_error
    hardware_error,     \* iostatus.hardware_error
    errors, old,        \* module_stats.x_errors and .__old_x_errors
    old_reset,          \* static variable of the fast callback
    asked,              \* wanted value of an output
    believed, shown,    \* what the slow callback takes for it, what the chip has
    slot,               \* static ctr of the slow callback, modulo the slots
    pc,                 \* where each callback is
    cause,              \* which check of the sloow callback is under way
    left,               \* the watchdog time the sloow callback has computed
    disarmed,           \* history: a user disarmed it in the midst of its check
    asks, faults,       \* bounded: writes to /proc, failed transfers
    burst,              \* history: failures on a bus since its last window
    rtdOwed,            \* history: an RTD reset was asked and not begun
    biteWanted,         \* history: the last timeout a user wrote was positive
    fresh,              \* history: outputs asked since the last alarm or reset
    hit                 \* history: outputs whose latest push met a failure

user   == <<reset_status, enabled_status, asks, biteWanted>>
rtd    == <<reset_i2c0, rtdOwed>>
stats  == <<errors, old, burst, faults>>
alarms == <<flag, hardware_error>>
timer  == <<watchdog_timer, disarmed>>
dog    == <<timer, left>>
chips  == <<believed, shown, hit>>
outs   == <<asked, chips, fresh>>
vars   == <<user, rtd, stats, alarms, dog, outs, is_enabled, old_reset, slot,
            pc, cause>>

FastPC  == {"idle", "init", "turnoff", "clrstats", "clrerrors", "disable",
            "rtd", "rtdclear", "rtdinit", "gate", "spi1"}
SlowPC  == {"idle", "read", "push"}
SloowPC == {"idle", "dog", "dogload", "dogstore", "dogjudge", "bite", "window",
            "raise", "off", "zero"}

TypeOK ==
    /\ reset_status \in BOOLEAN /\ reset_i2c0 \in BOOLEAN
    /\ enabled_status \in BOOLEAN /\ is_enabled \in BOOLEAN
    /\ watchdog_timer \in Int /\ left \in Int /\ disarmed \in BOOLEAN
    /\ flag \in [Cause -> BOOLEAN] /\ hardware_error = FALSE
    /\ errors \in [Bus -> Nat] /\ old \in [Bus -> Nat] /\ burst \in [Bus -> Nat]
    /\ old_reset \in BOOLEAN
    /\ asked \in [Output -> {0, 1}] /\ believed \in [Output -> {0, 1}]
    /\ shown \in [Output -> {0, 1}]
    /\ slot \in 1..Len(Visit)
    /\ pc \in [Timer -> FastPC \cup SlowPC \cup SloowPC]
    /\ pc["fast"] \in FastPC /\ pc["slow"] \in SlowPC /\ pc["sloow"] \in SloowPC
    /\ cause \in Cause
    /\ asks \in 0..MaxAsks /\ faults \in 0..MaxFaults
    /\ rtdOwed \in BOOLEAN /\ biteWanted \in BOOLEAN
    /\ fresh \subseteq Output /\ hit \subseteq Output

Init ==
    /\ reset_status = FALSE /\ reset_i2c0 = FALSE /\ enabled_status = FALSE
    /\ is_enabled = FALSE
    /\ watchdog_timer = -1 /\ left = 0 /\ disarmed = FALSE
    /\ flag = [c \in Cause |-> FALSE] /\ hardware_error = FALSE
    /\ errors = [b \in Bus |-> 0] /\ old = errors /\ burst = errors
    /\ old_reset = FALSE
    /\ asked = [o \in Output |-> 0] /\ believed = asked /\ shown = asked
    /\ slot = 1
    /\ pc = [t \in Timer |-> "idle"]
    /\ cause = "watchdog"
    /\ asks = 0 /\ faults = 0
    /\ rtdOwed = FALSE /\ biteWanted = FALSE
    /\ fresh = {} /\ hit = {}

-----------------------------------------------------------------------------
(* Callbacks of one CPU never overlap.                                      *)
CanStart(t) == \A u \in Timer : Cpu[u] = Cpu[t] => pc[u] = "idle"

At(t, label) == pc[t] = label

Goto(t, label) == pc' = [pc EXCEPT ![t] = label]

(* n transfers fail on a bus and are counted.                               *)
Fail(b, n) ==
    /\ faults + n <= MaxFaults
    /\ faults' = faults + n
    /\ errors' = [errors EXCEPT ![b] = @ + n]
    /\ burst' = [burst EXCEPT ![b] = @ + n]

(* Transfers on some buses, of which one may fail.                          *)
Transfers(buses) ==
    /\ old' = old
    /\ \/ UNCHANGED <<errors, burst, faults>>
       \/ \E b \in buses : Fail(b, 1)

TurnOff == asked' = [o \in Output |-> 0]

-----------------------------------------------------------------------------
(* The /proc handlers, each a single assignment.                            *)

User(others) == asks < MaxAsks /\ asks' = asks + 1 /\ UNCHANGED others

(* Between the first and the last read of watchdog_timer in a tick.         *)
DogCheck == {"dogload", "dogstore", "dogjudge"}

driven == <<stats, alarms, left, chips, is_enabled, old_reset, slot, pc, cause>>

proc_set_resethw ==
    /\ reset_status' = ~reset_status
    /\ User(<<enabled_status, biteWanted, rtd, timer, asked, fresh, driven>>)

proc_set_enablehw ==
    /\ enabled_status' = ~enabled_status
    /\ User(<<reset_status, biteWanted, rtd, timer, asked, fresh, driven>>)

proc_set_resetrtd ==
    /\ \E b \in BOOLEAN : reset_i2c0' = b /\ rtdOwed' = b
    /\ User(<<reset_status, enabled_status, biteWanted, timer, asked, fresh, driven>>)

proc_set_watchdog_timeout ==
    /\ \E t \in Timeouts :
         /\ watchdog_timer' = t /\ biteWanted' = (t > 0)
         /\ disarmed' = (disarmed \/ (t <= 0 /\ pc["sloow"] \in DogCheck))
    /\ User(<<reset_status, enabled_status, rtd, asked, fresh, driven>>)

SetOutput ==
    /\ \E o \in Output : /\ asked' = [asked EXCEPT ![o] = 1 - @]
                         /\ fresh' = fresh \cup {o}
    /\ User(<<reset_status, enabled_status, biteWanted, rtd, timer, driven>>)

Handler ==
    \/ proc_set_resethw \/ proc_set_enablehw \/ proc_set_resetrtd
    \/ proc_set_watchdog_timeout \/ SetOutput

-----------------------------------------------------------------------------
(* The fast callback.                                                       *)

(* While reset_status is held, and its rising edge has been seen, a tick    *)
(* does nothing.                                                            *)
FastBegin ==
    /\ CanStart("fast")
    /\ ~(reset_status /\ old_reset)
    /\ Goto("fast", IF reset_status THEN "init" ELSE "rtd")
    /\ old_reset' = FALSE
    /\ fresh' = IF reset_status THEN {} ELSE fresh
    /\ UNCHANGED <<user, rtd, stats, alarms, dog, asked, chips, is_enabled, slot,
                   cause>>

(* initialize_hardware: its result is ignored.                              *)
ResetInit ==
    /\ At("fast", "init")
    /\ Transfers({"i2c", "spi0"})
    /\ Goto("fast", "turnoff")
    /\ UNCHANGED <<user, rtd, alarms, dog, outs, is_enabled, old_reset, slot, cause>>

turn_off_everything ==
    /\ At("fast", "turnoff")
    /\ TurnOff
    /\ Goto("fast", "clrstats")
    /\ UNCHANGED <<user, rtd, stats, alarms, dog, chips, fresh, is_enabled,
                   old_reset, slot, cause>>

ClearNewOnly ==       \* mutant: the __old counters survive the reset
    /\ At("fast", "clrstats")
    /\ errors' = [b \in Bus |-> 0] /\ burst' = [b \in Bus |-> 0]
    /\ Goto("fast", "clrerrors")
    /\ UNCHANGED <<old, user, rtd, faults, alarms, dog, outs, is_enabled, old_reset,
                   slot, cause>>

clear_all_stats ==
    /\ At("fast", "clrstats")
    /\ errors' = [b \in Bus |-> 0] /\ old' = errors' /\ burst' = errors'
    /\ Goto("fast", "clrerrors")
    /\ UNCHANGED <<user, rtd, faults, alarms, dog, outs, is_enabled, old_reset,
                   slot, cause>>

ClearBusErrors ==     \* mutant: the watchdog flag survives the reset
    /\ At("fast", "clrerrors")
    /\ flag' = [c \in Cause |-> c = "watchdog" /\ flag[c]] /\ hardware_error' = FALSE
    /\ Goto("fast", "disable")
    /\ UNCHANGED <<user, rtd, stats, dog, outs, is_enabled, old_reset, slot, cause>>

clear_all_errors ==
    /\ At("fast", "clrerrors")
    /\ flag' = [c \in Cause |-> FALSE] /\ hardware_error' = FALSE
    /\ Goto("fast", "disable")
    /\ UNCHANGED <<user, rtd, stats, dog, outs, is_enabled, old_reset, slot, cause>>

ResetForgets ==       \* mutant: is_enabled is not cleared
    /\ At("fast", "disable")
    /\ old_reset' = TRUE
    /\ Goto("fast", "idle")
    /\ UNCHANGED <<user, rtd, stats, alarms, dog, outs, is_enabled, slot, cause>>

ResetDone ==
    /\ At("fast", "disable")
    /\ is_enabled' = FALSE /\ old_reset' = TRUE
    /\ Goto("fast", "idle")
    /\ UNCHANGED <<user, rtd, stats, alarms, dog, outs, slot, cause>>

RtdTest ==
    /\ At("fast", "rtd")
    /\ Goto("fast", IF reset_i2c0 THEN "rtdclear" ELSE "gate")
    /\ UNCHANGED <<user, rtd, stats, alarms, dog, outs, is_enabled, old_reset,
                   slot, cause>>

RtdClearAndLeave ==   \* mutant: the goto comes before init_i2c0
    /\ At("fast", "rtdclear")
    /\ reset_i2c0' = FALSE
    /\ Goto("fast", "idle")
    /\ UNCHANGED <<rtdOwed, user, stats, alarms, dog, outs, is_enabled, old_reset,
                   slot, cause>>

RtdClear ==
    /\ At("fast", "rtdclear")
    /\ reset_i2c0' = FALSE
    /\ Goto("fast", "rtdinit")
    /\ UNCHANGED <<rtdOwed, user, stats, alarms, dog, outs, is_enabled, old_reset,
                   slot, cause>>

(* init_i2c0, then goto: this tick neither tests enable nor reads counters. *)
init_i2c0 ==
    /\ At("fast", "rtdinit")
    /\ rtdOwed' = FALSE
    /\ Transfers({"i2c"})
    /\ Goto("fast", "idle")
    /\ UNCHANGED <<reset_i2c0, user, alarms, dog, outs, is_enabled, old_reset,
                   slot, cause>>

Gate ==
    /\ At("fast", "gate")
    /\ is_enabled' = (~hardware_error /\ enabled_status)
    /\ Goto("fast", IF hardware_error THEN "idle" ELSE "spi1")
    /\ UNCHANGED <<user, rtd, stats, alarms, dog, outs, old_reset, slot, cause>>

read_spi1 ==
    /\ At("fast", "spi1")
    /\ Transfers({"spi1"})
    /\ Goto("fast", "idle")
    /\ UNCHANGED <<user, rtd, alarms, dog, outs, is_enabled, old_reset, slot, cause>>

Fast ==
    \/ FastBegin \/ ResetInit \/ turn_off_everything \/ clear_all_stats
    \/ clear_all_errors \/ ResetDone \/ RtdTest \/ RtdClear \/ init_i2c0
    \/ Gate \/ read_spi1

-----------------------------------------------------------------------------
(* The slow callback: one slot per tick.                                    *)

current  == Visit[slot]

NextSlotShort == IF slot >= Len(Visit) - 1 THEN 1 ELSE slot + 1  \* mutant

NextSlot == IF slot = Len(Visit) THEN 1 ELSE slot + 1

(* The slot of a bus read, or of an output that is to be written.           *)
MustPushUngated == current \in Output /\ believed[current] # asked[current]  \* mutant

MustPush == current \in Output /\ is_enabled /\ believed[current] # asked[current]

SlowBegin ==
    /\ CanStart("slow")
    /\ IF current \in Bus THEN Goto("slow", "read") /\ slot' = slot
       ELSE IF MustPush THEN Goto("slow", "push") /\ slot' = slot
       ELSE pc' = pc /\ slot' = NextSlot
    /\ UNCHANGED <<user, rtd, stats, alarms, dog, outs, is_enabled, old_reset, cause>>

SlowRead ==
    /\ At("slow", "read")
    /\ Transfers({current})
    /\ slot' = NextSlot
    /\ Goto("slow", "idle")
    /\ UNCHANGED <<user, rtd, alarms, dog, outs, is_enabled, old_reset, cause>>

(* A push is recorded as done whether its transfers go through or not: up   *)
(* to four of them, of which some may fail, be counted and leave the chip   *)
(* as it was.  It is not repeated before the wish changes.                  *)
SlowPush ==
    /\ At("slow", "push")
    /\ believed' = [believed EXCEPT ![current] = asked[current]]
    /\ old' = old
    /\ \/ /\ shown' = [shown EXCEPT ![current] = asked[current]]
          /\ hit' = hit \ {current}
          /\ UNCHANGED <<errors, burst, faults>>
       \/ /\ shown' \in {shown, [shown EXCEPT ![current] = asked[current]]}
          /\ hit' = hit \cup {current}
          /\ \E n \in 1..4 : Fail("i2c", n)
    /\ slot' = NextSlot
    /\ Goto("slow", "idle")
    /\ UNCHANGED <<user, rtd, alarms, dog, asked, fresh, is_enabled, old_reset,
                   cause>>

Slow == SlowBegin \/ SlowRead \/ SlowPush

-----------------------------------------------------------------------------
(* The sloow callback: door latch, watchdog, then one window per bus.       *)

AfterCheck(c) == CASE c = "watchdog" -> "i2c"  [] c = "i2c"  -> "spi0"
                   [] c = "spi0"     -> "spi1" [] c = "spi1" -> "watchdog"

(* To the check after this one, or out of the callback.                     *)
NextCheck ==
    /\ cause' = AfterCheck(cause)
    /\ Goto("sloow", IF cause = "spi1" THEN "idle" ELSE "window")

SloowBegin ==
    /\ CanStart("sloow")
    /\ Transfers({"i2c"})
    /\ Goto("sloow", "dog")
    /\ UNCHANGED <<user, rtd, alarms, dog, outs, is_enabled, old_reset, slot, cause>>

(* watchdog_timer is read for the test, for "-= laarge_delay_ms" and for    *)
(* the second test; a user may write it before each of the four accesses.   *)
DogTestLate ==        \* mutant: the last tick is not counted
    /\ At("sloow", "dog")
    /\ IF watchdog_timer > Tick THEN Goto("sloow", "dogload") /\ cause' = cause
                                ELSE NextCheck
    /\ UNCHANGED <<user, rtd, stats, alarms, dog, outs, is_enabled, old_reset, slot>>

DogTest ==
    /\ At("sloow", "dog")
    /\ IF watchdog_timer > 0 THEN Goto("sloow", "dogload") /\ cause' = cause
                             ELSE NextCheck
    /\ UNCHANGED <<user, rtd, stats, alarms, dog, outs, is_enabled, old_reset, slot>>

DogLoad ==
    /\ At("sloow", "dogload")
    /\ left' = watchdog_timer - Tick
    /\ Goto("sloow", "dogstore")
    /\ UNCHANGED <<user, rtd, stats, alarms, timer, outs, is_enabled, old_reset, slot,
                   cause>>

DogStore ==
    /\ At("sloow", "dogstore")
    /\ watchdog_timer' = left
    /\ Goto("sloow", "dogjudge")
    /\ UNCHANGED <<user, rtd, stats, alarms, left, disarmed, outs, is_enabled,
                   old_reset, slot, cause>>

(* The local variable, and the history, end with the check.                 *)
DogOver == left' = 0 /\ disarmed' = FALSE

DogJudge ==
    /\ At("sloow", "dogjudge")
    /\ \/ /\ watchdog_timer <= 0
          /\ Goto("sloow", "bite")
          /\ UNCHANGED <<left, disarmed, cause>>
       \/ /\ watchdog_timer > 0
          /\ NextCheck
          /\ DogOver
    /\ UNCHANGED <<user, rtd, stats, alarms, watchdog_timer, outs, is_enabled,
                   old_reset, slot>>

Bite ==
    /\ At("sloow", "bite")
    /\ watchdog_timer' = -1
    /\ biteWanted' = FALSE
    /\ Goto("sloow", "off")
    /\ UNCHANGED <<reset_status, enabled_status, asks, rtd, stats, alarms, left,
                   disarmed, outs, is_enabled, old_reset, slot, cause>>

Distance(m, n) == IF m > n THEN m - n ELSE n - m

WindowLate ==         \* mutant: off by one
    /\ At("sloow", "window")
    /\ IF Distance(errors[cause], old[cause]) > TooMany[cause] + 1
       THEN /\ Goto("sloow", IF cause = "i2c" THEN "raise" ELSE "off")
            /\ UNCHANGED <<old, burst, cause>>
       ELSE /\ old' = [old EXCEPT ![cause] = errors[cause]]
            /\ burst' = [burst EXCEPT ![cause] = 0]
            /\ NextCheck
    /\ UNCHANGED <<errors, faults, user, rtd, alarms, dog, outs, is_enabled,
                   old_reset, slot>>

(* Too many failures: the flag of i2c is raised before handle_hw_error, the *)
(* others after it.  __old is brought up to date in a quiet window only.    *)
Window ==
    /\ At("sloow", "window")
    /\ IF Distance(errors[cause], old[cause]) > TooMany[cause]
       THEN /\ Goto("sloow", IF cause = "i2c" THEN "raise" ELSE "off")
            /\ UNCHANGED <<old, burst, cause>>
       ELSE /\ old' = [old EXCEPT ![cause] = errors[cause]]
            /\ burst' = [burst EXCEPT ![cause] = 0]
            /\ NextCheck
    /\ UNCHANGED <<errors, faults, user, rtd, alarms, dog, outs, is_enabled,
                   old_reset, slot>>

RaiseFlag ==
    /\ At("sloow", "raise")
    /\ flag' = [flag EXCEPT ![cause] = TRUE]
    /\ IF cause = "i2c" THEN Goto("sloow", "off") /\ cause' = cause ELSE NextCheck
    /\ DogOver
    /\ UNCHANGED <<hardware_error, user, rtd, stats, watchdog_timer, outs, is_enabled,
                   old_reset, slot>>

(* handle_hw_error: two steps; hardware_error is left as it is.             *)
ErrorDisable ==
    /\ At("sloow", "off")
    /\ is_enabled' = FALSE
    /\ fresh' = {}
    /\ Goto("sloow", "zero")
    /\ UNCHANGED <<user, rtd, stats, alarms, dog, asked, chips, old_reset, slot, cause>>

ErrorKeepsWishes ==   \* mutant: turn_off_all_pwm_channels and _axes missing
    /\ At("sloow", "zero")
    /\ IF cause = "i2c" THEN NextCheck ELSE Goto("sloow", "raise") /\ cause' = cause
    /\ UNCHANGED <<user, rtd, stats, alarms, dog, outs, is_enabled, old_reset, slot>>

ErrorTurnOff ==
    /\ At("sloow", "zero")
    /\ TurnOff
    /\ IF cause = "i2c" THEN NextCheck ELSE Goto("sloow", "raise") /\ cause' = cause
    /\ UNCHANGED <<user, rtd, stats, alarms, dog, chips, fresh, is_enabled,
                   old_reset, slot>>

Sloow ==
    \/ SloowBegin \/ DogTest \/ DogLoad \/ DogStore \/ DogJudge \/ Bite
    \/ Window \/ RaiseFlag \/ ErrorDisable \/ ErrorTurnOff

-----------------------------------------------------------------------------
Next == Handler \/ Fast \/ Slow \/ Sloow

SafeSpec == Init /\ [][Next]_vars

(* A timer that has expired is served in the order of expiry, so each of    *)
(* the three callbacks gets its turn although another may always be ready.  *)
Spec == SafeSpec /\ SF_vars(Fast) /\ SF_vars(Slow) /\ SF_vars(Sloow)

-----------------------------------------------------------------------------
(* Properties.                                                              *)

(* "write stuff only if enabled": no output of a chip moves in a step in    *)
(* which is_enabled is down, although the fast and the sloow callback clear *)
(* it and only the slow callback tests it.                                  *)
OnlyPushedWhileEnabled == [][shown' # shown => is_enabled]_vars

(* A bus alarm is raised only after more than TooMany failures on that bus  *)
(* since its last quiet window, whatever resets clear in between.           *)
AlarmMeansBurst ==
    [][\A b \in Bus : ~flag[b] /\ flag'[b] => burst[b] > TooMany[b]]_vars

(* Failures are not forgotten: a bus with more than TooMany failures since   *)
(* its last quiet window is not found quiet before a reset has cleared its  *)
(* count, however failures, windows and resets alternate.                   *)
NoBurstForgotten ==
    [][\A b \in Bus :
          burst[b] > TooMany[b] /\ burst'[b] < burst[b] => errors'[b] = 0]_vars

(* A hardware reset leaves a clean slate at the moment it completes: no     *)
(* error flag, no error count, disabled.  An alarm can not survive it.      *)
ResetIsClean ==
    [][~old_reset /\ old_reset' =>
          /\ \A c \in Cause : ~flag'[c]
          /\ \A b \in Bus : errors'[b] = 0 /\ old'[b] = 0
          /\ ~is_enabled']_vars

(* While a reset is held the hardware stays disabled, whatever users write  *)
(* to enable_hw.                                                            *)
HeldResetDisables == old_reset => ~is_enabled

(* Alarms and resets drop every wish: an output is switched on only if a    *)
(* user asked for it after the last alarm or reset began, although enable   *)
(* outlives the alarm and wishes are written at any time.                   *)
AlarmDropsWishes ==
    [][\A o \in Output : shown[o] = 0 /\ shown'[o] = 1 => o \in fresh]_vars

(* A request to reset the RTD chips is never lost, even when it is written  *)
(* while an earlier one is being served, unless a reset is held for ever.   *)
RtdResetServed == <>[]~reset_status => (rtdOwed ~> ~rtdOwed)

(* A watchdog that is armed and left alone bites, unless the user disarms   *)
(* it, and a bite raises the flag; a tick that overwrites a feed can delay  *)
(* the bite and not prevent it.                                             *)
WatchdogBites ==
    /\ watchdog_timer > 0 /\ biteWanted ~> At("sloow", "bite") \/ ~biteWanted
    /\ At("sloow", "bite") ~> flag["watchdog"]

(* If from some time on the user wants the hardware enabled, holds no reset *)
(* and no alarm is up, every output ends up as asked, unless a transfer of  *)
(* its last push failed: that one is not repeated, while failures of an     *)
(* earlier push, of other outputs and of reads do no harm.                  *)
OutputsFollow ==
    <>[](enabled_status /\ ~reset_status /\ \A c \in Cause : ~flag[c])
        => <>[](\A o \in Output : o \in hit \/ shown[o] = asked[o])

(* What the head of data_getter.c says of an internal error: all outputs    *)
(* zero or safe.  No output is switched on while an error flag is up.       *)
ErrorMeansSafe ==
    [][\A o \in Output :
          shown'[o] # shown[o] /\ shown'[o] = 1 => \A c \in Cause : ~flag[c]]_vars

(* What the head of data_getter.c says of disabled hardware: all outputs    *)
(* are set to zero.                                                         *)
DisabledMeansOff ==
    <>[]~enabled_status => []<>(\A o \in Output : shown[o] = 0)
=============================================================================
