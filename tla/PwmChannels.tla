---------------------------- MODULE PwmChannels ----------------------------
(***************************************************************************)
(* The PWM outputs of data_getter: heaters, hooter and head supply, which   *)
(* are written only while the hardware is enabled, and the RGB lamp, which  *)
(* is always written.                                                       *)
(*                                                                          *)
(* A writer (a /proc handler, another timer callback, module exit) only     *)
(* stores pwm_channel[c].wanted_value.  The slow timer callback visits one  *)
(* channel per tick; when actual_value and wanted_value differ, set_pwm     *)
(* latches the wanted value, writes four byte-wide registers of the PCA9685 *)
(* one i2c transfer at a time, ignoring their results, and then records the *)
(* latched value in actual_value.                                           *)
(*                                                                          *)
(* The slow callback and the fast callback, which sets is_enabled, run one  *)
(* after the other (hrtimers of one CPU); writers run between any two steps.*)
(* Left out: the statistics counters other than i2c_errors, and the test    *)
(* of pAdap, which is set before the timers start and never cleared.        *)
(***************************************************************************)
EXTENDS Naturals, Sequences

CONSTANTS
    Heaters,    \* sequence of the heater channels, from HEATER_INDEX up
    HOOTER,     \* the channel HOOTER_INDEX
    AC220,      \* the channel HEAD_AC220_INDEX
    Leds,       \* sequence of the RGB channels
    Visit,      \* the order in which the slow callback reaches the channels
    Lo, Hi,     \* values of the low and the high byte of a duty
    Zero,       \* the duty 0, the switched-off output
    Full,       \* the duty PWM_MAX-1
    Asked,      \* the duties users ask for
    Bad,        \* a value of 4096 or more
    Writer,     \* callers of the /proc handlers and of schedule_set_pwm
    MaxJobs,    \* bound: calls made by the writers
    MaxFaults   \* bound: i2c transfers that fail

Heater  == {Heaters[i] : i \in DOMAIN Heaters}
Led     == {Leds[i] : i \in DOMAIN Leds}
Gated   == Heater \cup {HOOTER, AC220}
Channel == Gated \cup Led
Duty    == [lo : Lo, hi : Hi]

ASSUME ChannelAssumption ==
    /\ Heaters \in Seq(Heater) /\ Leds \in Seq(Led)
    /\ Visit \in Seq(Channel)  /\ Len(Visit) > 0
    /\ Gated \cap Led = {}

ASSUME DutyAssumption ==
    /\ Zero \in Duty /\ Full \in Duty /\ Asked \subseteq Duty
    /\ Bad \notin Duty

ASSUME BoundAssumption == MaxJobs \in Nat /\ MaxFaults \in Nat

VARIABLES
    wanted,     \* pwm_channel[c].wanted_value
    actual,     \* pwm_channel[c].actual_value
    chip,       \* the LEDn_OFF registers of the PCA9685
    enabled,    \* iostatus.is_enabled
    slot,       \* which channel the next tick of the slow callback reaches
    pc,         \* where the slow callback is in set_pwm
    off,        \* the local variable of set_pwm
    todo,       \* what is left of a writer's call: stores still to do
    jobs,       \* calls made so far
    i2c_errors, \* module_stats.i2c_errors, for the transfers of set_pwm
    hit         \* history: channels whose latest write met a failed transfer

vars == <<wanted, actual, chip, enabled, slot, pc, off, todo, jobs,
          i2c_errors, hit>>

callback == <<slot, pc, off, chip, actual, i2c_errors, hit>>

PC == {"idle", "latch", "onL", "onH", "offL", "offH", "commit"}

Write == [ch : Channel, val : Duty \cup {Bad}]

TypeOK ==
    /\ wanted \in [Channel -> Duty]
    /\ actual \in [Channel -> Duty]
    /\ chip   \in [Channel -> Duty]
    /\ enabled \in BOOLEAN
    /\ slot \in 1..Len(Visit)
    /\ pc \in PC
    /\ off \in Duty
    /\ todo \in [Writer -> Seq(Write)]
    /\ jobs \in 0..MaxJobs
    /\ i2c_errors \in 0..MaxFaults
    /\ hit \subseteq Channel

Init ==
    /\ wanted = [c \in Channel |-> Zero]
    /\ actual = [c \in Channel |-> Zero]
    /\ chip   = [c \in Channel |-> Zero]
    /\ enabled = FALSE
    /\ slot = 1
    /\ pc = "idle"
    /\ off = Zero
    /\ todo = [w \in Writer |-> <<>>]
    /\ jobs = 0
    /\ i2c_errors = 0
    /\ hit = {}

-----------------------------------------------------------------------------
(* The writers.  A call is the sequence of schedule_set_pwm it makes.       *)

HeaterCall(data) ==
    [i \in DOMAIN Heaters |-> [ch |-> Heaters[i], val |-> data[i]]]

LedCall(data) == [i \in DOMAIN Leds |-> [ch |-> Leds[i], val |-> data[i]]]

AllOff ==
    LET order == Leds \o Heaters \o <<AC220, HOOTER>>
    IN  [i \in DOMAIN order |-> [ch |-> order[i], val |-> Zero]]

Calls ==
    {HeaterCall(d) : d \in [DOMAIN Heaters -> Asked \cup {Bad}]}
    \cup {<<[ch |-> c, val |-> v]>> : c \in {HOOTER, AC220}, v \in {Zero, Full}}
    \cup {LedCall(d) : d \in [DOMAIN Leds -> {Zero, Full}]}
    \cup {AllOff}

Call(w) ==
    /\ todo[w] = <<>>
    /\ jobs < MaxJobs
    /\ jobs' = jobs + 1
    /\ \E call \in Calls : todo' = [todo EXCEPT ![w] = call]
    /\ UNCHANGED <<wanted, enabled, callback>>

StoreUnchecked(w) ==      \* mutant: the range check is gone
    /\ todo[w] # <<>>
    /\ wanted' = [wanted EXCEPT ![Head(todo[w]).ch] = Head(todo[w]).val]
    /\ todo' = [todo EXCEPT ![w] = Tail(@)]
    /\ UNCHANGED <<enabled, jobs, callback>>

schedule_set_pwm(w) ==
    /\ todo[w] # <<>>
    /\ Head(todo[w]).val # Bad
    /\ wanted' = [wanted EXCEPT ![Head(todo[w]).ch] = Head(todo[w]).val]
    /\ todo' = [todo EXCEPT ![w] = Tail(@)]
    /\ UNCHANGED <<enabled, jobs, callback>>

(* proc_set_heater returns at the first bad value: the values before it     *)
(* have been stored, those after it are not.                                *)
RejectBadData(w) ==
    /\ todo[w] # <<>>
    /\ Head(todo[w]).val = Bad
    /\ todo' = [todo EXCEPT ![w] = <<>>]
    /\ UNCHANGED <<wanted, enabled, jobs, callback>>

-----------------------------------------------------------------------------
(* The fast callback copies the user's wish into is_enabled.                *)

EnableHw ==
    /\ pc = "idle"
    /\ enabled' = ~enabled
    /\ UNCHANGED <<wanted, todo, jobs, callback>>

-----------------------------------------------------------------------------
(* The slow callback.                                                       *)

NextSlotShort == IF slot + 1 >= Len(Visit) THEN 1 ELSE slot + 1 \* mutant: off by one

NextSlot == IF slot = Len(Visit) THEN 1 ELSE slot + 1

current == Visit[slot]

MustWriteUngated(c) == actual[c] # wanted[c]   \* mutant: is_enabled not tested

MustWrite(c) == (c \in Gated => enabled) /\ actual[c] # wanted[c]

SkipSlot ==
    /\ pc = "idle"
    /\ ~MustWrite(current)
    /\ slot' = NextSlot
    /\ UNCHANGED <<wanted, todo, jobs, enabled, pc, off, chip, actual,
                   i2c_errors, hit>>

BeginWrite ==
    /\ pc = "idle"
    /\ MustWrite(current)
    /\ pc' = "latch"
    /\ UNCHANGED <<wanted, todo, jobs, enabled, slot, off, chip, actual,
                   i2c_errors, hit>>

(* "off = wanted_value": a second read, so a value stored since the test    *)
(* is the one that is written.                                              *)
Latch ==
    /\ pc = "latch"
    /\ off' = wanted[current]
    /\ hit' = hit \ {current}
    /\ pc' = "onL"
    /\ UNCHANGED <<wanted, todo, jobs, enabled, slot, chip, actual, i2c_errors>>

AfterByte == [onL |-> "onH", onH |-> "offL", offL |-> "offH", offH |-> "commit"]

(* What the four transfers put in the chip.  The ON registers get the two   *)
(* bytes of "on", which is 0, the value they have always had.               *)
LowByteOnly(duty, reg) ==        \* mutant: the fourth transfer is missing
    IF reg = "offL" THEN [duty EXCEPT !.lo = off.lo] ELSE duty

WithByte(duty, reg) ==
    CASE reg = "offL" -> [duty EXCEPT !.lo = off.lo]
      [] reg = "offH" -> [duty EXCEPT !.hi = off.hi]
      [] OTHER        -> duty

WriteByte ==
    /\ pc \in DOMAIN AfterByte
    /\ chip' = [chip EXCEPT ![current] = WithByte(@, pc)]
    /\ pc' = AfterByte[pc]
    /\ UNCHANGED <<wanted, todo, jobs, enabled, slot, off, actual,
                   i2c_errors, hit>>

(* A transfer that fails is counted and otherwise ignored.  It may have     *)
(* reached the chip (a timeout after the last byte) or not (no ACK).        *)
WriteByteFails ==
    /\ pc \in DOMAIN AfterByte
    /\ i2c_errors < MaxFaults
    /\ i2c_errors' = i2c_errors + 1
    /\ \/ chip' = [chip EXCEPT ![current] = WithByte(@, pc)]
       \/ chip' = chip
    /\ hit' = hit \cup {current}
    /\ pc' = AfterByte[pc]
    /\ UNCHANGED <<wanted, todo, jobs, enabled, slot, off, actual>>

CommitWanted ==    \* mutant: wanted_value is read a third time
    /\ pc = "commit"
    /\ actual' = [actual EXCEPT ![current] = wanted[current]]
    /\ pc' = "idle"
    /\ slot' = NextSlot
    /\ UNCHANGED <<wanted, todo, jobs, enabled, off, chip, i2c_errors, hit>>

Commit ==
    /\ pc = "commit"
    /\ actual' = [actual EXCEPT ![current] = off]
    /\ pc' = "idle"
    /\ slot' = NextSlot
    /\ UNCHANGED <<wanted, todo, jobs, enabled, off, chip, i2c_errors, hit>>

SlowCallback ==
    SkipSlot \/ BeginWrite \/ Latch \/ WriteByte \/ WriteByteFails \/ Commit

Next ==
    \/ \E w \in Writer : Call(w) \/ schedule_set_pwm(w) \/ RejectBadData(w)
    \/ EnableHw
    \/ SlowCallback

SafeSpec == Init /\ [][Next]_vars

(* The hrtimer core restarts the slow callback for ever, and a writer that  *)
(* has entered a handler leaves it; nobody has to call a handler.           *)
Spec ==
    /\ SafeSpec
    /\ WF_vars(SlowCallback)
    /\ \A w \in Writer : WF_vars(schedule_set_pwm(w) \/ RejectBadData(w))

-----------------------------------------------------------------------------
(* Properties.                                                              *)

Busy(c) == pc # "idle" /\ c = current

(* set_pwm ignores failed transfers, yet a channel always recovers: once a  *)
(* write of the channel has gone through without a failure, and outside a   *)
(* write, both OFF bytes in the chip are those recorded in actual_value,    *)
(* whatever happened to other channels or to earlier writes of this one.    *)
CleanWriteHeals ==
    \A c \in Channel : ~Busy(c) /\ c \notin hit => chip[c] = actual[c]

(* "write stuff only if enabled": the output of a heater, the hooter or the *)
(* head supply never moves in a step in which the hardware is disabled; the *)
(* test of is_enabled made before the compare still holds at the last byte. *)
OnlyWrittenWhileEnabled ==
    [][\A c \in Gated : chip'[c] # chip[c] => enabled /\ enabled']_vars

(* However the writers race with the callback, a channel that is left alone *)
(* ends up showing the last value asked of it, if it is of the lamp or if   *)
(* the hardware stays enabled, and if none of its transfers fails.          *)
LastAskIsShown ==
    \A c \in Channel :
        <>[](c \in Led \/ enabled) => <>[](c \in hit \/ chip[c] = wanted[c])

(* What the users may rely on when no transfer fails: WriteBehind.  While   *)
(* the two OFF bytes are written one after the other the register counts as *)
(* showing the value it had before; the value taken is the one latched.     *)
Writing == pc \in {"onL", "onH", "offL", "offH", "commit"}

ShownDuty == [c \in Channel |->
    IF Busy(c) /\ pc = "offH" /\ chip[c] = [actual[c] EXCEPT !.lo = off.lo]
    THEN actual[c] ELSE chip[c]]

TakenDuty == [c \in Channel |-> IF Busy(c) /\ Writing THEN off ELSE actual[c]]

WB == INSTANCE WriteBehind
        WITH Reg <- Channel, Val <- Duty, Zero <- [c \in Channel |-> Zero],
             want <- wanted, taken <- TakenDuty, shown <- ShownDuty,
             open <- enabled

ImplementsWriteBehind == WB!Spec

=============================================================================
