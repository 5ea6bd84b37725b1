------------------------------- MODULE RgbLamp -------------------------------
(***************************************************************************)
(* The RGB lamp of data_getter: who chooses its colour, and how the colour  *)
(* reaches the three lamp channels of the PWM chip.                         *)
(*                                                                          *)
(*   /proc handlers  copy a user's colour and pattern into rgb, and switch  *)
(*                   test mode, enable, reset and the RTD reset             *)
(*   fast callback   sets CYAN or WHITE at every tick, unless in test mode  *)
(*   sloow callback  turns rgb into wishes for the channels, blinking; an   *)
(*                   alarm clears the wishes and sets a blinking RED        *)
(*   slow callback   pushes the three channels, one in each of its slots    *)
(*                                                                          *)
(* Both ways of writing rgb hold rgb_lock; the sloow callback reads it      *)
(* without.  The callbacks share a CPU and run one after the other; a       *)
(* handler runs between any two steps.  A transfer to the chip may fail; it *)
(* is recorded as done all the same.  What a push does byte by byte is the  *)
(* subject of PwmChannels, the causes of an alarm that of SenseControl,     *)
(* where hardware_error is shown to stay FALSE.                             *)
(***************************************************************************)
EXTENDS Integers

CONSTANTS
    User,       \* processes that write to /proc
    Full,       \* PWM_MAX - 1
    Asks,       \* the colours and patterns users ask for
    BlinkTime,  \* BLINK_TIME_MS
    Tick,       \* laarge_delay_ms
    Rank,       \* the order in which memcpy comes to the fields of rgb
    MaxAsks,    \* bound: writes to /proc
    MaxMishaps, \* bound: alarms and pushes that meet a failing transfer
    None        \* nobody, nothing

Pattern == {"off", "on", "blink", "heartbeat", "other"}
Colour  == {"red", "green", "blue"}
Field   == Colour \cup {"pattern"}
Level   == 0..Full

(* What users send is an rgbdata_t: any 16 bits for a colour, and a pattern *)
(* that nobody checks and that may be no member of pattern_t ("other").     *)
Ask == [red : Nat, green : Nat, blue : Nat, pattern : Pattern]

ASSUME RgbAssumption ==
    /\ Full \in Nat \ {0} /\ BlinkTime \in Nat \ {0} /\ Tick \in Nat \ {0}
    /\ \A a \in Asks : a \in Ask
    /\ Rank \in [Field -> Nat]
    /\ MaxAsks \in Nat /\ MaxMishaps \in Nat /\ None \notin User

VARIABLES
    rgb, rgb_lock,      \* the shared colour and the holder of its lock
    test,               \* test
    enabled_status, reset_status, reset_i2c0,  \* iostatus, written by users
    data,               \* local copy of a handler, None outside one
    todo,               \* fields the memcpy of a handler has still to do
    old_reset,          \* static variable of the fast callback
    blink_timer, on_cycle,  \* static variables of the sloow callback
    pc,                 \* where the callback under way is
    pattern,            \* rgb.pattern as the sloow callback has read it
    colour,             \* the colour a callback is about to set
    wanted, actual, shown,  \* wish, shadow and chip of the lamp channels
    ran,                \* the fast callback has run since the last sloow tick
    asks, mishaps,      \* bounded: writes to /proc; alarms and failing pushes
    hit,                \* history: channels whose latest push met one
    whole,              \* history: the last colour and pattern set completely
    torn                \* history: a copy was under way during this tick

lamp    == <<rgb, rgb_lock, whole>>
switch  == <<test, enabled_status, reset_status>>
handler == <<data, todo>>
blink   == <<blink_timer, on_cycle, pattern>>
chip    == <<actual, shown, hit>>
vars    == <<lamp, switch, reset_i2c0, handler, old_reset, blink, pc, colour,
             wanted, chip, ran, asks, mishaps, torn>>

Setting == [red : Level, green : Level, blue : Level, pattern : Pattern]

TypeOK ==
    /\ rgb \in Setting /\ whole \in Setting
    /\ rgb_lock \in User \cup {None}
    /\ test \in BOOLEAN /\ enabled_status \in BOOLEAN
    /\ reset_status \in BOOLEAN /\ reset_i2c0 \in BOOLEAN
    /\ data \in [User -> Setting \cup {None}]
    /\ todo \in [User -> SUBSET Field]
    /\ old_reset \in BOOLEAN
    /\ blink_timer \in 0..BlinkTime /\ on_cycle \in BOOLEAN
    /\ pc \in {"idle", "red", "green", "blue", "alarm", "set"}
    /\ pattern \in Pattern
    /\ colour \in Setting \cup {None}
    /\ wanted \in [Colour -> Level] /\ actual \in [Colour -> Level]
    /\ shown \in [Colour -> Level] /\ hit \subseteq Colour
    /\ ran \in BOOLEAN /\ torn \in BOOLEAN
    /\ asks \in 0..MaxAsks /\ mishaps \in 0..MaxMishaps

Dark == [c \in Colour |-> 0]

(* The colours set_rgb is called with.                                      *)
RED   == [red |-> Full, green |-> 0,    blue |-> 0,    pattern |-> "blink"]
CYAN  == [red |-> 0,    green |-> Full, blue |-> Full, pattern |-> "on"]
WHITE == [red |-> Full, green |-> Full, blue |-> Full, pattern |-> "on"]

Init ==
    /\ rgb = [red |-> 0, green |-> 0, blue |-> 0, pattern |-> "off"]
    /\ whole = rgb /\ colour = None
    /\ rgb_lock = None
    /\ test = FALSE /\ enabled_status = FALSE
    /\ reset_status = FALSE /\ reset_i2c0 = FALSE
    /\ data = [u \in User |-> None] /\ todo = [u \in User |-> {}]
    /\ old_reset = FALSE
    /\ blink_timer = 0 /\ on_cycle = FALSE
    /\ pc = "idle" /\ pattern = "off"
    /\ wanted = Dark /\ actual = Dark /\ shown = Dark /\ hit = {}
    /\ ran = FALSE /\ torn = FALSE
    /\ asks = 0 /\ mishaps = 0

-----------------------------------------------------------------------------
(* The /proc handlers.                                                      *)

Mishap == mishaps < MaxMishaps /\ mishaps' = mishaps + 1

Write == asks < MaxAsks /\ asks' = asks + 1

AnyColour(a) == TRUE        \* mutant: the range check is gone

InRange(a) == \A c \in Colour : a[c] <= Full

(* proc_set_rgb: a colour out of range is rejected as a whole.              *)
proc_set_rgb(u) ==
    /\ data[u] = None
    /\ Write
    /\ \E a \in Asks :
         IF InRange(a)
         THEN data' = [data EXCEPT ![u] = a] /\ todo' = [todo EXCEPT ![u] = Field]
         ELSE UNCHANGED handler
    /\ UNCHANGED <<lamp, switch, reset_i2c0, old_reset, blink, pc, colour,
                   wanted, chip, ran, mishaps, torn>>

Lock(u) ==
    /\ data[u] # None /\ todo[u] = Field
    /\ rgb_lock = None
    /\ rgb_lock' = u
    /\ UNCHANGED <<rgb, whole, switch, reset_i2c0, handler, old_reset, blink, pc,
                   colour, wanted, chip, ran, asks, mishaps, torn>>

(* memcpy copies the fields in an order of its own, those of one rank in    *)
(* any order.                                                               *)
CopyField(u) ==
    /\ rgb_lock = u
    /\ \E f \in {g \in todo[u] : \A h \in todo[u] : Rank[g] <= Rank[h]} :
         /\ rgb' = [rgb EXCEPT ![f] = data[u][f]]
         /\ todo' = [todo EXCEPT ![u] = @ \ {f}]
    /\ torn' = (torn \/ pc \in Colour \cup {"alarm"})
    /\ UNCHANGED <<rgb_lock, whole, switch, reset_i2c0, data, old_reset, blink, pc,
                   colour, wanted, chip, ran, asks, mishaps>>

Unlock(u) ==
    /\ rgb_lock = u /\ todo[u] = {}
    /\ rgb_lock' = None
    /\ whole' = data[u]
    /\ data' = [data EXCEPT ![u] = None]
    /\ UNCHANGED <<rgb, switch, reset_i2c0, todo, old_reset, blink, pc, colour,
                   wanted, chip, ran, asks, mishaps, torn>>

(* proc_set_testmode, proc_set_enablehw, proc_set_resethw.                  *)
SetSwitch ==
    /\ Write
    /\ \/ test' = ~test /\ UNCHANGED <<enabled_status, reset_status>>
       \/ enabled_status' = ~enabled_status /\ UNCHANGED <<test, reset_status>>
       \/ reset_status' = ~reset_status /\ UNCHANGED <<test, enabled_status>>
    /\ UNCHANGED <<lamp, reset_i2c0, handler, old_reset, blink, pc, colour,
                   wanted, chip, ran, mishaps, torn>>

proc_set_resetrtd ==
    /\ Write
    /\ reset_i2c0' = TRUE
    /\ UNCHANGED <<lamp, switch, handler, old_reset, blink, pc, colour,
                   wanted, chip, ran, mishaps, torn>>

-----------------------------------------------------------------------------
(* set_rgb, called by two callbacks behind "if(!test)"; it waits for the    *)
(* lock.  Nobody but its own thread reads rgb without the lock.             *)

MaySet(c) ==
    IF test THEN pc' = "idle" /\ colour' = colour
            ELSE pc' = "set" /\ colour' = c

SetUnlocked ==              \* mutant: set_rgb does not take the lock
    /\ pc = "set"
    /\ rgb' = colour /\ whole' = colour
    /\ pc' = "idle" /\ colour' = None
    /\ UNCHANGED <<rgb_lock, switch, reset_i2c0, handler, old_reset, blink,
                   wanted, chip, ran, asks, mishaps, torn>>

set_rgb ==
    /\ pc = "set" /\ rgb_lock = None
    /\ rgb' = colour /\ whole' = colour
    /\ pc' = "idle" /\ colour' = None
    /\ UNCHANGED <<rgb_lock, switch, reset_i2c0, handler, old_reset, blink,
                   wanted, chip, ran, asks, mishaps, torn>>

-----------------------------------------------------------------------------
(* The fast callback, as far as the lamp is concerned.                      *)

FastBegin == pc = "idle" /\ ran' = TRUE

FastReset ==
    /\ FastBegin /\ reset_status
    /\ old_reset' = TRUE
    /\ IF old_reset THEN UNCHANGED <<wanted, pc, colour>>
                    ELSE wanted' = Dark /\ MaySet(CYAN)
    /\ UNCHANGED <<lamp, switch, reset_i2c0, handler, blink, chip, asks,
                   mishaps, torn>>

FastRtd ==
    /\ FastBegin /\ ~reset_status /\ reset_i2c0
    /\ old_reset' = FALSE
    /\ reset_i2c0' = FALSE
    /\ UNCHANGED <<lamp, switch, handler, blink, pc, colour, wanted, chip,
                   asks, mishaps, torn>>

WhiteForgotten ==           \* mutant: enabling does not set the lamp
    /\ FastBegin /\ ~reset_status /\ ~reset_i2c0
    /\ old_reset' = FALSE
    /\ IF enabled_status THEN UNCHANGED <<pc, colour>> ELSE MaySet(CYAN)
    /\ UNCHANGED <<lamp, switch, reset_i2c0, handler, blink, wanted, chip,
                   asks, mishaps, torn>>

FastColour ==
    /\ FastBegin /\ ~reset_status /\ ~reset_i2c0
    /\ old_reset' = FALSE
    /\ MaySet(IF enabled_status THEN WHITE ELSE CYAN)
    /\ UNCHANGED <<lamp, switch, reset_i2c0, handler, blink, wanted, chip,
                   asks, mishaps, torn>>

Fast == FastReset \/ FastRtd \/ FastColour

-----------------------------------------------------------------------------
(* The sloow callback: blink, then the checks that may raise an alarm.      *)
(* Callbacks run in the order in which their timers expire; a fast tick     *)
(* lies between two sloow ticks.                                            *)

Clamp(t) == IF t >= BlinkTime THEN BlinkTime ELSE IF t <= 0 THEN 0 ELSE t

StayOn(t) == t <= 0 \/ on_cycle     \* mutant: the cycle does not turn at the top

OnCycle(t) == t <= 0 \/ (on_cycle /\ t < BlinkTime)

SloowBegin ==
    /\ pc = "idle" /\ ran
    /\ LET t == IF on_cycle THEN blink_timer + Tick ELSE blink_timer - Tick
       IN  /\ blink_timer' = Clamp(t)
           /\ on_cycle' = OnCycle(t)
    /\ pattern' = rgb.pattern
    /\ pc' = IF rgb.pattern = "other" THEN "alarm" ELSE "red"
    /\ ran' = FALSE
    /\ torn' = (rgb_lock # None)
    /\ UNCHANGED <<lamp, switch, reset_i2c0, handler, old_reset, colour, wanted,
                   chip, asks, mishaps>>

AfterColour == [red |-> "green", green |-> "blue", blue |-> "alarm"]

Shade(level) ==
    CASE pattern = "off"   -> 0
      [] pattern = "on"    -> level
      [] pattern = "blink" -> IF on_cycle THEN level ELSE 0
      [] OTHER             -> (blink_timer \div BlinkTime) * level

(* schedule_set_pwm for the next colour, of rgb as it is now.               *)
SloowColour ==
    /\ pc \in Colour
    /\ wanted' = [wanted EXCEPT ![pc] = Shade(rgb[pc])]
    /\ pc' = AfterColour[pc]
    /\ UNCHANGED <<lamp, switch, reset_i2c0, handler, old_reset, blink, colour,
                   chip, ran, asks, mishaps, torn>>

(* The local variables of the tick end with it.                             *)
TickOver == pattern' = "off" /\ torn' = FALSE /\ UNCHANGED <<blink_timer, on_cycle>>

SloowQuiet ==
    /\ pc = "alarm"
    /\ pc' = "idle"
    /\ TickOver
    /\ UNCHANGED <<lamp, switch, reset_i2c0, handler, old_reset, colour, wanted,
                   chip, ran, asks, mishaps>>

handle_hw_error ==
    /\ pc = "alarm"
    /\ Mishap
    /\ wanted' = Dark
    /\ MaySet(RED)
    /\ TickOver
    /\ UNCHANGED <<lamp, switch, reset_i2c0, handler, old_reset, chip,
                   ran, asks>>

Sloow == SloowBegin \/ SloowColour \/ SloowQuiet \/ handle_hw_error

-----------------------------------------------------------------------------
(* The slow callback pushes the lamp channels whether enabled or not, one   *)
(* channel in a slot, and only if the shadow differs from the wish.  The    *)
(* shadow takes the wish whether the four transfers go through or not; if   *)
(* one fails the chip is left with any mixture of old and new bytes, and    *)
(* the push is not repeated before the wish changes.                        *)

PushBegin(c) ==
    /\ pc = "idle" /\ actual[c] # wanted[c]
    /\ UNCHANGED <<lamp, switch, reset_i2c0, handler, old_reset, blink, pc, colour,
                   wanted, ran, asks, torn>>

ShadowTakes(c) == actual' = [actual EXCEPT ![c] = wanted[c]]

PushClean(c) ==
    /\ PushBegin(c)
    /\ shown' = [shown EXCEPT ![c] = wanted[c]]
    /\ ShadowTakes(c)
    /\ hit' = hit \ {c}
    /\ UNCHANGED mishaps

PushFails(c) ==
    /\ PushBegin(c)
    /\ Mishap
    /\ \E l \in Level : shown' = [shown EXCEPT ![c] = l]
    /\ ShadowTakes(c)
    /\ hit' = hit \cup {c}

Push == \E c \in Colour : PushClean(c) \/ PushFails(c)

proc_set(u) == Lock(u) \/ CopyField(u) \/ Unlock(u)

Next ==
    \/ \E u \in User : proc_set_rgb(u) \/ proc_set(u)
    \/ SetSwitch \/ proc_set_resetrtd
    \/ Fast \/ set_rgb \/ Sloow \/ Push

SafeSpec == Init /\ [][Next]_vars

(* Each of the three timers expires again and again and callbacks run in    *)
(* the order of expiry, so none is passed over for ever; a callback that    *)
(* has begun goes on; a handler that has been entered is left.              *)
Spec ==
    /\ SafeSpec
    /\ WF_vars(Fast) /\ SF_vars(SloowBegin) /\ SF_vars(Push)
    /\ WF_vars(set_rgb \/ SloowColour \/ SloowQuiet)
    /\ \A u \in User : WF_vars(proc_set(u))

-----------------------------------------------------------------------------
(* Properties.                                                              *)

Lit(p) ==
    \/ p = "on"
    \/ p = "blink" /\ on_cycle
    \/ p = "heartbeat" /\ blink_timer = BlinkTime

(* The blink code of the sloow callback reads rgb without rgb_lock.  A tick *)
(* during which no handler held the lock still shows one setting as a       *)
(* whole, the last that a handler or set_rgb completed, and its heartbeat   *)
(* is lit only in the tick in which blink_timer has reached its top (the    *)
(* division is an integer's).  Two writers never leave a mixture behind.    *)
QuietTickShowsOneSetting ==
    pc = "alarm" /\ ~torn /\ pattern # "other" =>
        wanted = [c \in Colour |-> IF Lit(whole.pattern) THEN whole[c] ELSE 0]

Colours(s) == [c \in Colour |-> s[c]]

(* In the end the wishes are the colour s and stay so, and each channel     *)
(* shows its part of it, or its latest push met a failing transfer.         *)
SettlesOn(s) == wanted = s /\ \A c \in Colour : c \in hit \/ shown[c] = s[c]

(* RGB_HW_DISABLED and RGB_HW_ENABLED: once the switches rest, outside test *)
(* mode and reset, the lamp settles on cyan or white, whatever users asked, *)
(* whatever torn setting a tick has shown, and after an alarm as well: its  *)
(* red is overwritten by the next fast tick.  A failure of an earlier push, *)
(* or of another channel, does no harm; one of the last push of a channel   *)
(* is not made good.                                                        *)
LampTellsMode ==
    <>[](~test /\ ~reset_status)
        => <>[]SettlesOn(Colours(IF enabled_status THEN WHITE ELSE CYAN))

(* In test mode the lamp is the user's: a steady pattern settles on the     *)
(* channels, but for those whose last push failed, and a blinking or        *)
(* beating one is asked lit and asked dark again and again.                 *)
TestLampIsTheUsers ==
    /\ <>[](test /\ rgb.pattern \in {"on", "off"})
         => <>[]SettlesOn(IF rgb.pattern = "on" THEN Colours(rgb) ELSE Dark)
    /\ <>[](test /\ rgb.pattern \in {"blink", "heartbeat"})
         => []<>(wanted = Colours(rgb)) /\ []<>(wanted = Dark)
=============================================================================
