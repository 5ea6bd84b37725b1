-------------------------- MODULE ModuleLifecycle --------------------------
(***************************************************************************)
(* Load and unload of data_getter, again and again, while users call the    *)
(* /proc handlers and the timers expire.                                    *)
(*                                                                          *)
(* What the kernel does for the module is external: the statics are zero    *)
(* after a load, a callback that runs delays hrtimer_cancel, a handler that *)
(* runs delays the removal of its entry, a directory is not made twice.     *)
(* The PWM chip keeps its duties: no part of the load writes them.          *)
(*                                                                          *)
(* Outputs and handlers are those the life cycle tells apart: an output is  *)
(* on or off, its transfer is one step (PwmChannels has the details), one   *)
(* entry stores wishes and another enables the hardware.                    *)
(***************************************************************************)
EXTENDS Naturals

CONSTANTS
    Output,     \* PWM channels
    Gated,      \* those the slow callback writes only while enabled
    Store,      \* the entry of the outputs,
    Enable,     \* and of the switch: proc_set_enablehw
    None        \* no callback

ASSUME LifecycleAssumption ==
    /\ Gated \subseteq Output
    /\ Store # Enable
    /\ None \notin {"fast", "slow", "sloow"}

Entry   == <<Store, Enable>>            \* in the order of their creation
Entries == {Store, Enable}
Timer   == <<"fast", "slow", "sloow">>  \* in the order of start and cancel
Timers  == {"fast", "slow", "sloow"}

VARIABLES
    pc, at,         \* the load or unload under way, and its place in a list
    dir, entries,   \* the directory in /proc, the entries users find in it
    inside,         \* entries whose handler is running
    armed, running, \* the timers that are armed, the callback that runs
    enabled_status, is_enabled,
    wanted, actual, \* pwm_channel: is the output on
    chip,           \* what the chip holds
    kept,           \* history: outputs on at the load and not written since
    missed,         \* history: outputs whose latest transfer failed
    leaked          \* history: a load has failed between two entries

load  == <<pc, at>>
procfs == <<dir, entries, inside>>
timers == <<armed, running>>
flags == <<enabled_status, is_enabled>>
hist  == <<kept, missed, leaked>>
vars  == <<load, procfs, timers, flags, wanted, actual, chip, hist>>

AllOff == [o \in Output |-> FALSE]

(* The code of the module is in memory.                                     *)
Loaded == pc \notin {"out", "oops"}

TypeOK ==
    /\ pc \in {"out", "init", "create", "start", "up", "off", "remove", "drop",
               "cancel", "oops"}
    /\ at \in 1..3
    /\ dir \in BOOLEAN /\ entries \subseteq Entries /\ inside \subseteq Entries
    /\ armed \subseteq Timers /\ running \in Timers \cup {None}
    /\ enabled_status \in BOOLEAN /\ is_enabled \in BOOLEAN
    /\ wanted \in [Output -> BOOLEAN] /\ actual \in [Output -> BOOLEAN]
    /\ chip \in [Output -> BOOLEAN]
    /\ kept \subseteq Output /\ missed \subseteq Output
    /\ leaked \in BOOLEAN

(* The chip may hold anything at the first load.                            *)
Init ==
    /\ pc = "out" /\ at = 1
    /\ dir = FALSE /\ entries = {} /\ inside = {}
    /\ armed = {} /\ running = None
    /\ enabled_status = FALSE /\ is_enabled = FALSE
    /\ wanted = AllOff /\ actual = AllOff
    /\ chip \in [Output -> BOOLEAN]
    /\ kept = {} /\ missed = {} /\ leaked = FALSE

-----------------------------------------------------------------------------
(* data_getter_init                                                         *)

InitModule ==
    /\ pc = "out"
    /\ pc' = "init" /\ at' = 1
    /\ enabled_status' = FALSE /\ is_enabled' = FALSE
    /\ wanted' = AllOff /\ actual' = AllOff
    /\ kept' = {o \in Output : chip[o]} /\ missed' = {}
    /\ UNCHANGED <<procfs, timers, chip, leaked>>

(* initialize_hardware finds a bus missing or a transfer fails, or the      *)
(* directory is there already: nothing has been made.                       *)
InitFails ==
    /\ pc = "init"
    /\ pc' = "out"
    /\ UNCHANGED <<at, procfs, timers, flags, wanted, actual, chip, hist>>

proc_mkdir ==
    /\ pc = "init" /\ ~dir
    /\ dir' = TRUE
    /\ pc' = "create"
    /\ UNCHANGED <<at, entries, inside, timers, flags, wanted, actual, chip, hist>>

proc_create ==
    /\ pc = "create"
    /\ entries' = entries \cup {Entry[at]}
    /\ IF at < 2 THEN at' = at + 1 /\ pc' = pc ELSE at' = 1 /\ pc' = "start"
    /\ UNCHANGED <<dir, inside, timers, flags, wanted, actual, chip, hist>>

CreateFails ==
    /\ pc = "create"
    /\ pc' = "out" /\ leaked' = TRUE
    /\ UNCHANGED <<at, procfs, timers, flags, wanted, actual, chip, kept, missed>>

hrtimer_start ==
    /\ pc = "start"
    /\ armed' = armed \cup {Timer[at]}
    /\ IF at < 3 THEN at' = at + 1 /\ pc' = pc ELSE at' = 1 /\ pc' = "up"
    /\ UNCHANGED <<procfs, running, flags, wanted, actual, chip, hist>>

-----------------------------------------------------------------------------
(* data_getter_cleanup.  Another store never falls between two of these     *)
(* wishes in a way that matters: each output has its own.                   *)

ForgetOutputs ==            \* mutant: the shadows are cleared as well
    wanted' = AllOff /\ actual' = AllOff

turn_off_everything == wanted' = AllOff /\ UNCHANGED actual

ExitModule ==
    /\ pc = "up"
    /\ pc' = "off"
    /\ UNCHANGED <<at, procfs, timers, flags, wanted, actual, chip, hist>>

CleanupOff ==
    /\ pc = "off"
    /\ turn_off_everything
    /\ pc' = "remove"
    /\ UNCHANGED <<at, procfs, timers, flags, chip, hist>>

(* An entry is hidden first; then its running handler is waited for.        *)
HideEntry ==
    /\ pc = "remove" /\ Entry[at] \in entries
    /\ entries' = entries \ {Entry[at]}
    /\ UNCHANGED <<load, dir, inside, timers, flags, wanted, actual, chip, hist>>

RemoveAfterAll ==           \* mutant: every handler is waited for, entry by entry
    /\ pc = "remove" /\ Entry[at] \notin entries /\ inside = {}
    /\ IF at < 2 THEN at' = at + 1 /\ pc' = pc ELSE at' = 1 /\ pc' = "drop"
    /\ UNCHANGED <<procfs, timers, flags, wanted, actual, chip, hist>>

RemoveEntry ==
    /\ pc = "remove" /\ Entry[at] \notin entries /\ Entry[at] \notin inside
    /\ IF at < 2 THEN at' = at + 1 /\ pc' = pc ELSE at' = 1 /\ pc' = "drop"
    /\ UNCHANGED <<procfs, timers, flags, wanted, actual, chip, hist>>

RemoveDir ==
    /\ pc = "drop"
    /\ dir' = FALSE
    /\ pc' = "cancel"
    /\ UNCHANGED <<at, entries, inside, timers, flags, wanted, actual, chip, hist>>

CancelTwo ==                \* mutant: the sloow timer is forgotten
    /\ pc = "cancel" /\ running # Timer[at]
    /\ armed' = armed \ {Timer[at]}
    /\ IF at < 2 THEN at' = at + 1 /\ pc' = pc ELSE at' = 1 /\ pc' = "out"
    /\ UNCHANGED <<procfs, running, flags, wanted, actual, chip, hist>>

hrtimer_cancel ==
    /\ pc = "cancel" /\ running # Timer[at]
    /\ armed' = armed \ {Timer[at]}
    /\ IF at < 3 THEN at' = at + 1 /\ pc' = pc ELSE at' = 1 /\ pc' = "out"
    /\ UNCHANGED <<procfs, running, flags, wanted, actual, chip, hist>>

Unload == CleanupOff \/ HideEntry \/ RemoveEntry \/ RemoveDir

-----------------------------------------------------------------------------
(* The handlers.  A call of code that is gone ends the kernel.              *)

Enter(e) ==
    /\ e \in entries \ inside /\ pc # "oops"
    /\ inside' = inside \cup {e}
    /\ UNCHANGED <<load, dir, entries, timers, flags, wanted, actual, chip, hist>>

Handled(e) ==
    /\ e \in inside /\ Loaded
    /\ inside' = inside \ {e}
    /\ \/ /\ e = Store
          /\ \E o \in Output, on \in BOOLEAN : wanted' = [wanted EXCEPT ![o] = on]
          /\ UNCHANGED flags
       \/ /\ e = Enable
          /\ enabled_status' \in BOOLEAN
          /\ UNCHANGED <<is_enabled, wanted>>
    /\ UNCHANGED <<load, dir, entries, timers, actual, chip, hist>>

Oops(e) ==
    /\ e \in inside /\ pc = "out"
    /\ pc' = "oops"
    /\ UNCHANGED <<at, procfs, timers, flags, wanted, actual, chip, hist>>

-----------------------------------------------------------------------------
(* The callbacks, one after the other on their CPU.                         *)

Expire(t) ==
    /\ t \in armed /\ running = None
    /\ running' = t
    /\ UNCHANGED <<load, procfs, armed, flags, wanted, actual, chip, hist>>

Fast ==
    /\ running = "fast"
    /\ running' = None
    /\ is_enabled' = enabled_status
    /\ UNCHANGED <<load, procfs, armed, enabled_status, wanted, actual, chip, hist>>

MustPush(o) == actual[o] # wanted[o] /\ (o \in Gated => is_enabled)

Slow(o) ==
    /\ running = "slow"
    /\ running' = None
    /\ IF MustPush(o)
       THEN /\ actual' = [actual EXCEPT ![o] = wanted[o]]
            /\ kept' = kept \ {o}
            /\ \/ chip' = [chip EXCEPT ![o] = wanted[o]] /\ missed' = missed \ {o}
               \/ chip' \in {chip, [chip EXCEPT ![o] = wanted[o]]}
                    /\ missed' = missed \cup {o}
       ELSE UNCHANGED <<actual, chip, kept, missed>>
    /\ UNCHANGED <<load, procfs, armed, flags, wanted, leaked>>

(* The lamp gets its colour, or an alarm turns everything off.              *)
Sloow ==
    /\ running = "sloow"
    /\ running' = None
    /\ \/ \E o \in Output \ Gated, on \in BOOLEAN :
            wanted' = [wanted EXCEPT ![o] = on] /\ UNCHANGED <<actual, is_enabled>>
       \/ turn_off_everything /\ is_enabled' = FALSE
    /\ UNCHANGED <<load, procfs, armed, enabled_status, chip, hist>>

Callback == Fast \/ (\E o \in Output : Slow(o)) \/ Sloow

Next ==
    \/ InitModule \/ InitFails \/ proc_mkdir \/ proc_create \/ CreateFails
    \/ hrtimer_start
    \/ ExitModule \/ Unload \/ hrtimer_cancel
    \/ \E e \in Entries : Enter(e) \/ Handled(e) \/ Oops(e)
    \/ \E t \in Timers : Expire(t)
    \/ Callback

SafeSpec == Init /\ [][Next]_vars

(* Handlers and callbacks return and rmmod is scheduled.  A callback that   *)
(* has rearmed its timer is idle until the next expiry, which is late       *)
(* enough for the canceller to see it.                                      *)
Spec ==
    /\ SafeSpec
    /\ WF_vars(Unload) /\ SF_vars(hrtimer_cancel)
    /\ WF_vars(Callback)
    /\ \A e \in Entries : WF_vars(Handled(e))

-----------------------------------------------------------------------------
(* Properties.                                                              *)

(* No callback and no handler outlives the module (data_getter_cleanup, in  *)
(* whatever order handlers and timers meet it), unless a load failed half-  *)
(* way: that one removes nothing, so its entries lead to code that is gone, *)
(* and no later load gets as far as its own entries.                        *)
UnloadLeavesNothing ==
    /\ ~Loaded => armed = {} /\ running = None
    /\ ~Loaded /\ ~leaked => ~dir /\ entries = {} /\ inside = {}
    /\ pc = "oops" => leaked
    /\ leaked => pc \in {"out", "init", "oops"}

(* The shadow of an output tells what the chip holds, except where the      *)
(* latest transfer failed, or where the output was on at the load: that one *)
(* stays on, whatever the statics say, until it is written.                 *)
OnlyInherited ==
    Loaded => \A o \in Output \ missed :
                IF o \in kept THEN chip[o] /\ ~actual[o] ELSE chip[o] = actual[o]

(* rmmod returns, however busy users and timers are.                        *)
UnloadEnds == pc = "off" ~> pc = "out"
=============================================================================
