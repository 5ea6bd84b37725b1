----------------------------- MODULE GpioxPorts -----------------------------
(***************************************************************************)
(* The output ports of the two GPIO expanders: axis enables, the front      *)
(* door latch, microstepping.  A port is a byte of bit fields with a lock   *)
(* and a changed flag.                                                      *)
(*                                                                          *)
(* A caller (a /proc handler, or turn_off_all_axes) takes the lock, stores  *)
(* the field and the flag, and releases the lock.  The slow timer callback  *)
(* counts its ticks and reaches a port in one tick out of EVERY_NTH_TIME,   *)
(* each port in another: it tests the flag and copies the byte without      *)
(* the lock, writes the byte to the expander, ignores the result, and under *)
(* the lock clears the flag if the byte has not changed meanwhile.          *)
(*                                                                          *)
(* The two stores of a caller are plain assignments that the callback reads *)
(* without the lock, so they may become visible in either order.            *)
(* Left out: selectors outside the enumerations, which store nothing.       *)
(***************************************************************************)
EXTENDS Naturals, Sequences

CONSTANTS
    Field,      \* the bit fields of the output ports
    FieldVal,   \* the values of a field
    Off,        \* the value 0: axis disabled, door open
    Port,       \* gpiox1b_reg, gpiox2a_reg, gpiox2b_reg
    PortOf,     \* the port of each field
    AxisFields, \* sequence: x_enable, y_enable, z_enable
    Round,      \* EVERY_NTH_TIME, 20
    Width,      \* how many values ctr has, 2^32: no multiple of Round
    Position,   \* the number that is added to ctr for each port: 11, 12, 13
    Caller,     \* processes and timer callbacks that set fields
    None,       \* holder of a free lock
    MaxCalls,   \* bound: calls made
    MaxFaults   \* bound: i2c transfers that fail

ASSUME FieldAssumption ==
    /\ PortOf \in [Field -> Port]
    /\ Off \in FieldVal
    /\ AxisFields \in Seq(Field)

DueWide(k, c) == (c + k) % Round = 0     \* mutant: the sum is wider than ctr

(* !((ctr + k) % EVERY_NTH_TIME): the sum has the width of ctr.             *)
Due(k, c) == ((c + k) % Width) % Round = 0

(* No two ports have the same tick.                                         *)
ASSUME TurnAssumption ==
    /\ Round \in Nat \ {0} /\ Width \in Nat /\ Round <= Width
    /\ Position \in [Port -> 0..Round - 1]
    /\ \A p, q \in Port, c \in 0..Width - 1 :
          Due(Position[p], c) /\ Due(Position[q], c) => p = q

ASSUME NoneAssumption == None \notin Caller

ASSUME BoundAssumption == MaxCalls \in Nat /\ MaxFaults \in Nat

FieldsOf(p) == {f \in Field : PortOf[f] = p}

VARIABLES
    val,        \* the fields of all ports as last stored: reg.u
    changed,    \* reg.changed
    lock,       \* who holds reg.lock
    chip,       \* the fields as the output latches of the expanders hold them
    enabled,    \* iostatus.is_enabled
    ctr,        \* static uint32_t ctr, the ticks of the slow callback
    pc,         \* where the slow callback is in the flush of that port
    val8,       \* the global val8: the copied byte, a function on its fields
    todo,       \* per caller, the set_axis-like calls still to do
    stores,     \* per caller, the stores still to do under the lock
    calls,      \* calls made so far
    i2c_errors, \* module_stats.i2c_errors, for the transfers of set_gpiox_reg
    hit         \* history: ports whose latest flush met a failed transfer

callerVars == <<todo, stores, calls>>
flushVars  == <<ctr, pc, val8, chip, i2c_errors, hit>>
vars == <<val, changed, lock, enabled, callerVars, flushVars>>

Byte(p)  == [f \in FieldsOf(p) |-> val[f]]
Latch(p) == [f \in FieldsOf(p) |-> chip[f]]

Assignment == [f : Field, v : FieldVal]

(* The port whose tick this is.                                             *)
current == CHOOSE p \in Port : Due(Position[p], ctr)

TypeOK ==
    /\ val \in [Field -> FieldVal] /\ chip \in [Field -> FieldVal]
    /\ changed \in [Port -> BOOLEAN]
    /\ lock \in [Port -> Caller \cup {None}]
    /\ enabled \in BOOLEAN
    /\ ctr \in 0..Width - 1
    /\ pc \in {"idle", "copy", "transfer", "clear"}
    /\ pc # "idle" => current \in Port
    /\ pc \in {"transfer", "clear"} => val8 \in [FieldsOf(current) -> FieldVal]
    /\ todo \in [Caller -> Seq(Assignment)]
    /\ stores \in [Caller -> SUBSET {"val", "changed"}]
    /\ calls \in 0..MaxCalls
    /\ i2c_errors \in 0..MaxFaults
    /\ hit \subseteq Port

Init ==
    /\ val = [f \in Field |-> Off] /\ chip = val
    /\ changed = [p \in Port |-> FALSE]
    /\ lock = [p \in Port |-> None]
    /\ enabled = FALSE
    /\ ctr = 0 /\ pc = "idle" /\ val8 = <<>>
    /\ todo = [w \in Caller |-> <<>>]
    /\ stores = [w \in Caller |-> {}]
    /\ calls = 0 /\ i2c_errors = 0 /\ hit = {}

-----------------------------------------------------------------------------
(* The callers.                                                             *)

SetField(f, v) == <<[f |-> f, v |-> v]>>

turn_off_all_axes ==
    [i \in DOMAIN AxisFields |-> [f |-> AxisFields[i], v |-> Off]]

Call(w) ==
    /\ todo[w] = <<>>
    /\ calls < MaxCalls
    /\ calls' = calls + 1
    /\ \/ \E f \in Field, v \in FieldVal :
            todo' = [todo EXCEPT ![w] = SetField(f, v)]
       \/ todo' = [todo EXCEPT ![w] = turn_off_all_axes]
    /\ UNCHANGED <<val, changed, lock, enabled, stores, flushVars>>

Target(w) == PortOf[Head(todo[w]).f]

Acquire(w) ==
    /\ todo[w] # <<>>
    /\ stores[w] = {}
    /\ lock[Target(w)] = None
    /\ lock' = [lock EXCEPT ![Target(w)] = w]
    /\ stores' = [stores EXCEPT ![w] = {"val", "changed"}]
    /\ UNCHANGED <<val, changed, enabled, todo, calls, flushVars>>

(* The caller's second store is followed by the release of the lock.        *)
Finish(w, store) ==
    LET last == stores[w] = {store}
    IN  /\ stores' = [stores EXCEPT ![w] = @ \ {store}]
        /\ todo' = IF last THEN [todo EXCEPT ![w] = Tail(@)] ELSE todo
        /\ lock' = IF last THEN [lock EXCEPT ![Target(w)] = None] ELSE lock

StoreVal(w) ==
    /\ "val" \in stores[w]
    /\ val' = [val EXCEPT ![Head(todo[w]).f] = Head(todo[w]).v]
    /\ Finish(w, "val")
    /\ UNCHANGED <<changed, enabled, calls, flushVars>>

StoreChanged(w) ==
    /\ "changed" \in stores[w]
    /\ changed' = [changed EXCEPT ![Target(w)] = TRUE]
    /\ Finish(w, "changed")
    /\ UNCHANGED <<val, enabled, calls, flushVars>>

CallerStep(w) == Acquire(w) \/ StoreVal(w) \/ StoreChanged(w)

-----------------------------------------------------------------------------
(* The fast callback sets is_enabled; it runs on the CPU of the slow one.   *)
EnableHw ==
    /\ pc = "idle"
    /\ enabled' = ~enabled
    /\ UNCHANGED <<val, changed, lock, callerVars, flushVars>>

-----------------------------------------------------------------------------
(* The slow callback.                                                       *)

MustFlushUngated(p) == changed[p]  \* mutant: is_enabled not tested

MustFlush(p) == enabled /\ changed[p]

Tick == ctr' = (ctr + 1) % Width

FlushDue(c) == \E p \in Port : Due(Position[p], c) /\ MustFlush(p)

Skip ==
    /\ pc = "idle"
    /\ Tick
    /\ ~FlushDue(ctr')
    /\ UNCHANGED <<val, changed, lock, enabled, callerVars, pc, val8, chip,
                   i2c_errors, hit>>

BeginFlush ==
    /\ pc = "idle"
    /\ Tick
    /\ FlushDue(ctr')
    /\ pc' = "copy"
    /\ UNCHANGED <<val, changed, lock, enabled, callerVars, val8, chip, i2c_errors, hit>>

CopyByte ==
    /\ pc = "copy"
    /\ val8' = Byte(current)
    /\ hit' = hit \ {current}
    /\ pc' = "transfer"
    /\ UNCHANGED <<val, changed, lock, enabled, callerVars, ctr, chip, i2c_errors>>

WithPort(b) == [f \in Field |-> IF f \in DOMAIN b THEN b[f] ELSE chip[f]]

set_gpiox_reg ==
    /\ pc = "transfer"
    /\ chip' = WithPort(val8)
    /\ pc' = "clear"
    /\ UNCHANGED <<val, changed, lock, enabled, callerVars, ctr, val8,
                   i2c_errors, hit>>

(* set_gpiox_reg returns -1, which is ignored.  The byte may have reached   *)
(* the expander (a timeout after it) or not (no ACK).                       *)
TransferFails ==
    /\ pc = "transfer"
    /\ i2c_errors < MaxFaults
    /\ i2c_errors' = i2c_errors + 1
    /\ chip' \in {chip, WithPort(val8)}
    /\ hit' = hit \cup {current}
    /\ pc' = "clear"
    /\ UNCHANGED <<val, changed, lock, enabled, callerVars, ctr, val8>>

ClearAlways ==     \* mutant: the byte is not compared
    /\ pc = "clear"
    /\ lock[current] = None
    /\ changed' = [changed EXCEPT ![current] = FALSE]
    /\ pc' = "idle"
    /\ UNCHANGED <<val, lock, enabled, callerVars, ctr, val8, chip, i2c_errors, hit>>

ClearUnlocked ==   \* mutant: the lock is not taken
    /\ pc = "clear"
    /\ changed' = IF Byte(current) = val8
                  THEN [changed EXCEPT ![current] = FALSE] ELSE changed
    /\ pc' = "idle"
    /\ UNCHANGED <<val, lock, enabled, callerVars, ctr, val8, chip, i2c_errors, hit>>

Clear ==
    /\ pc = "clear"
    /\ lock[current] = None
    /\ changed' = IF Byte(current) = val8
                  THEN [changed EXCEPT ![current] = FALSE] ELSE changed
    /\ pc' = "idle"
    /\ UNCHANGED <<val, lock, enabled, callerVars, ctr, val8, chip, i2c_errors, hit>>

SlowCallback ==
    Skip \/ BeginFlush \/ CopyByte \/ set_gpiox_reg \/ TransferFails \/ Clear

Next ==
    \/ \E w \in Caller : Call(w) \/ CallerStep(w)
    \/ EnableHw
    \/ SlowCallback

SafeSpec == Init /\ [][Next]_vars

(* The slow callback is restarted for ever; a caller inside a handler goes  *)
(* on; nobody has to call a handler.                                        *)
Spec ==
    /\ SafeSpec
    /\ WF_vars(SlowCallback)
    /\ \A w \in Caller : WF_vars(CallerStep(w))

-----------------------------------------------------------------------------
(* Properties.                                                              *)

Settled(p) == ~changed[p] /\ lock[p] = None

(* No store of a caller is lost between the unlocked copy and the locked    *)
(* clear: when the flag is down and the lock is free, the expander holds    *)
(* the byte of the port, unless the port's latest transfer failed; an       *)
(* earlier failure is made good by the next flush.                          *)
FlagDownMeansFlushed ==
    \A p \in Port : Settled(p) /\ p \notin hit => Latch(p) = Byte(p)

(* The axes, the door and the microstepping move only while enabled.        *)
OnlyFlushedWhileEnabled == [][chip' # chip => enabled /\ enabled']_vars

(* While the hardware stays enabled, every port ends up holding what was    *)
(* last stored in it, unless its last transfer failed: the flag can not be  *)
(* cleared over a newer store, however stores and flush interleave.         *)
LastStoreIsFlushed ==
    \A p \in Port :
        <>[]enabled => <>[](p \in hit \/ Latch(p) = Byte(p))

(* The turn of every port comes within any Round ticks, also when ctr wraps *)
(* in the middle of them, though 2^32 is no multiple of 20.                 *)
RoundServesAll ==
    \A p \in Port : \E d \in 1..Round : Due(Position[p], (ctr + d) % Width)

(* What the callers may rely on when no transfer fails: a port is one       *)
(* write-behind register of its byte.                                       *)
PortVal == UNION {[FieldsOf(p) -> FieldVal] : p \in Port}

WB == INSTANCE WriteBehind
        WITH Reg <- Port, Val <- PortVal, Gated <- Port,
             Zero <- [p \in Port |-> [f \in FieldsOf(p) |-> Off]],
             want  <- [p \in Port |-> Byte(p)],
             taken <- [p \in Port |->
                        IF pc = "transfer" /\ p = current THEN val8 ELSE Latch(p)],
             shown <- [p \in Port |-> Latch(p)],
             open  <- enabled

ImplementsWriteBehind == WB!Spec

=============================================================================
