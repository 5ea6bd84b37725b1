-------------------------- MODULE GpioxPortsProofs --------------------------
(***************************************************************************)
(* For any set of ports and fields, any number of callers, calls and        *)
(* failing transfers: the types of GpioxPorts, that no store is lost        *)
(* between the unlocked copy and the locked clear, and that a port moves    *)
(* only while the hardware is enabled.  Without failing transfers a port    *)
(* is a write-behind register.                                              *)
(***************************************************************************)
EXTENDS GpioxPorts, TLAPS

(* The tick of a port is that port's alone.                                 *)
LEMMA TurnIsUnique ==
    ASSUME ctr' \in 0..Width - 1, NEW p \in Port, Due(Position[p], ctr')
    PROVE  current' = p
  BY TurnAssumption DEF current

LEMMA TickType == TypeOK /\ Tick => ctr' \in 0..Width - 1
  BY TurnAssumption DEF TypeOK, Tick

LEMMA CallType ==
    /\ turn_off_all_axes \in Seq(Assignment)
    /\ \A f \in Field, v \in FieldVal : SetField(f, v) \in Seq(Assignment)
  <1>1. \A f \in Field, v \in FieldVal : [f |-> f, v |-> v] \in Assignment
    BY DEF Assignment
  <1>2. \A f \in Field, v \in FieldVal : SetField(f, v) \in Seq(Assignment)
    <2> SUFFICES ASSUME NEW f \in Field, NEW v \in FieldVal
                 PROVE  SetField(f, v) \in Seq(Assignment)
      OBVIOUS
    <2> DEFINE a == [f |-> f, v |-> v]
    <2>1. a \in Assignment
      BY <1>1
    <2>2. <<a>> \in Seq(Assignment)
      <3> HIDE DEF a
      <3> QED  BY <2>1
    <2> QED  BY <2>2 DEF SetField
  <1>3. AxisFields \in [1..Len(AxisFields) -> Field] /\ Len(AxisFields) \in Nat
        /\ DOMAIN AxisFields = 1..Len(AxisFields)
    BY FieldAssumption
  <1>4. turn_off_all_axes \in [1..Len(AxisFields) -> Assignment]
    BY <1>1, <1>3, FieldAssumption DEF turn_off_all_axes
  <1> QED  BY <1>2, <1>3, <1>4

(* Who holds a lock is between the stores of a call on that port, and has   *)
(* raised the flag unless that store is still to come.                      *)
LockInv ==
    /\ \A w \in Caller : stores[w] # {} =>
            todo[w] # <<>> /\ lock[Target(w)] = w
    /\ \A p \in Port, w \in Caller : lock[p] = w =>
            /\ stores[w] # {} /\ Target(w) = p
            /\ "changed" \notin stores[w] => changed[p]

(* A flush under way has the flag up and the hardware enabled; after its    *)
(* transfer the expander holds the copied byte, unless the transfer failed. *)
FlushInv ==
    /\ pc # "idle" => changed[current] /\ enabled
    /\ pc = "clear" /\ current \notin hit => Latch(current) = val8

IInv == TypeOK /\ LockInv /\ FlushInv /\ FlagDownMeansFlushed

LEMMA TypeInit == Init => TypeOK
  <1> SUFFICES ASSUME Init PROVE TypeOK
    OBVIOUS
  <1>1. /\ val \in [Field -> FieldVal] /\ chip \in [Field -> FieldVal]
        /\ changed \in [Port -> BOOLEAN] /\ lock \in [Port -> Caller \cup {None}]
    BY FieldAssumption DEF Init
  <1>2. ctr \in 0..Width - 1
    BY TurnAssumption DEF Init
  <1>3. calls \in 0..MaxCalls /\ i2c_errors \in 0..MaxFaults
    BY BoundAssumption DEF Init
  <1>4. /\ todo \in [Caller -> Seq(Assignment)]
        /\ stores \in [Caller -> SUBSET {"val", "changed"}]
    BY DEF Init
  <1> QED  BY <1>1, <1>2, <1>3, <1>4 DEF Init, TypeOK

(* One step keeps the types, one case per action.                           *)
LEMMA TypeNext == TypeOK /\ LockInv /\ [Next]_vars => TypeOK'
  <1> SUFFICES ASSUME TypeOK, LockInv, [Next]_vars PROVE TypeOK'
    OBVIOUS
  <1> USE BoundAssumption DEF TypeOK
  <1>0. ctr' = ctr => current' = current
    BY DEF current
  <1>1. ASSUME NEW w \in Caller, Call(w) PROVE TypeOK'
    <2>1. todo' \in [Caller -> Seq(Assignment)]
      <3>1. turn_off_all_axes \in Seq(Assignment)
              /\ \A f \in Field, v \in FieldVal : SetField(f, v) \in Seq(Assignment)
        BY CallType
      <3>2. todo \in [Caller -> Seq(Assignment)]
        OBVIOUS
      <3> HIDE DEF TypeOK
      <3>3. \E s \in Seq(Assignment) : todo' = [todo EXCEPT ![w] = s]
        BY <1>1, <3>1 DEF Call
      <3> QED  BY <3>2, <3>3
    <2>2. calls' \in 0..MaxCalls
      BY <1>1 DEF Call
    <2> QED  BY <1>0, <1>1, <2>1, <2>2 DEF Call, flushVars
  <1>2. ASSUME NEW w \in Caller, Acquire(w) PROVE TypeOK'
    <2>1. /\ lock' \in [Port -> Caller \cup {None}]
          /\ stores' \in [Caller -> SUBSET {"val", "changed"}]
      BY <1>2 DEF Acquire
    <2> QED  BY <1>0, <1>2, <2>1 DEF Acquire, flushVars
  <1>3. ASSUME NEW w \in Caller, NEW store, Finish(w, store), todo[w] # <<>>
        PROVE  /\ lock' \in [Port -> Caller \cup {None}]
               /\ stores' \in [Caller -> SUBSET {"val", "changed"}]
               /\ todo' \in [Caller -> Seq(Assignment)]
    <2>1. Tail(todo[w]) \in Seq(Assignment)
      BY <1>3
    <2> QED  BY <1>3, <2>1 DEF Finish
  <1>4. ASSUME NEW w \in Caller, StoreVal(w) PROVE TypeOK'
    <2>0. todo[w] # <<>>
      BY <1>4 DEF StoreVal, LockInv
    <2>1. Head(todo[w]) \in Assignment
      BY <2>0
    <2>2. val' \in [Field -> FieldVal]
      BY <1>4, <2>1 DEF StoreVal, Assignment
    <2>3. Finish(w, "val")
      BY <1>4 DEF StoreVal
    <2> QED  BY <1>0, <1>3, <1>4, <2>0, <2>2, <2>3 DEF StoreVal, flushVars
  <1>5. ASSUME NEW w \in Caller, StoreChanged(w) PROVE TypeOK'
    <2>0. todo[w] # <<>>
      BY <1>5 DEF StoreChanged, LockInv
    <2>1. changed' \in [Port -> BOOLEAN]
      BY <1>5 DEF StoreChanged
    <2>2. Finish(w, "changed")
      BY <1>5 DEF StoreChanged
    <2> QED  BY <1>0, <1>3, <1>5, <2>0, <2>1, <2>2 DEF StoreChanged, flushVars
  <1>6. CASE EnableHw
    BY <1>0, <1>6 DEF EnableHw, callerVars, flushVars
  <1>7. CASE Skip
    BY <1>7, TickType DEF Skip, callerVars
  <1>8. CASE BeginFlush
    <2>1. ctr' \in 0..Width - 1
      BY <1>8, TickType DEF BeginFlush
    <2>2. current' \in Port
      BY <1>8, <2>1, TurnIsUnique DEF BeginFlush, FlushDue
    <2> QED  BY <1>8, <2>1, <2>2 DEF BeginFlush, callerVars
  <1>9. CASE CopyByte
    <2>1. val8' \in [FieldsOf(current) -> FieldVal]
      BY <1>9 DEF CopyByte, Byte, FieldsOf
    <2> QED  BY <1>0, <1>9, <2>1 DEF CopyByte, callerVars
  <1>10. CASE set_gpiox_reg \/ TransferFails
    <2>1. WithPort(val8) \in [Field -> FieldVal]
      BY <1>10 DEF set_gpiox_reg, TransferFails, WithPort, FieldsOf
    <2>2. CASE set_gpiox_reg
      BY <1>0, <2>1, <2>2 DEF set_gpiox_reg, callerVars
    <2>3. CASE TransferFails
      <3>1. i2c_errors' \in 0..MaxFaults
        BY <2>3 DEF TransferFails
      <3> QED  BY <1>0, <2>1, <2>3, <3>1 DEF TransferFails, callerVars
    <2> QED  BY <1>10, <2>2, <2>3
  <1>11. CASE Clear
    BY <1>0, <1>11 DEF Clear, callerVars
  <1>12. CASE UNCHANGED vars
    BY <1>0, <1>12 DEF vars, callerVars, flushVars
  <1> QED  BY <1>1, <1>2, <1>4, <1>5, <1>6, <1>7, <1>8, <1>9, <1>10, <1>11,
              <1>12 DEF Next, CallerStep, SlowCallback

-----------------------------------------------------------------------------
(* The lock discipline.                                                     *)
LEMMA LockNext == TypeOK /\ LockInv /\ [Next]_vars => LockInv'
  <1> SUFFICES ASSUME TypeOK, LockInv, [Next]_vars PROVE LockInv'
    OBVIOUS
  <1>0. pc # "idle" => current \in Port
    BY DEF TypeOK
  <1>t. \A w \in Caller : todo[w] # <<>> => Target(w) \in Port
    <2> SUFFICES ASSUME NEW w \in Caller, todo[w] # <<>> PROVE Target(w) \in Port
      OBVIOUS
    <2>1. Head(todo[w]) \in Assignment
      BY DEF TypeOK
    <2> QED  BY <2>1, FieldAssumption DEF Assignment, Target
  <1>1. ASSUME NEW w \in Caller, Call(w) PROVE LockInv'
    <2>1. stores[w] = {}
      BY <1>1 DEF Call, LockInv
    <2>2. \A u \in Caller \ {w} : todo'[u] = todo[u] /\ Target(u)' = Target(u)
      BY <1>1 DEF Call, TypeOK, Target
    <2> QED  BY <1>1, <2>1, <2>2 DEF Call, LockInv, TypeOK, flushVars
  <1>2. ASSUME NEW w \in Caller, Acquire(w) PROVE LockInv'
    <2>1. \A u \in Caller : Target(u)' = Target(u)
      BY <1>2 DEF Acquire, Target
    <2>2. w # None
      BY NoneAssumption
    <2>3. /\ todo[w] # <<>> /\ Target(w) \in Port /\ stores[w] = {}
          /\ lock[Target(w)] = None
          /\ lock' = [lock EXCEPT ![Target(w)] = w]
          /\ stores' = [stores EXCEPT ![w] = {"val", "changed"}]
          /\ todo' = todo /\ changed' = changed
      BY <1>2, <1>t DEF Acquire
    <2>4. ASSUME NEW u \in Caller, stores'[u] # {}
          PROVE  todo'[u] # <<>> /\ lock'[Target(u)'] = u
      <3>1. CASE u = w
        BY <2>1, <2>3, <3>1 DEF TypeOK
      <3>2. CASE u # w
        <4>1. stores[u] # {}
          BY <2>3, <2>4, <3>2 DEF TypeOK
        <4>2. todo[u] # <<>> /\ lock[Target(u)] = u
          BY <4>1 DEF LockInv
        <4> QED  BY <2>1, <2>3, <4>2, NoneAssumption DEF TypeOK
      <3> QED  BY <3>1, <3>2
    <2>5. ASSUME NEW p \in Port, NEW u \in Caller, lock'[p] = u
          PROVE  /\ stores'[u] # {} /\ Target(u)' = p
                 /\ "changed" \notin stores'[u] => changed'[p]
      <3>1. CASE p = Target(w)
        BY <2>1, <2>3, <2>5, <3>1 DEF TypeOK
      <3>2. CASE p # Target(w)
        <4>1. lock[p] = u
          BY <2>3, <2>5, <3>2 DEF TypeOK
        <4>2. u # w
          BY <2>3, <4>1 DEF LockInv
        <4> QED  BY <2>1, <2>3, <4>1, <4>2 DEF TypeOK, LockInv
      <3> QED  BY <3>1, <3>2
    <2> QED  BY <2>4, <2>5 DEF LockInv
  <1>3. ASSUME NEW w \in Caller, NEW store \in {"val", "changed"},
               store \in stores[w], Finish(w, store),
               changed' = IF store = "changed"
                          THEN [changed EXCEPT ![Target(w)] = TRUE] ELSE changed
        PROVE  LockInv'
    <2>1. todo[w] # <<>> /\ lock[Target(w)] = w /\ Target(w) \in Port
      BY <1>3, <1>t DEF LockInv
    <2>2. \A u \in Caller \ {w} : /\ todo'[u] = todo[u] /\ stores'[u] = stores[u]
                                  /\ Target(u)' = Target(u)
      BY <1>3 DEF Finish, TypeOK, Target
    <2>3. \A p \in Port : changed[p] => changed'[p]
      BY <1>3 DEF TypeOK
    <2>4. "changed" \notin stores'[w] => changed'[Target(w)]
      BY <1>3, <2>1 DEF Finish, TypeOK, LockInv
    <2>5. CASE stores[w] = {store}
      <3>1. stores'[w] = {} /\ lock' = [lock EXCEPT ![Target(w)] = None]
        BY <1>3, <2>5 DEF Finish, TypeOK
      <3>2. \A p \in Port : lock'[p] # w
        BY <2>1, <3>1, NoneAssumption DEF LockInv, TypeOK
      <3> QED  BY <2>1, <2>2, <2>3, <3>1, <3>2, <1>t, NoneAssumption
               DEF LockInv, TypeOK
    <2>6. CASE stores[w] # {store}
      <3>1. /\ stores'[w] # {} /\ lock' = lock /\ todo' = todo
            /\ Target(w)' = Target(w)
        BY <1>3, <2>6 DEF Finish, TypeOK, Target
      <3>2. ASSUME NEW u \in Caller, stores'[u] # {}
            PROVE  todo'[u] # <<>> /\ lock'[Target(u)'] = u
        BY <2>1, <2>2, <3>1, <3>2 DEF LockInv
      <3>3. ASSUME NEW p \in Port, NEW u \in Caller, lock'[p] = u
            PROVE  /\ stores'[u] # {} /\ Target(u)' = p
                   /\ "changed" \notin stores'[u] => changed'[p]
        <4>1. lock[p] = u /\ stores[u] # {} /\ Target(u) = p
          BY <3>1, <3>3 DEF LockInv
        <4>2. CASE u = w
          BY <2>4, <3>1, <4>1, <4>2
        <4>3. CASE u # w
          BY <2>2, <2>3, <4>1, <4>3 DEF LockInv
        <4> QED  BY <4>2, <4>3
      <3> QED  BY <3>2, <3>3 DEF LockInv
    <2> QED  BY <2>5, <2>6
  <1>4. ASSUME NEW w \in Caller, StoreVal(w) \/ StoreChanged(w) PROVE LockInv'
    BY <1>3, <1>4 DEF StoreVal, StoreChanged
  <1>5. CASE EnableHw \/ Skip \/ BeginFlush \/ CopyByte \/ set_gpiox_reg
             \/ TransferFails
    BY <1>5 DEF EnableHw, Skip, BeginFlush, CopyByte, set_gpiox_reg, TransferFails,
                LockInv, Target, callerVars, flushVars
  <1>6. CASE Clear
    <2>1. \A p \in Port : lock[p] # None => changed'[p] = changed[p]
      BY <1>0, <1>6 DEF Clear, TypeOK
    <2> QED  BY <1>6, <2>1, NoneAssumption DEF Clear, LockInv, Target, callerVars
  <1>7. CASE UNCHANGED vars
    BY <1>7 DEF vars, callerVars, flushVars, LockInv, Target
  <1> QED  BY <1>1, <1>2, <1>4, <1>5, <1>6, <1>7 DEF Next, CallerStep, SlowCallback

-----------------------------------------------------------------------------
(* A step that leaves the byte and the latch of every settled port alone,   *)
(* and settles no port, keeps FlagDownMeansFlushed.                         *)
LEMMA KeepFlushed ==
    ASSUME FlagDownMeansFlushed,
           \A p \in Port : Settled(p)' /\ p \notin hit' =>
                Settled(p) /\ p \notin hit /\ Byte(p)' = Byte(p) /\ Latch(p)' = Latch(p)
    PROVE  FlagDownMeansFlushed'
  BY DEF FlagDownMeansFlushed

(* Writing a port's byte changes that port's latch only.                    *)
LEMMA WithPortLatch ==
    ASSUME NEW q \in Port, val8 \in [FieldsOf(q) -> FieldVal],
           chip' = WithPort(val8)
    PROVE  /\ Latch(q)' = val8
           /\ \A p \in Port : p # q => Latch(p)' = Latch(p)
  BY DEF WithPort, Latch, FieldsOf

LEMMA FlushNext == IInv /\ LockInv' /\ [Next]_vars => FlushInv' /\ FlagDownMeansFlushed'
  <1> SUFFICES ASSUME IInv, LockInv', [Next]_vars
               PROVE  FlushInv' /\ FlagDownMeansFlushed'
    OBVIOUS
  <1>0. /\ TypeOK /\ LockInv /\ FlushInv /\ FlagDownMeansFlushed
        /\ pc # "idle" => current \in Port
    BY DEF IInv, TypeOK
  <1>1. CASE \E w \in Caller : Call(w) \/ Acquire(w)
    <2>1. /\ changed' = changed /\ val' = val /\ UNCHANGED flushVars /\ enabled' = enabled
          /\ \A p \in Port : lock'[p] = None => lock[p] = None
      BY <1>0, <1>1, NoneAssumption DEF Call, Acquire, TypeOK
    <2>2. FlagDownMeansFlushed'
      BY <1>0, <2>1, KeepFlushed DEF Settled, Byte, Latch, flushVars
    <2> QED  BY <1>0, <2>1, <2>2 DEF FlushInv, Latch, current, flushVars
  <1>2. ASSUME NEW w \in Caller, StoreVal(w) \/ StoreChanged(w)
        PROVE  FlushInv' /\ FlagDownMeansFlushed'
    <2> DEFINE q == Target(w)
    <2>1. todo[w] # <<>> /\ lock[q] = w
      BY <1>0, <1>2 DEF StoreVal, StoreChanged, LockInv
    <2>2. Head(todo[w]) \in Assignment
      BY <1>0, <2>1 DEF TypeOK
    <2>3. q \in Port
      BY <2>2, FieldAssumption DEF Assignment, Target
    <2>4. UNCHANGED flushVars /\ enabled' = enabled
      BY <1>2 DEF StoreVal, StoreChanged
    <2>5. \A p \in Port : changed[p] => changed'[p]
      BY <1>0, <1>2 DEF StoreVal, StoreChanged, TypeOK
    <2>6. \A p \in Port : p # q => Byte(p)' = Byte(p)
      BY <1>0, <1>2, <2>2 DEF StoreVal, StoreChanged, Byte, TypeOK, FieldsOf, Target
    <2>7. \A p \in Port : p # q /\ lock'[p] = None => lock[p] = None
      BY <1>0, <1>2 DEF StoreVal, StoreChanged, Finish, TypeOK
    <2>8. changed'[q] \/ lock'[q] # None
      <3>1. CASE StoreChanged(w)
        <4>1. changed'[q]
          BY <1>0, <2>3, <3>1 DEF StoreChanged, TypeOK
        <4> QED  BY <4>1
      <3>2. CASE StoreVal(w) /\ "changed" \notin stores[w]
        <4>1. changed[q]
          BY <1>0, <2>1, <2>3, <3>2 DEF LockInv
        <4> QED  BY <2>3, <2>5, <4>1
      <3>3. CASE StoreVal(w) /\ "changed" \in stores[w]
        <4>1. lock' = lock
          BY <3>3 DEF StoreVal, Finish
        <4> QED  BY <2>1, <4>1, NoneAssumption
      <3> QED  BY <1>2, <3>1, <3>2, <3>3
    <2>9. FlagDownMeansFlushed'
      <3> SUFFICES ASSUME NEW p \in Port, Settled(p)', p \notin hit'
                   PROVE  Latch(p)' = Byte(p)'
        BY DEF FlagDownMeansFlushed
      <3>1. p # q
        BY <2>8 DEF Settled
      <3>2. Settled(p)
        BY <1>0, <2>5, <2>7, <3>1 DEF Settled, TypeOK
      <3>3. Latch(p) = Byte(p)
        BY <1>0, <2>4, <3>2 DEF FlagDownMeansFlushed, flushVars
      <3> QED  BY <2>4, <2>6, <3>1, <3>3 DEF Latch, flushVars
    <2>10. FlushInv'
      BY <1>0, <2>4, <2>5 DEF FlushInv, Latch, current, flushVars
    <2> QED  BY <2>9, <2>10
  <1>3. CASE EnableHw \/ Skip \/ BeginFlush
    <2>1. UNCHANGED <<val, changed, lock, chip, val8, hit>>
      BY <1>3 DEF EnableHw, Skip, BeginFlush, callerVars, flushVars
    <2>2. FlagDownMeansFlushed'
      BY <1>0, <2>1, KeepFlushed DEF Settled, Byte, Latch
    <2>3. FlushInv'
      <3>1. CASE EnableHw \/ Skip
        BY <1>0, <3>1 DEF EnableHw, Skip, FlushInv, callerVars, flushVars
      <3>2. CASE BeginFlush
        <4>1. PICK p \in Port : Due(Position[p], ctr') /\ MustFlush(p)
          BY <3>2 DEF BeginFlush, FlushDue
        <4>2. current' = p
          BY <1>0, <3>2, <4>1, TickType, TurnIsUnique DEF BeginFlush
        <4> QED  BY <2>1, <3>2, <4>1, <4>2 DEF BeginFlush, MustFlush, FlushInv
      <3> QED  BY <1>3, <3>1, <3>2
    <2> QED  BY <2>2, <2>3
  <1>4. CASE CopyByte
    <2>1. changed[current] /\ enabled
      BY <1>0, <1>4 DEF CopyByte, FlushInv
    <2>2. FlagDownMeansFlushed'
      <3>1. ~Settled(current)
        BY <2>1 DEF Settled
      <3> QED  BY <1>0, <1>4, <3>1, KeepFlushed DEF CopyByte, Settled, Byte, Latch
    <2> QED  BY <1>4, <2>1, <2>2 DEF CopyByte, FlushInv, current
  <1>5. CASE set_gpiox_reg
    <2>1. /\ Latch(current)' = val8
          /\ \A p \in Port : p # current => Latch(p)' = Latch(p)
      BY <1>0, <1>5, WithPortLatch DEF set_gpiox_reg, TypeOK, current
    <2>2. changed[current] /\ enabled
      BY <1>0, <1>5 DEF set_gpiox_reg, FlushInv
    <2>3. FlagDownMeansFlushed'
      BY <1>0, <1>5, <2>1, <2>2, KeepFlushed
         DEF set_gpiox_reg, Settled, Byte, callerVars
    <2>4. current' = current /\ val8' = val8 /\ Latch(current)' = val8'
      BY <1>5, <2>1 DEF set_gpiox_reg, current
    <2> QED  BY <1>5, <2>2, <2>3, <2>4 DEF set_gpiox_reg, FlushInv, Latch
  <1>6. CASE TransferFails
    <2>1. \A p \in Port : p # current => Latch(p)' = Latch(p)
      BY <1>0, <1>6, WithPortLatch DEF TransferFails, TypeOK, current, Latch
    <2>2. changed[current] /\ enabled
      BY <1>0, <1>6 DEF TransferFails, FlushInv
    <2>3. FlagDownMeansFlushed'
      BY <1>0, <1>6, <2>1, <2>2, KeepFlushed
         DEF TransferFails, Settled, Byte, callerVars
    <2> QED  BY <1>6, <2>2, <2>3 DEF TransferFails, FlushInv, current
  <1>7. CASE Clear
    <2>1. FlushInv'
      BY <1>7 DEF Clear, FlushInv
    <2>2. /\ \A p \in Port : p # current => changed'[p] = changed[p]
          /\ UNCHANGED <<val, chip, lock, hit>>
      BY <1>0, <1>7 DEF Clear, TypeOK
    <2>3. ASSUME ~changed'[current], current \notin hit
          PROVE  Latch(current) = Byte(current)
      <3>1. Byte(current) = val8
        BY <1>0, <1>7, <2>3 DEF Clear, FlushInv
      <3> QED  BY <1>0, <1>7, <2>3, <3>1 DEF Clear, FlushInv
    <2>4. FlagDownMeansFlushed'
      <3> SUFFICES ASSUME NEW p \in Port, Settled(p)', p \notin hit'
                   PROVE  Latch(p)' = Byte(p)'
        BY DEF FlagDownMeansFlushed
      <3>1. Latch(p) = Byte(p)
        <4>1. CASE p = current
          <5>1. ~changed'[current] /\ current \notin hit
            BY <2>2, <4>1 DEF Settled
          <5> QED  BY <2>3, <4>1, <5>1
        <4>2. CASE p # current
          BY <1>0, <2>2, <4>2 DEF FlagDownMeansFlushed, Settled
        <4> QED  BY <4>1, <4>2
      <3> QED  BY <2>2, <3>1 DEF Latch, Byte
    <2> QED  BY <2>1, <2>4
  <1>8. CASE UNCHANGED vars
    BY <1>0, <1>8 DEF vars, callerVars, flushVars, FlushInv, FlagDownMeansFlushed,
                      Settled, Byte, Latch, current
  <1> QED  BY <1>1, <1>2, <1>3, <1>4, <1>5, <1>6, <1>7, <1>8
           DEF Next, CallerStep, SlowCallback

LEMMA InitIInv == Init => IInv
  <1> SUFFICES ASSUME Init PROVE IInv
    OBVIOUS
  <1>1. LockInv
    BY NoneAssumption DEF Init, LockInv
  <1>2. FlushInv /\ FlagDownMeansFlushed
    BY DEF Init, FlushInv, FlagDownMeansFlushed, Byte, Latch
  <1> QED  BY <1>1, <1>2, TypeInit DEF IInv

THEOREM Invariance == SafeSpec => []IInv
  <1>1. IInv /\ [Next]_vars => IInv'
    BY TypeNext, LockNext, FlushNext DEF IInv
  <1> QED  BY <1>1, InitIInv, PTL DEF SafeSpec

(* Every variable keeps its type.                                           *)
THEOREM TypeCorrect == SafeSpec => []TypeOK
  BY Invariance, PTL DEF IInv

(* A flag that is down means that the expander holds the port's byte,       *)
(* unless the port's latest transfer failed: the unlocked copy and the      *)
(* locked compare never lose a store.                                       *)
THEOREM NoStoreLost == SafeSpec => []FlagDownMeansFlushed
  BY Invariance, PTL DEF IInv

(* The ports move only in a step in which the hardware is and stays enabled.*)
THEOREM GatedPorts == SafeSpec => OnlyFlushedWhileEnabled
  <1> DEFINE A == chip' # chip => enabled /\ enabled'
  <1>1. IInv /\ [Next]_vars => [A]_vars
    <2> SUFFICES ASSUME IInv, Next, chip' # chip PROVE enabled /\ enabled'
      OBVIOUS
    <2>1. set_gpiox_reg \/ TransferFails
      BY DEF Next, SlowCallback, CallerStep, Call, Acquire, StoreVal, StoreChanged,
             flushVars, EnableHw, Skip, BeginFlush, CopyByte, Clear
    <2>2. enabled /\ enabled' = enabled
      BY <2>1 DEF set_gpiox_reg, TransferFails, IInv, FlushInv
    <2> QED  BY <2>2
  <1> QED  BY <1>1, Invariance, PTL DEF SafeSpec, OnlyFlushedWhileEnabled

-----------------------------------------------------------------------------
(* Ticks and turns: the arithmetic of ctr.                                  *)
LEMMA Wraps ==
    ASSUME NEW w \in Nat, w > 0
    PROVE  /\ \A a \in 0..w - 1 : a % w = a
           /\ \A a \in w..2 * w - 1 : a % w = a - w
           /\ \A a \in Nat : a % w \in 0..w - 1
           /\ 0 % w = 0
  OBVIOUS

LEMMA Divides ==
    ASSUME NEW n \in Nat, n > 0, NEW x \in Nat
    PROVE  (x + (n - (x % n))) % n = 0
  <1> DEFINE q == x \div n
  <1>1. x = n * q + (x % n) /\ q \in Nat /\ x % n \in Nat
    OBVIOUS
  <1>2. \A k \in Nat : (n * k) % n = 0 /\ n * k \in Nat
    OBVIOUS
  <1> HIDE DEF q
  <1>3. n * (q + 1) = n * q + n /\ n * q \in Nat
    BY <1>1, <1>2
  <1>4. x + (n - (x % n)) = n * (q + 1)
    BY <1>1, <1>3
  <1>5. q + 1 \in Nat
    BY <1>1
  <1> QED  BY <1>2, <1>4, <1>5

(* Adding before or after the wrap makes no difference.                     *)
LEMMA WrapTwice ==
    ASSUME NEW w \in Nat, w > 0, NEW c \in 0..w - 1, NEW k \in 0..w - 1, NEW d \in 0..w
    PROVE  (((c + d) % w) + k) % w = (((c + k) % w) + d) % w
  <1>1. (c + d) % w = IF c + d < w THEN c + d ELSE c + d - w
    BY Wraps
  <1>2. (c + k) % w = IF c + k < w THEN c + k ELSE c + k - w
    BY Wraps
  <1>3. CASE c + d < w
    BY <1>1, <1>2, <1>3, Wraps
  <1>4. CASE ~(c + d < w)
    BY <1>1, <1>2, <1>4, Wraps
  <1> QED  BY <1>3, <1>4

LEMMA TurnComes ==
    ASSUME NEW c \in 0..Width - 1, NEW k \in 0..Round - 1
    PROVE  \E d \in 1..Round : Due(k, (c + d) % Width)
  <1> DEFINE x == (c + k) % Width
             up == Round - (x % Round)
             d  == IF x + up < Width THEN up ELSE Width - x
  <1>1. Width \in Nat /\ Round \in Nat /\ Width > 0 /\ Round > 0 /\ Round <= Width
    BY TurnAssumption
  <1>2. x \in 0..Width - 1 /\ x % Round \in 0..Round - 1
    BY <1>1, Wraps
  <1>3. up \in 1..Round /\ (x + up) % Round = 0
    <2> HIDE DEF x
    <2>1. x \in Nat /\ x % Round \in Nat /\ x % Round < Round
      BY <1>1, <1>2
    <2>2. (x + (Round - (x % Round))) % Round = 0
      BY <1>1, <2>1, Divides
    <2> QED  BY <1>1, <2>1, <2>2
  <1> HIDE DEF x, up
  <1>4. d \in 1..Round /\ d \in 0..Width
    BY <1>1, <1>2, <1>3
  <1>5. (x + d) % Width = IF x + up < Width THEN x + up ELSE 0
    <2>1. CASE x + up < Width
      BY <1>1, <1>2, <1>3, <2>1, Wraps
    <2>2. CASE ~(x + up < Width)
      <3>1. x + d = Width /\ Width % Width = Width - Width
        BY <1>1, <1>2, <2>2, Wraps
      <3> QED  BY <1>1, <2>2, <3>1
    <2> QED  BY <2>1, <2>2
  <1>6. ((x + d) % Width) % Round = 0
    BY <1>1, <1>3, <1>5, Wraps
  <1> HIDE DEF d
  <1>7. (((c + d) % Width) + k) % Width = (x + d) % Width
    BY <1>1, <1>4, WrapTwice DEF x
  <1>8. Due(k, (c + d) % Width)
    BY <1>6, <1>7 DEF Due
  <1> QED  BY <1>4, <1>8

(* Whatever the width of ctr: every port has its turn in any Round ticks.   *)
THEOREM RoundIsWhole == SafeSpec => []RoundServesAll
  <1>1. TypeOK => RoundServesAll
    BY TurnComes, TurnAssumption DEF TypeOK, RoundServesAll
  <1> QED  BY <1>1, TypeCorrect, PTL

-----------------------------------------------------------------------------
(* Without failing transfers each step is a step of WriteBehind or hides    *)
(* from it.                                                                 *)
LEMMA StepImplements ==
    ASSUME MaxFaults = 0
    PROVE  IInv /\ IInv' /\ [Next]_vars => [WB!Next]_(WB!vars)
  <1> SUFFICES ASSUME IInv, IInv', [Next]_vars
               PROVE  WB!Next \/ UNCHANGED WB!vars
    OBVIOUS
  <1>0. TypeOK /\ TypeOK' /\ LockInv /\ FlushInv /\ (pc # "idle" => current \in Port)
    BY DEF IInv, TypeOK
  <1> DEFINE Want == [p \in Port |-> Byte(p)]
             Shown == [p \in Port |-> Latch(p)]
             Taken == [p \in Port |->
                        IF pc = "transfer" /\ p = current THEN val8 ELSE Latch(p)]
  <1>1. ASSUME NEW w \in Caller, Call(w) \/ Acquire(w) \/ StoreChanged(w)
        PROVE  UNCHANGED WB!vars
    BY <1>1 DEF Call, Acquire, StoreChanged, flushVars, WB!vars, Byte, Latch, current
  <1>2. ASSUME NEW w \in Caller, StoreVal(w) PROVE WB!Next
    <2> DEFINE f == Head(todo[w]).f
               q == PortOf[f]
               b == [g \in FieldsOf(q) |-> val'[g]]
    <2>1. Head(todo[w]) \in Assignment
      BY <1>0, <1>2 DEF StoreVal, LockInv, TypeOK
    <2>2. f \in Field /\ q \in Port
      BY <2>1, FieldAssumption DEF Assignment
    <2>3. b \in PortVal
      <3>1. b \in [FieldsOf(q) -> FieldVal]
        BY <1>0 DEF TypeOK, FieldsOf
      <3> QED  BY <2>2, <3>1 DEF PortVal
    <2>4. \A g \in Field : g # f => val'[g] = val[g]
      BY <1>0, <1>2 DEF StoreVal, TypeOK
    <2>5. Want' = [Want EXCEPT ![q] = b]
      BY <2>2, <2>4 DEF Byte, FieldsOf
    <2>6. Shown' = Shown /\ Taken' = Taken /\ enabled' = enabled
      BY <1>2 DEF StoreVal, flushVars, Latch, current
    <2>7. WB!Ask(q, b)
      BY <2>5, <2>6 DEF WB!Ask
    <2> QED  BY <2>2, <2>3, <2>7 DEF WB!Next
  <1>3. CASE EnableHw
    <2>1. WB!Gate
      BY <1>3 DEF EnableHw, callerVars, flushVars, WB!Gate, Byte, Latch, current
    <2> QED  BY <2>1 DEF WB!Next
  <1>4. CASE Skip \/ BeginFlush \/ Clear
    BY <1>4 DEF Skip, BeginFlush, Clear, callerVars, WB!vars, Byte, Latch, current
  <1>5. CASE CopyByte
    <2>1. enabled
      BY <1>0, <1>5 DEF CopyByte, FlushInv
    <2>2. Want' = Want /\ Shown' = Shown /\ enabled' = enabled /\ Taken = Shown
      BY <1>5 DEF CopyByte, callerVars, Byte, Latch
    <2>3. Taken' = [Taken EXCEPT ![current] = Want[current]]
      <3>1. current' = current /\ current \in Port
        BY <1>0, <1>5 DEF CopyByte, current
      <3>2. val8' = Byte(current) /\ pc' = "transfer"
        BY <1>5 DEF CopyByte
      <3>3. Taken' = [p \in Port |-> IF p = current THEN Byte(current) ELSE Latch(p)]
        <4>1. \A p \in Port : Latch(p)' = Latch(p)
          BY <1>5 DEF CopyByte, Latch
        <4> QED  BY <3>1, <3>2, <4>1
      <3> QED  BY <2>2, <3>1, <3>3
    <2>4. CASE Taken[current] = Want[current]
      <3>1. Taken' = Taken
        BY <2>3, <2>4
      <3> QED  BY <2>2, <3>1 DEF WB!vars
    <2>5. CASE Taken[current] # Want[current]
      <3>1. PICK r \in Port : r = current
        BY <1>0, <1>5 DEF CopyByte
      <3>2. WB!Take(r)
        BY <2>1, <2>2, <2>3, <2>5, <3>1 DEF WB!Take, WB!Passable
      <3> QED  BY <3>2 DEF WB!Next
    <2> QED  BY <2>4, <2>5
  <1>6. CASE set_gpiox_reg
    <2>1. enabled
      BY <1>0, <1>6 DEF set_gpiox_reg, FlushInv
    <2>2. /\ Latch(current)' = val8
          /\ \A p \in Port : p # current => Latch(p)' = Latch(p)
      BY <1>0, <1>6, WithPortLatch DEF set_gpiox_reg, TypeOK, current
    <2>3. current' = current
      BY <1>6 DEF set_gpiox_reg, current
    <2>4. Want' = Want /\ enabled' = enabled
      BY <1>6 DEF set_gpiox_reg, callerVars, Byte
    <2>5. Taken' = Taken /\ Taken[current] = val8
      BY <1>0, <1>6, <2>2, <2>3 DEF set_gpiox_reg
    <2>6. Shown' = [Shown EXCEPT ![current] = val8]
      BY <1>0, <2>2, <2>3
    <2>7. CASE Shown[current] = val8
      <3>1. Shown' = Shown
        BY <2>6, <2>7
      <3> QED  BY <2>4, <2>5, <3>1 DEF WB!vars
    <2>8. CASE Shown[current] # val8
      <3>1. WB!Show(current)
        BY <1>0, <2>1, <2>4, <2>5, <2>6, <2>8 DEF WB!Show, WB!Passable
      <3>2. current \in Port
        BY <1>0, <1>6 DEF set_gpiox_reg
      <3> QED  BY <3>1, <3>2 DEF WB!Next
    <2> QED  BY <2>7, <2>8
  <1>7. CASE TransferFails
    BY <1>0, <1>7 DEF TransferFails, TypeOK
  <1>8. CASE UNCHANGED vars
    BY <1>8 DEF vars, callerVars, flushVars, WB!vars, Byte, Latch, current
  <1> QED  BY <1>1, <1>2, <1>3, <1>4, <1>5, <1>6, <1>7, <1>8
           DEF Next, CallerStep, SlowCallback

(* With no failing transfer a port behaves as one write-behind register:    *)
(* whole bytes only, never an older one, and nothing while disabled.        *)
THEOREM GpioxImplementsWriteBehind ==
    ASSUME MaxFaults = 0
    PROVE  SafeSpec => WB!SafeSpec
  <1>1. Init => WB!Init
    BY DEF Init, WB!Init, Byte, Latch, FieldsOf
  <1> QED  BY <1>1, StepImplements, Invariance, PTL DEF SafeSpec, WB!SafeSpec
=============================================================================
