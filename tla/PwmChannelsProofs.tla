------------------------- MODULE PwmChannelsProofs -------------------------
(***************************************************************************)
(* For every set of channels, every duty width, any number of writers,      *)
(* calls and failing transfers: the type invariant of PwmChannels, that a   *)
(* clean write heals a channel, and that a gated output moves only while    *)
(* the hardware is enabled.                                                 *)
(***************************************************************************)
EXTENDS PwmChannels, TLAPS

(* A function from the domain of a sequence is a sequence.                  *)
LEMMA MapIsSeq ==
    ASSUME NEW S, NEW T, NEW s \in Seq(S), NEW f \in [DOMAIN s -> T]
    PROVE  f \in Seq(T)
  <1>1. DOMAIN s = 1..Len(s) /\ Len(s) \in Nat
    OBVIOUS
  <1>2. f \in [1..Len(s) -> T]
    BY <1>1
  <1> QED  BY <1>1, <1>2

(* A call made of schedule_set_pwm on channels, one per element of a        *)
(* sequence of channels, is a sequence of writes.                           *)
LEMMA CallIsSeq ==
    ASSUME NEW s \in Seq(Channel), NEW f,
           f = [i \in DOMAIN s |-> [ch |-> s[i], val |-> f[i].val]],
           \A i \in DOMAIN s : f[i].val \in Duty \cup {Bad}
    PROVE  f \in Seq(Write)
  <1>1. \A i \in DOMAIN s : s[i] \in Channel
    OBVIOUS
  <1>2. f \in [DOMAIN s -> Write]
    BY <1>1 DEF Write
  <1> QED  BY <1>2, MapIsSeq

(* Every call a writer can make stores duties, or a bad value, to channels. *)
LEMMA CallsType == Calls \subseteq Seq(Write)
  <1> USE DutyAssumption
  <1>1. Heaters \in Seq(Channel) /\ Leds \in Seq(Channel)
    <2>1. Heater \subseteq Channel /\ Led \subseteq Channel
      BY DEF Channel, Gated
    <2> QED  BY <2>1, ChannelAssumption
  <1>2. ASSUME NEW d \in [DOMAIN Heaters -> Asked \cup {Bad}]
        PROVE  HeaterCall(d) \in Seq(Write)
    <2> DEFINE f == HeaterCall(d)
    <2>1. f = [i \in DOMAIN Heaters |-> [ch |-> Heaters[i], val |-> f[i].val]]
      BY DEF HeaterCall
    <2>2. \A i \in DOMAIN Heaters : f[i].val \in Duty \cup {Bad}
      BY DEF HeaterCall
    <2> QED  BY <1>1, <2>1, <2>2, CallIsSeq
  <1>3. ASSUME NEW c \in {HOOTER, AC220}, NEW v \in {Zero, Full}
        PROVE  <<[ch |-> c, val |-> v]>> \in Seq(Write)
    <2>1. [ch |-> c, val |-> v] \in Write
      BY DEF Write, Channel, Gated
    <2> QED  BY <2>1
  <1>4. ASSUME NEW d \in [DOMAIN Leds -> {Zero, Full}]
        PROVE  LedCall(d) \in Seq(Write)
    <2> DEFINE f == LedCall(d)
    <2>1. f = [i \in DOMAIN Leds |-> [ch |-> Leds[i], val |-> f[i].val]]
      BY DEF LedCall
    <2>2. \A i \in DOMAIN Leds : f[i].val \in Duty \cup {Bad}
      BY DEF LedCall
    <2> QED  BY <1>1, <2>1, <2>2, CallIsSeq
  <1>5. AllOff \in Seq(Write)
    <2> DEFINE order == Leds \o Heaters \o <<AC220, HOOTER>>
               f == [i \in DOMAIN order |-> [ch |-> order[i], val |-> Zero]]
    <2>1. <<AC220, HOOTER>> \in Seq(Channel)
      BY DEF Channel, Gated
    <2>2. order \in Seq(Channel)
      BY <1>1, <2>1
    <2> HIDE DEF order
    <2>3. f = [i \in DOMAIN order |-> [ch |-> order[i], val |-> f[i].val]]
      OBVIOUS
    <2>4. \A i \in DOMAIN order : f[i].val \in Duty \cup {Bad}
      OBVIOUS
    <2>5. f \in Seq(Write)
      <3> HIDE DEF f
      <3> QED  BY <2>2, <2>3, <2>4, CallIsSeq
    <2> QED  BY <2>5 DEF order, AllOff
  <1> SUFFICES ASSUME NEW call \in Calls PROVE call \in Seq(Write)
    OBVIOUS
  <1>6. CASE call \in {HeaterCall(d) : d \in [DOMAIN Heaters -> Asked \cup {Bad}]}
    BY <1>2, <1>6
  <1>7. CASE call \in {<<[ch |-> c, val |-> v]>> :
                         c \in {HOOTER, AC220}, v \in {Zero, Full}}
    <2>1. PICK c \in {HOOTER, AC220}, v \in {Zero, Full} :
              call = <<[ch |-> c, val |-> v]>>
      BY <1>7
    <2> QED  BY <1>3, <2>1
  <1>8. CASE call \in {LedCall(d) : d \in [DOMAIN Leds -> {Zero, Full}]}
    BY <1>4, <1>8
  <1> QED  BY <1>5, <1>6, <1>7, <1>8 DEF Calls

-----------------------------------------------------------------------------
(* The slot counter always names a channel.                                 *)
LEMMA CurrentType ==
    ASSUME slot \in 1..Len(Visit)
    PROVE  /\ current \in Channel
           /\ NextSlot \in 1..Len(Visit)
  BY ChannelAssumption DEF current, NextSlot

(* Writing one byte of a duty gives a duty.                                 *)
LEMMA WithByteType ==
    ASSUME off \in Duty, NEW d \in Duty, NEW reg \in DOMAIN AfterByte
    PROVE  /\ WithByte(d, reg) \in Duty
           /\ WithByte(d, reg).lo = IF reg = "offL" THEN off.lo ELSE d.lo
           /\ WithByte(d, reg).hi = IF reg = "offH" THEN off.hi ELSE d.hi
  <1>1. reg \in {"onL", "onH", "offL", "offH"}
    BY DEF AfterByte
  <1> QED  BY <1>1 DEF WithByte, Duty

LEMMA AfterByteType ==
    ASSUME pc \in DOMAIN AfterByte
    PROVE  /\ pc \in {"onL", "onH", "offL", "offH"}
           /\ AfterByte[pc] \in {"onH", "offL", "offH", "commit"}
           /\ AfterByte[pc] = "commit" => pc = "offH"
           /\ AfterByte[pc] = "offH" => pc = "offL"
  BY DEF AfterByte

LEMMA TypeInit == Init => TypeOK
  <1> SUFFICES ASSUME Init PROVE TypeOK
    OBVIOUS
  <1>1. todo \in [Writer -> Seq(Write)]
    BY DEF Init
  <1>2. 1 \in 1..Len(Visit)
    BY ChannelAssumption
  <1>3. jobs \in 0..MaxJobs /\ i2c_errors \in 0..MaxFaults
    BY BoundAssumption DEF Init
  <1>4. /\ wanted \in [Channel -> Duty] /\ actual \in [Channel -> Duty]
        /\ chip \in [Channel -> Duty] /\ off \in Duty
    BY DutyAssumption DEF Init
  <1> QED  BY <1>1, <1>2, <1>3, <1>4 DEF Init, TypeOK, PC

(* One step keeps the types, one case per action.                           *)
LEMMA TypeNext == TypeOK /\ [Next]_vars => TypeOK'
  <1> SUFFICES ASSUME TypeOK, [Next]_vars PROVE TypeOK'
    OBVIOUS
  <1> USE DutyAssumption, BoundAssumption DEF TypeOK, PC
  <1>0. current \in Channel /\ NextSlot \in 1..Len(Visit)
    BY CurrentType
  <1>1. ASSUME NEW w \in Writer, Call(w) PROVE TypeOK'
    <2>1. todo' \in [Writer -> Seq(Write)]
      BY <1>1, CallsType DEF Call
    <2> QED  BY <1>1, <2>1 DEF Call, callback
  <1>2. ASSUME NEW w \in Writer, schedule_set_pwm(w) PROVE TypeOK'
    <2>1. Head(todo[w]) \in Write /\ Tail(todo[w]) \in Seq(Write)
      BY <1>2 DEF schedule_set_pwm
    <2>2. wanted' \in [Channel -> Duty]
      BY <1>2, <2>1 DEF schedule_set_pwm, Write
    <2>3. todo' \in [Writer -> Seq(Write)]
      BY <1>2, <2>1 DEF schedule_set_pwm
    <2> QED  BY <1>2, <2>2, <2>3 DEF schedule_set_pwm, callback
  <1>3. ASSUME NEW w \in Writer, RejectBadData(w) PROVE TypeOK'
    <2>1. todo' \in [Writer -> Seq(Write)]
      BY <1>3 DEF RejectBadData
    <2> QED  BY <1>3, <2>1 DEF RejectBadData, callback
  <1>4. CASE EnableHw
    BY <1>4 DEF EnableHw, callback
  <1>5. CASE SkipSlot
    BY <1>0, <1>5 DEF SkipSlot
  <1>6. CASE BeginWrite
    BY <1>6 DEF BeginWrite
  <1>7. CASE Latch
    BY <1>0, <1>7 DEF Latch
  <1>8. CASE WriteByte
    <2>1. chip' \in [Channel -> Duty]
      <3>1. WithByte(chip[current], pc) \in Duty
        BY <1>0, <1>8, WithByteType DEF WriteByte
      <3> QED  BY <1>0, <1>8, <3>1 DEF WriteByte
    <2>2. pc' \in PC
      BY <1>8, AfterByteType DEF WriteByte
    <2> QED  BY <1>8, <2>1, <2>2 DEF WriteByte
  <1>9. CASE WriteByteFails
    <2>1. chip' \in [Channel -> Duty]
      <3>1. WithByte(chip[current], pc) \in Duty
        BY <1>0, <1>9, WithByteType DEF WriteByteFails
      <3> QED  BY <1>0, <1>9, <3>1 DEF WriteByteFails
    <2>2. pc' \in PC
      BY <1>9, AfterByteType DEF WriteByteFails
    <2>3. i2c_errors' \in 0..MaxFaults
      BY <1>9 DEF WriteByteFails
    <2> QED  BY <1>0, <1>9, <2>1, <2>2, <2>3 DEF WriteByteFails
  <1>10. CASE Commit
    BY <1>0, <1>10 DEF Commit
  <1>11. CASE UNCHANGED vars
    BY <1>11 DEF vars
  <1> QED  BY <1>1, <1>2, <1>3, <1>4, <1>5, <1>6, <1>7, <1>8, <1>9, <1>10,
              <1>11 DEF Next, SlowCallback

(* Every variable keeps its type.                                           *)
THEOREM TypeCorrect == SafeSpec => []TypeOK
  BY TypeInit, TypeNext, PTL DEF SafeSpec

-----------------------------------------------------------------------------
(* CleanWriteHeals is not inductive: it has to say what the chip already    *)
(* holds of the latched duty after each of the last two transfers.          *)
BytesSoFar ==
    current \notin hit =>
        /\ pc \in {"offH", "commit"} => chip[current].lo = off.lo
        /\ pc = "commit" => chip[current].hi = off.hi

(* The test of is_enabled stays valid for the whole write.                  *)
GateHeld == pc # "idle" /\ current \in Gated => enabled

IInv == TypeOK /\ CleanWriteHeals /\ BytesSoFar /\ GateHeld

LEMMA InitIInv == Init => IInv
  <1> SUFFICES ASSUME Init PROVE IInv
    OBVIOUS
  <1>1. TypeOK
    BY TypeInit
  <1> QED  BY <1>1 DEF Init, IInv, CleanWriteHeals, BytesSoFar, GateHeld

(* One step of the callback or of a writer keeps the strengthening.         *)
LEMMA NextIInv == IInv /\ [Next]_vars => IInv'
  <1> SUFFICES ASSUME IInv, [Next]_vars PROVE IInv'
    OBVIOUS
  <1>0. TypeOK /\ TypeOK'
    BY TypeNext DEF IInv
  <1> USE DEF IInv
  <1>1. current \in Channel
    BY <1>0, CurrentType DEF TypeOK
  <1> SUFFICES CleanWriteHeals' /\ BytesSoFar' /\ GateHeld'
    BY <1>0
  <1> USE DEF CleanWriteHeals, BytesSoFar, GateHeld, Busy, current
  <1>2. ASSUME NEW w \in Writer,
               Call(w) \/ schedule_set_pwm(w) \/ RejectBadData(w)
        PROVE  CleanWriteHeals' /\ BytesSoFar' /\ GateHeld'
    BY <1>2 DEF Call, schedule_set_pwm, RejectBadData, callback
  <1>3. CASE EnableHw
    BY <1>3 DEF EnableHw, callback
  <1>4. CASE SkipSlot
    BY <1>4 DEF SkipSlot
  <1>5. CASE BeginWrite
    BY <1>5 DEF BeginWrite, MustWrite
  <1>6. CASE Latch
    BY <1>6 DEF Latch
  <1>7. CASE WriteByte
    <2>1. /\ \A c \in Channel : c # current => chip'[c] = chip[c]
          /\ chip'[current] = WithByte(chip[current], pc)
      BY <1>0, <1>1, <1>7 DEF WriteByte, TypeOK
    <2>2. /\ chip'[current].lo = IF pc = "offL" THEN off.lo ELSE chip[current].lo
          /\ chip'[current].hi = IF pc = "offH" THEN off.hi ELSE chip[current].hi
      BY <1>0, <1>1, <1>7, <2>1, WithByteType DEF WriteByte, TypeOK
    <2>3. pc # "idle" /\ pc' # "idle" /\ (pc' = "offH" => pc = "offL")
          /\ (pc' = "commit" => pc = "offH")
      BY <1>7, AfterByteType DEF WriteByte
    <2> QED  BY <1>7, <2>1, <2>2, <2>3 DEF WriteByte
  <1>8. CASE WriteByteFails
    <2>1. \A c \in Channel : c # current => chip'[c] = chip[c]
      BY <1>0, <1>8 DEF WriteByteFails, TypeOK
    <2>2. pc # "idle" /\ pc' # "idle"
      BY <1>8, AfterByteType DEF WriteByteFails
    <2> QED  BY <1>8, <2>1, <2>2 DEF WriteByteFails
  <1>9. CASE Commit
    <2>1. current \notin hit => chip[current] = off
      BY <1>0, <1>1, <1>9 DEF Commit, TypeOK, Duty
    <2> QED  BY <1>0, <1>1, <1>9, <2>1 DEF Commit, TypeOK
  <1>10. CASE UNCHANGED vars
    BY <1>10 DEF vars
  <1> QED  BY <1>2, <1>3, <1>4, <1>5, <1>6, <1>7, <1>8, <1>9, <1>10
           DEF Next, SlowCallback

THEOREM Invariance == SafeSpec => []IInv
  BY InitIInv, NextIInv, PTL DEF SafeSpec

(* Once a write of a channel has gone through without a failed transfer,    *)
(* the chip holds what actual_value says, for ever after until the next     *)
(* failure on that channel.                                                 *)
THEOREM Heals == SafeSpec => []CleanWriteHeals
  BY Invariance, PTL DEF IInv

(* If no transfer of a channel has failed, set_pwm may skip a channel whose *)
(* actual_value equals its wanted_value: the chip does show it.             *)
THEOREM SkipIsSound ==
    SafeSpec => [](\A c \in Channel :
        ~Busy(c) /\ c \notin hit /\ actual[c] = wanted[c] => chip[c] = wanted[c])
  <1>1. IInv => \A c \in Channel :
            ~Busy(c) /\ c \notin hit /\ actual[c] = wanted[c] => chip[c] = wanted[c]
    BY DEF IInv, CleanWriteHeals
  <1> QED  BY <1>1, Invariance, PTL

(* A heater, the hooter or the head supply moves only in a step in which    *)
(* the hardware is enabled and stays so.                                    *)
THEOREM GatedOutputs == SafeSpec => OnlyWrittenWhileEnabled
  <1> DEFINE A == \A c \in Gated : chip'[c] # chip[c] => enabled /\ enabled'
  <1>1. IInv /\ [Next]_vars => [A]_vars
    <2> SUFFICES ASSUME IInv, Next, NEW c \in Gated, chip'[c] # chip[c]
                 PROVE  enabled /\ enabled'
      OBVIOUS
    <2>1. WriteByte \/ WriteByteFails
      BY DEF Next, SlowCallback, Call, schedule_set_pwm, RejectBadData, callback,
             EnableHw, SkipSlot, BeginWrite, Latch, Commit
    <2>2. pc # "idle" /\ enabled' = enabled
      BY <2>1, AfterByteType DEF WriteByte, WriteByteFails
    <2>3. c = current
      BY <2>1 DEF WriteByte, WriteByteFails, IInv, TypeOK, Channel
    <2>4. current \in Gated
      BY <2>3
    <2>5. GateHeld
      BY DEF IInv
    <2>6. enabled
      BY <2>2, <2>4, <2>5 DEF GateHeld
    <2> QED  BY <2>2, <2>6
  <1> QED  BY <1>1, Invariance, PTL DEF SafeSpec, OnlyWrittenWhileEnabled

(* The slow callback takes the channels in order, and leaves one that it    *)
(* may write only with the duty last asked in the chip, or the one it       *)
(* latched when a store overtook it, unless a transfer failed: neither a    *)
(* skipped nor a half-made write passes for a served one.  It is what       *)
(* LastAskIsShown needs apart from the timer going on.                      *)
SlotServes ==
    current \in Led \/ enabled =>
        /\ pc = "idle" => actual[current] = wanted[current]
        /\ pc # "idle" => actual'[current] = off
        /\ current \in hit \/ chip'[current] = actual'[current]

SlotsServe == [][slot' # slot => slot' = NextSlot /\ SlotServes]_vars

THEOREM SlotsAreServed == SafeSpec => SlotsServe
  <1>1. IInv /\ [Next]_vars => [slot' # slot => slot' = NextSlot /\ SlotServes]_vars
    <2> SUFFICES ASSUME IInv, Next, slot' # slot PROVE slot' = NextSlot /\ SlotServes
      BY DEF vars
    <2>0. TypeOK /\ current \in Channel /\ CleanWriteHeals /\ BytesSoFar
      BY CurrentType DEF IInv, TypeOK
    <2>1. SkipSlot \/ Commit
      BY DEF Next, SlowCallback, Call, schedule_set_pwm, RejectBadData, callback,
             EnableHw, BeginWrite, Latch, WriteByte, WriteByteFails
    <2>2. CASE SkipSlot
      <3>1. current \in Led \/ enabled => actual[current] = wanted[current]
        BY <2>0, <2>2, ChannelAssumption DEF SkipSlot, MustWrite
      <3> QED  BY <2>0, <2>2, <3>1 DEF SkipSlot, SlotServes, CleanWriteHeals, Busy
    <2>3. CASE Commit
      <3>1. actual'[current] = off /\ chip' = chip /\ slot' = NextSlot /\ pc = "commit"
        BY <2>0, <2>3 DEF Commit, TypeOK
      <3>2. current \notin hit => chip[current] = off
        BY <2>0, <3>1 DEF BytesSoFar, TypeOK, Duty
      <3> QED  BY <3>1, <3>2 DEF SlotServes
    <2> QED  BY <2>1, <2>2, <2>3
  <1> QED  BY <1>1, Invariance, PTL DEF SafeSpec, SlotsServe

-----------------------------------------------------------------------------
(* When no transfer can fail, PwmChannels implements WriteBehind.  The      *)
(* mapping needs to know that the chip still holds the old duty until the   *)
(* third transfer, and the old high byte until the fourth.                  *)
OldBytes ==
    /\ pc \in {"latch", "onL", "onH", "offL"} => chip[current] = actual[current]
    /\ pc = "offH" => chip[current] = [actual[current] EXCEPT !.lo = off.lo]

FaultFree == i2c_errors = 0 /\ hit = {} /\ OldBytes

LEMMA FaultFreeNext ==
    ASSUME MaxFaults = 0
    PROVE  IInv /\ FaultFree /\ [Next]_vars => FaultFree'
  <1> SUFFICES ASSUME IInv, FaultFree, [Next]_vars PROVE FaultFree'
    OBVIOUS
  <1>0. TypeOK /\ current \in Channel /\ CleanWriteHeals
    BY CurrentType DEF IInv, TypeOK
  <1> USE DEF FaultFree, OldBytes
  <1>1. CASE \E w \in Writer : Call(w) \/ schedule_set_pwm(w) \/ RejectBadData(w)
    BY <1>1 DEF Call, schedule_set_pwm, RejectBadData, callback, current
  <1>2. CASE EnableHw \/ SkipSlot \/ Commit
    BY <1>2 DEF EnableHw, SkipSlot, Commit, callback
  <1>3. CASE BeginWrite
    <2>1. chip[current] = actual[current]
      BY <1>0, <1>3 DEF BeginWrite, CleanWriteHeals, Busy
    <2> QED  BY <1>3, <2>1 DEF BeginWrite, current
  <1>4. CASE Latch
    BY <1>4 DEF Latch, current
  <1>5. CASE WriteByte
    <2>1. CASE pc \in {"onL", "onH"}
      <3>1. pc' \in {"onH", "offL"} /\ WithByte(chip[current], pc) = chip[current]
        BY <1>5, <2>1 DEF WriteByte, AfterByte, WithByte
      <3>2. chip' = chip
        BY <1>0, <1>5, <3>1 DEF WriteByte, TypeOK
      <3> QED  BY <1>5, <2>1, <3>1, <3>2 DEF WriteByte, current
    <2>2. CASE pc = "offL"
      <3>1. /\ pc' = "offH"
            /\ WithByte(chip[current], pc) = [chip[current] EXCEPT !.lo = off.lo]
        BY <1>5, <2>2 DEF WriteByte, AfterByte, WithByte
      <3> QED  BY <1>0, <1>5, <2>2, <3>1 DEF WriteByte, TypeOK, current
    <2>3. CASE pc = "offH"
      BY <1>5, <2>3 DEF WriteByte, AfterByte
    <2> QED  BY <1>5, <2>1, <2>2, <2>3, AfterByteType DEF WriteByte
  <1>6. CASE WriteByteFails
    BY <1>6 DEF WriteByteFails
  <1>7. CASE UNCHANGED vars
    BY <1>7 DEF vars, current
  <1> QED  BY <1>1, <1>2, <1>3, <1>4, <1>5, <1>6, <1>7 DEF Next, SlowCallback

(* Every step of the callback is a step of WriteBehind, or hides from it.   *)
LEMMA StepImplements ==
    ASSUME MaxFaults = 0
    PROVE  IInv /\ FaultFree /\ [Next]_vars => [WB!Next]_(WB!vars)
  <1> SUFFICES ASSUME IInv, FaultFree, [Next]_vars
               PROVE  WB!Next \/ UNCHANGED WB!vars
    OBVIOUS
  <1>0. TypeOK /\ TypeOK' /\ current \in Channel /\ GateHeld /\ CleanWriteHeals
    BY TypeNext, CurrentType DEF IInv, TypeOK
  <1>a. \A c \in Channel : c # current => TakenDuty[c] = actual[c] /\ ShownDuty[c] = chip[c]
    BY DEF TakenDuty, ShownDuty, Busy
  <1>1. CASE \E w \in Writer : Call(w) \/ RejectBadData(w)
    BY <1>1 DEF Call, RejectBadData, callback, WB!vars, TakenDuty, ShownDuty,
                Busy, Writing, current
  <1>2. ASSUME NEW w \in Writer, schedule_set_pwm(w) PROVE WB!Next
    <2> DEFINE r == Head(todo[w]).ch
               v == Head(todo[w]).val
    <2>1. Head(todo[w]) \in Write
      BY <1>0, <1>2 DEF schedule_set_pwm, TypeOK
    <2>2. r \in Channel /\ v \in Duty
      BY <1>2, <2>1 DEF schedule_set_pwm, Write
    <2>3. TakenDuty' = TakenDuty /\ ShownDuty' = ShownDuty
      BY <1>2 DEF schedule_set_pwm, callback, TakenDuty, ShownDuty, Busy,
                  Writing, current
    <2>4. WB!Ask(r, v)
      BY <1>2, <2>3 DEF schedule_set_pwm, callback, WB!Ask
    <2> QED  BY <2>2, <2>4 DEF WB!Next
  <1>3. CASE EnableHw
    <2>1. TakenDuty' = TakenDuty /\ ShownDuty' = ShownDuty
      BY <1>3 DEF EnableHw, callback, TakenDuty, ShownDuty, Busy, Writing, current
    <2>2. WB!Gate
      BY <1>3, <2>1 DEF EnableHw, callback, WB!Gate
    <2> QED  BY <2>2 DEF WB!Next
  <1>4. CASE SkipSlot \/ BeginWrite
    BY <1>4 DEF SkipSlot, BeginWrite, WB!vars, TakenDuty, ShownDuty, Busy, Writing,
                current
  <1>5. CASE Latch
    <2>1. /\ ShownDuty = chip /\ ShownDuty' = chip
          /\ TakenDuty = actual
          /\ TakenDuty' = [actual EXCEPT ![current] = wanted[current]]
      BY <1>0, <1>5 DEF Latch, TypeOK, ShownDuty, TakenDuty, Busy, Writing, current
    <2>2. current \in Gated => enabled
      BY <1>0, <1>5 DEF Latch, GateHeld
    <2>3. chip[current] = actual[current]
      BY <1>5 DEF Latch, FaultFree, OldBytes
    <2>4. CASE actual[current] = wanted[current]
      <3>1. TakenDuty' = TakenDuty
        BY <1>0, <2>1, <2>4 DEF TypeOK
      <3> QED  BY <1>5, <2>1, <3>1 DEF Latch, WB!vars
    <2>5. CASE actual[current] # wanted[current]
      <3>1. WB!Take(current)
        BY <1>5, <2>1, <2>2, <2>3, <2>5 DEF Latch, WB!Take, WB!Passable
      <3> QED  BY <1>0, <3>1 DEF WB!Next
    <2> QED  BY <2>4, <2>5
  <1>6. CASE WriteByte /\ pc # "offH"
    <2>1. TakenDuty' = TakenDuty
      BY <1>0, <1>6, AfterByteType DEF WriteByte, TakenDuty, Busy, Writing, current
    <2>2. CASE pc = "offL"
      <3>1. /\ pc' = "offH"
            /\ WithByte(chip[current], pc) = [chip[current] EXCEPT !.lo = off.lo]
        BY <1>6, <2>2 DEF WriteByte, AfterByte, WithByte
      <3>2. /\ chip[current] = actual[current]
            /\ chip' = [chip EXCEPT ![current] = [actual[current] EXCEPT !.lo = off.lo]]
        BY <1>6, <2>2, <3>1 DEF WriteByte, FaultFree, OldBytes
      <3>3. ShownDuty = chip
        BY <1>0, <2>2 DEF ShownDuty, TypeOK
      <3>4. ShownDuty' = chip
        BY <1>0, <1>6, <3>1, <3>2 DEF WriteByte, ShownDuty, TypeOK, Busy, current
      <3> QED  BY <1>6, <2>1, <3>3, <3>4 DEF WriteByte, WB!vars
    <2>3. CASE pc \in {"onL", "onH"}
      <3>1. pc' \in {"onH", "offL"} /\ WithByte(chip[current], pc) = chip[current]
        BY <1>6, <2>3 DEF WriteByte, AfterByte, WithByte
      <3>2. chip' = chip
        BY <1>0, <1>6, <3>1 DEF WriteByte, TypeOK
      <3>3. ShownDuty' = ShownDuty
        BY <1>6, <2>3, <3>1, <3>2 DEF WriteByte, ShownDuty
      <3> QED  BY <1>6, <2>1, <3>3 DEF WriteByte, WB!vars
    <2> QED  BY <1>6, <2>2, <2>3, AfterByteType DEF WriteByte
  <1>7. CASE WriteByte /\ pc = "offH"
    <2>1. TakenDuty' = TakenDuty /\ TakenDuty[current] = off
      BY <1>0, <1>7, AfterByteType DEF WriteByte, TakenDuty, Busy, Writing, current,
                                       AfterByte
    <2>2. chip[current] = [actual[current] EXCEPT !.lo = off.lo]
      BY <1>7 DEF FaultFree, OldBytes
    <2>3. pc' = "commit" /\ chip' = [chip EXCEPT ![current] = off]
      <3>1. WithByte(chip[current], pc) = off
        BY <1>0, <1>7, <2>2 DEF WithByte, TypeOK, Duty
      <3> QED  BY <1>7, <3>1 DEF WriteByte, AfterByte
    <2>4. ShownDuty' = chip' /\ ShownDuty = [chip EXCEPT ![current] = actual[current]]
      BY <1>0, <1>7, <2>2, <2>3 DEF WriteByte, ShownDuty, TypeOK, Busy
    <2>5. ShownDuty' = [ShownDuty EXCEPT ![current] = off]
      BY <1>0, <2>3, <2>4 DEF TypeOK
    <2>6. ShownDuty[current] = actual[current]
      BY <1>0, <2>4 DEF TypeOK
    <2>7. CASE actual[current] = off
      <3>1. ShownDuty' = ShownDuty
        BY <1>0, <2>4, <2>5, <2>6, <2>7 DEF TypeOK
      <3> QED  BY <1>7, <2>1, <3>1 DEF WriteByte, WB!vars
    <2>8. CASE actual[current] # off
      <3>1. current \in Gated => enabled
        BY <1>0, <1>7 DEF GateHeld
      <3>2. WB!Show(current)
        BY <1>7, <2>1, <2>5, <2>6, <2>8, <3>1 DEF WriteByte, WB!Show, WB!Passable
      <3> QED  BY <1>0, <3>2 DEF WB!Next
    <2> QED  BY <2>7, <2>8
  <1>8. CASE WriteByteFails
    BY <1>8 DEF WriteByteFails, FaultFree
  <1>9. CASE Commit
    <2>1. TakenDuty' = TakenDuty
      BY <1>0, <1>9 DEF Commit, TakenDuty, TypeOK, Busy, Writing
    <2>2. ShownDuty' = ShownDuty
      BY <1>9 DEF Commit, ShownDuty
    <2> QED  BY <1>9, <2>1, <2>2 DEF Commit, WB!vars
  <1>10. CASE UNCHANGED vars
    BY <1>10 DEF vars, WB!vars, TakenDuty, ShownDuty, Busy, Writing, current
  <1> QED  BY <1>1, <1>2, <1>3, <1>4, <1>5, <1>6, <1>7, <1>8, <1>9, <1>10
           DEF Next, SlowCallback

(* With no failing transfer, a heater, the hooter, the head supply and the  *)
(* lamp behave as write-behind registers: no older value reappears, nothing *)
(* moves while the gate is closed, and byte-wise writing is not seen.       *)
THEOREM PwmImplementsWriteBehind ==
    ASSUME MaxFaults = 0
    PROVE  SafeSpec => WB!SafeSpec
  <1>1. Init => WB!Init /\ FaultFree
    BY DEF Init, WB!Init, FaultFree, OldBytes, TakenDuty, ShownDuty
  <1>2. SafeSpec => []FaultFree
    BY <1>1, FaultFreeNext, Invariance, PTL DEF SafeSpec
  <1> QED  BY <1>1, <1>2, StepImplements, Invariance, PTL DEF SafeSpec, WB!SafeSpec
=============================================================================
