------------------------- MODULE SenseControlProofs -------------------------
(***************************************************************************)
(* The safety properties of SenseControl for any set of outputs, any table  *)
(* of slots, any thresholds and timeouts, and any number of writes and      *)
(* failures.  Some hold wherever the three timers expire (EachInv), some    *)
(* when all expire on one CPU (IInv).                                       *)
(***************************************************************************)
EXTENDS SenseControl, TLAPS

OneCpu == \A t, u \in Timer : Cpu[t] = Cpu[u]

(* The sloow callback starts and ends at the watchdog.                      *)
CauseInv ==
    /\ pc["sloow"] \in {"idle", "dog", "bite"} \cup DogCheck => cause = "watchdog"
    /\ pc["sloow"] = "window" => cause \in Bus

(* A read under way is that of a bus, a push that of an output.             *)
SlotInv ==
    /\ pc["slow"] = "read" => current \in Bus
    /\ pc["slow"] = "push" => current \in Output

(* A reset that has been served, and is held, keeps the hardware disabled.  *)
ResetInv == old_reset => pc["fast"] = "idle" /\ ~is_enabled

(* A request to reset the RTD chips is kept until it is being served.       *)
RequestInv == rtdOwed => reset_i2c0 \/ pc["fast"] = "rtdinit"

(* What the watchdog has left during its check, and when it is about to     *)
(* bite, unless a user disarmed it in the midst of the check.               *)
Bitten == cause = "watchdog" /\ pc["sloow"] \in {"bite", "off", "zero", "raise"}

DueInv ==
    /\ biteWanted => watchdog_timer > 0 \/ pc["sloow"] \in {"dogjudge", "bite"}
    /\ ~disarmed =>
            /\ pc["sloow"] = "dogload" => watchdog_timer > 0
            /\ pc["sloow"] \in {"dogstore", "dogjudge"} => left > -Tick
            /\ pc["sloow"] = "dogjudge" => watchdog_timer > 0 \/ watchdog_timer = left
            /\ Bitten => left \in (1 - Tick)..0

(* A chip has what the slow callback takes it to have, unless the latest    *)
(* push of the output met a failure.                                        *)
HealInv == \A o \in Output : o \in hit \/ shown[o] = believed[o]

(* What holds although callbacks on other CPUs run between any two steps.   *)
EachInv == TypeOK /\ CauseInv /\ SlotInv /\ ResetInv /\ RequestInv /\ DueInv /\ HealInv

(* At most one callback is under way.                                       *)
Solo ==
    /\ pc["fast"] = "idle" \/ pc["slow"] = "idle"
    /\ pc["fast"] = "idle" \/ pc["sloow"] = "idle"
    /\ pc["slow"] = "idle" \/ pc["sloow"] = "idle"

(* The gate the slow callback has passed is still open.                     *)
PushInv == pc["slow"] = "push" => is_enabled

(* While a reset is being served, the slate is wiped step by step.          *)
CleanInv ==
    /\ pc["fast"] \in {"clrerrors", "disable"} =>
            \A b \in Bus : errors[b] = 0 /\ old[b] = 0
    /\ pc["fast"] = "disable" => \A c \in Cause : ~flag[c]

(* A wish is fresh, unless an alarm or a reset is about to drop it.         *)
WishInv ==
    \A o \in Output :
        \/ asked[o] = 0 \/ o \in fresh
        \/ pc["sloow"] = "zero" \/ pc["fast"] \in {"init", "turnoff"}

(* An alarm under way has seen too many failures.                           *)
AlarmBurst ==
    cause \in Bus /\ (\/ pc["sloow"] = "raise"
                      \/ pc["sloow"] \in {"off", "zero"} /\ cause # "i2c")
        => burst[cause] > TooMany[cause]

(* The two counters of a bus differ by the failures since the last quiet    *)
(* window, which is what a window measures.                                 *)
CountInv == AlarmBurst /\ \A b \in Bus : errors[b] = old[b] + burst[b]

IInv == EachInv /\ Solo /\ PushInv /\ CleanInv /\ WishInv /\ CountInv

-----------------------------------------------------------------------------
LEMMA SlotType ==
    ASSUME slot \in 1..Len(Visit)
    PROVE  current \in Output \cup Bus /\ NextSlot \in 1..Len(Visit)
  BY VisitAssumption DEF current, NextSlot

LEMMA TypeInit == Init => TypeOK
  <1> SUFFICES ASSUME Init PROVE TypeOK
    OBVIOUS
  <1>1. /\ errors \in [Bus -> Nat] /\ old \in [Bus -> Nat] /\ burst \in [Bus -> Nat]
        /\ flag \in [Cause -> BOOLEAN]
    BY DEF Init
  <1>2. /\ asked \in [Output -> {0, 1}] /\ believed \in [Output -> {0, 1}]
        /\ shown \in [Output -> {0, 1}]
    BY DEF Init
  <1>3. /\ pc \in [Timer -> FastPC \cup SlowPC \cup SloowPC]
        /\ pc["fast"] \in FastPC /\ pc["slow"] \in SlowPC /\ pc["sloow"] \in SloowPC
    BY DEF Init, Timer, FastPC, SlowPC, SloowPC
  <1>4. slot \in 1..Len(Visit) /\ asks \in 0..MaxAsks /\ faults \in 0..MaxFaults
    BY VisitAssumption, NumberAssumption DEF Init
  <1>5. watchdog_timer \in Int /\ left \in Int
    BY DEF Init
  <1>7. disarmed \in BOOLEAN
    BY DEF Init
  <1>6. cause \in Cause
    BY DEF Init, Cause
  <1> QED  BY <1>1, <1>2, <1>3, <1>4, <1>5, <1>6, <1>7 DEF Init, TypeOK

(* What failing transfers do to the counters.                               *)
LEMMA FailType ==
    ASSUME NEW b \in Bus, NEW n \in Nat, TypeOK, Fail(b, n)
    PROVE  /\ errors' \in [Bus -> Nat] /\ burst' \in [Bus -> Nat]
           /\ faults' \in 0..MaxFaults
  <1>1. /\ errors \in [Bus -> Nat] /\ burst \in [Bus -> Nat]
        /\ faults \in 0..MaxFaults /\ MaxFaults \in Nat
    BY NumberAssumption DEF TypeOK
  <1>2. errors[b] + n \in Nat /\ burst[b] + n \in Nat
    BY <1>1
  <1> QED  BY <1>1, <1>2 DEF Fail

(* What a set of transfers may do to the counters.                          *)
LEMMA TransfersType ==
    ASSUME NEW buses \in SUBSET Bus, TypeOK, Transfers(buses)
    PROVE  /\ errors' \in [Bus -> Nat] /\ old' \in [Bus -> Nat]
           /\ burst' \in [Bus -> Nat] /\ faults' \in 0..MaxFaults
  <1>1. old' \in [Bus -> Nat]
    BY DEF Transfers, TypeOK
  <1>2. CASE UNCHANGED <<errors, burst, faults>>
    BY <1>1, <1>2 DEF TypeOK
  <1>3. ASSUME NEW b \in buses, Fail(b, 1)
        PROVE  /\ errors' \in [Bus -> Nat] /\ burst' \in [Bus -> Nat]
               /\ faults' \in 0..MaxFaults
    BY <1>3, FailType
  <1> QED  BY <1>1, <1>2, <1>3 DEF Transfers

(* A push makes its transfers on the i2c bus, and they may fail.            *)
LEMMA PushFaults ==
    ASSUME SlowPush
    PROVE  /\ old' = old
           /\ \/ UNCHANGED <<errors, burst, faults>>
              \/ \E n \in Nat : Fail("i2c", n)
  <1>1. 1..4 \subseteq Nat
    OBVIOUS
  <1> QED  BY <1>1 DEF SlowPush

(* A callback moves to one of its own labels.                               *)
LEMMA GotoType ==
    ASSUME TypeOK, NEW t \in Timer, NEW label, Goto(t, label),
           label \in (CASE t = "fast" -> FastPC [] t = "slow" -> SlowPC
                        [] t = "sloow" -> SloowPC)
    PROVE  /\ pc' \in [Timer -> FastPC \cup SlowPC \cup SloowPC]
           /\ pc'["fast"] \in FastPC /\ pc'["slow"] \in SlowPC
           /\ pc'["sloow"] \in SloowPC
           /\ pc'[t] = label /\ \A u \in Timer \ {t} : pc'[u] = pc[u]
  BY DEF Goto, TypeOK, Timer

PcType ==
    /\ pc \in [Timer -> FastPC \cup SlowPC \cup SloowPC]
    /\ pc["fast"] \in FastPC /\ pc["slow"] \in SlowPC /\ pc["sloow"] \in SloowPC

DataType ==
    /\ reset_status \in BOOLEAN /\ reset_i2c0 \in BOOLEAN
    /\ enabled_status \in BOOLEAN /\ is_enabled \in BOOLEAN
    /\ watchdog_timer \in Int /\ left \in Int /\ disarmed \in BOOLEAN
    /\ flag \in [Cause -> BOOLEAN] /\ hardware_error = FALSE
    /\ old_reset \in BOOLEAN
    /\ asked \in [Output -> {0, 1}] /\ believed \in [Output -> {0, 1}]
    /\ shown \in [Output -> {0, 1}]
    /\ slot \in 1..Len(Visit)
    /\ cause \in Cause
    /\ asks \in 0..MaxAsks
    /\ rtdOwed \in BOOLEAN /\ biteWanted \in BOOLEAN
    /\ fresh \subseteq Output /\ hit \subseteq Output

CountType ==
    /\ errors \in [Bus -> Nat] /\ old \in [Bus -> Nat] /\ burst \in [Bus -> Nat]
    /\ faults \in 0..MaxFaults

LEMMA DogOverType == DogOver => left' \in Int /\ disarmed' \in BOOLEAN
  <1> SUFFICES ASSUME DogOver PROVE left' \in Int /\ disarmed' \in BOOLEAN
    OBVIOUS
  <1>1. left' = 0
    BY DEF DogOver
  <1>2. disarmed' = FALSE
    BY DEF DogOver
  <1>3. left' \in Int
    BY <1>1
  <1>4. disarmed' \in BOOLEAN
    BY <1>2
  <1> QED  BY <1>3, <1>4

LEMMA PcNext == TypeOK /\ [Next]_vars => PcType'
  <1> SUFFICES ASSUME TypeOK, [Next]_vars PROVE PcType'
    OBVIOUS
  <1> USE DEF PcType, FastPC, SlowPC, SloowPC, Timer
  <1>1. CASE Handler
    BY <1>1 DEF Handler, proc_set_resethw, proc_set_enablehw, proc_set_resetrtd,
                proc_set_watchdog_timeout, SetOutput, User, driven, TypeOK
  <1>2. CASE Fast
    BY <1>2 DEF Fast, FastBegin, ResetInit, turn_off_everything, clear_all_stats,
                clear_all_errors, ResetDone, RtdTest, RtdClear, init_i2c0, Gate,
                read_spi1, Goto, TypeOK
  <1>3. CASE Slow
    BY <1>3 DEF Slow, SlowBegin, SlowRead, SlowPush, Goto, TypeOK
  <1>4. CASE Sloow
    BY <1>4 DEF Sloow, SloowBegin, DogTest, DogLoad, DogStore, DogJudge, Bite, Window,
                RaiseFlag,
                ErrorDisable, ErrorTurnOff, NextCheck, Goto, TypeOK
  <1>5. CASE UNCHANGED vars
    BY <1>5 DEF vars, TypeOK
  <1> QED  BY <1>1, <1>2, <1>3, <1>4, <1>5 DEF Next

LEMMA CountTypeNext == TypeOK /\ CauseInv /\ SlotInv /\ [Next]_vars => CountType'
  <1> SUFFICES ASSUME TypeOK, CauseInv, SlotInv, [Next]_vars PROVE CountType'
    OBVIOUS
  <1> USE DEF CountType, stats
  <1>1. CASE Handler
    BY <1>1 DEF Handler, proc_set_resethw, proc_set_enablehw, proc_set_resetrtd,
                proc_set_watchdog_timeout, SetOutput, User, driven, TypeOK
  <1>2. CASE ResetInit \/ init_i2c0 \/ read_spi1
    <2>1. PICK buses \in SUBSET Bus : Transfers(buses)
      BY <1>2 DEF ResetInit, init_i2c0, read_spi1, Bus
    <2> QED  BY <2>1, TransfersType
  <1>3. CASE clear_all_stats
    BY <1>3 DEF clear_all_stats, TypeOK
  <1>4. CASE SlowRead
    <2>1. {current} \in SUBSET Bus
      BY <1>4 DEF SlowRead, At, SlotInv
    <2> QED  BY <1>4, <2>1, TransfersType DEF SlowRead
  <1>5. CASE SloowBegin
    BY <1>5, TransfersType DEF SloowBegin, Bus
  <1>6. CASE Window
    <2>1. cause \in Bus
      BY <1>6 DEF Window, At, CauseInv
    <2>2. UNCHANGED <<errors, faults>>
      BY <1>6 DEF Window
    <2>3. /\ errors[cause] \in Nat
          /\ [old EXCEPT ![cause] = errors[cause]] \in [Bus -> Nat]
      BY <2>1 DEF TypeOK
    <2>4. [burst EXCEPT ![cause] = 0] \in [Bus -> Nat]
      BY <2>1 DEF TypeOK
    <2>5. /\ \/ old' = old
             \/ old' = [old EXCEPT ![cause] = errors[cause]]
          /\ \/ burst' = burst
             \/ burst' = [burst EXCEPT ![cause] = 0]
      BY <1>6, Zenon DEF Window
    <2> QED  BY <2>2, <2>3, <2>4, <2>5 DEF TypeOK
  <1>8. CASE SlowPush
    <2>1. CASE UNCHANGED <<errors, burst, faults>>
      BY <1>8, <2>1, PushFaults DEF TypeOK
    <2>2. CASE \E n \in Nat : Fail("i2c", n)
      <3>1. "i2c" \in Bus
        BY DEF Bus
      <3> QED  BY <1>8, <2>2, <3>1, PushFaults, FailType DEF TypeOK
    <2> QED  BY <1>8, <2>1, <2>2, PushFaults
  <1>7. CASE \/ FastBegin \/ turn_off_everything \/ clear_all_errors \/ ResetDone
             \/ RtdTest \/ RtdClear \/ Gate \/ SlowBegin \/ DogTest
             \/ DogLoad \/ DogStore \/ DogJudge \/ Bite \/ RaiseFlag \/ ErrorDisable
             \/ ErrorTurnOff
             \/ UNCHANGED vars
    BY <1>7 DEF FastBegin, turn_off_everything, clear_all_errors, ResetDone, RtdTest,
                RtdClear, Gate, SlowBegin, DogTest, DogLoad, DogStore, DogJudge, Bite,
                RaiseFlag, ErrorDisable, ErrorTurnOff, vars, TypeOK
  <1> QED  BY <1>1, <1>2, <1>3, <1>4, <1>5, <1>6, <1>7, <1>8 DEF Next, Fast, Slow, Sloow

LEMMA DataNext == TypeOK /\ SlotInv /\ [Next]_vars => DataType'
  <1> SUFFICES ASSUME TypeOK, SlotInv, [Next]_vars PROVE DataType'
    OBVIOUS
  <1> USE NumberAssumption
          DEF DataType, TypeOK, user, rtd, stats, alarms, timer, dog, chips, outs, driven,
              Goto
  <1>0. current \in Output \cup Bus /\ NextSlot \in 1..Len(Visit)
    BY SlotType
  <1>1. CASE Handler
    <2>1. asks' \in 0..MaxAsks
      BY <1>1 DEF Handler, proc_set_resethw, proc_set_enablehw, proc_set_resetrtd,
                  proc_set_watchdog_timeout, SetOutput, User
    <2>2. CASE proc_set_resethw \/ proc_set_enablehw
      BY <2>1, <2>2 DEF proc_set_resethw, proc_set_enablehw, User
    <2>2a. CASE proc_set_resetrtd
      BY <2>1, <2>2a DEF proc_set_resetrtd, User
    <2>3. CASE proc_set_watchdog_timeout
      <3>1. disarmed' \in BOOLEAN /\ biteWanted' \in BOOLEAN
        BY <2>3 DEF proc_set_watchdog_timeout
      <3> QED  BY <2>1, <2>3, <3>1 DEF proc_set_watchdog_timeout, User
    <2>4. CASE SetOutput
      <3>0. PICK o \in Output : asked' = [asked EXCEPT ![o] = 1 - asked[o]]
                               /\ fresh' = fresh \cup {o}
        BY <2>4 DEF SetOutput
      <3>a. asked[o] = 0 \/ asked[o] = 1
        OBVIOUS
      <3>b. 1 - asked[o] \in {0, 1}
        BY <3>a
      <3>c. asked' \in [Output -> {0, 1}]
        BY <3>0, <3>b
      <3>1. asked' \in [Output -> {0, 1}] /\ fresh' \subseteq Output
        BY <3>0, <3>c
      <3>2. UNCHANGED <<reset_status, enabled_status, biteWanted, rtd,
                        timer, driven>>
        BY <2>4 DEF SetOutput, User
      <3> QED  BY <2>1, <3>1, <3>2
    <2> QED  BY <1>1, <2>2, <2>2a, <2>3, <2>4 DEF Handler
  <1>2. CASE FastBegin
    BY <1>2 DEF FastBegin
  <1>3. CASE turn_off_everything
    BY <1>3 DEF turn_off_everything, TurnOff
  <1>4. CASE clear_all_errors
    BY <1>4 DEF clear_all_errors
  <1>5. CASE ResetInit
    BY <1>5 DEF ResetInit
  <1>5b. CASE clear_all_stats \/ ResetDone
    BY <1>5b DEF clear_all_stats, ResetDone
  <1>5a. CASE RtdTest \/ RtdClear
    BY <1>5a DEF RtdTest, RtdClear
  <1>6. CASE init_i2c0 \/ read_spi1
    BY <1>6 DEF init_i2c0, read_spi1
  <1>7. CASE Gate
    BY <1>7 DEF Gate
  <1>8. CASE SlowBegin \/ SlowRead
    BY <1>0, <1>8 DEF SlowBegin, SlowRead
  <1>9. CASE SlowPush
    <2>1. current \in Output
      BY <1>9 DEF SlowPush, At, SlotInv
    <2>2. /\ believed' \in [Output -> {0, 1}] /\ shown' \in [Output -> {0, 1}]
          /\ hit' \subseteq Output
      BY <1>9, <2>1 DEF SlowPush
    <2> QED  BY <1>0, <1>9, <2>2 DEF SlowPush
  <1>c. ASSUME NextCheck PROVE cause' \in Cause
    BY <1>c DEF NextCheck, AfterCheck, Cause, Bus
  <1>10. CASE SloowBegin
    BY <1>10 DEF SloowBegin
  <1>11. CASE DogTest
    <2>1. cause' \in Cause
      BY <1>11, <1>c DEF DogTest
    <2> QED  BY <1>11, <2>1 DEF DogTest
  <1>12. CASE DogLoad \/ DogStore
    BY <1>12 DEF DogLoad, DogStore
  <1>19. CASE DogJudge
    <2>1. cause' \in Cause /\ left' \in Int /\ disarmed' \in BOOLEAN
      BY <1>19, <1>c, DogOverType DEF DogJudge
    <2> QED  BY <1>19, <2>1 DEF DogJudge
  <1>13. CASE Bite
    <2>1. watchdog_timer' \in Int
      BY <1>13 DEF Bite
    <2> QED  BY <1>13, <2>1 DEF Bite
  <1>14. CASE Window
    <2>1. cause' \in Cause
      BY <1>14, <1>c DEF Window
    <2> QED  BY <1>14, <2>1 DEF Window
  <1>15. CASE RaiseFlag
    <2>1. cause' \in Cause
      BY <1>15, <1>c DEF RaiseFlag
    <2>2. left' \in Int /\ disarmed' \in BOOLEAN
      BY <1>15, DogOverType DEF RaiseFlag
    <2> QED  BY <1>15, <2>1, <2>2 DEF RaiseFlag
  <1>16. CASE ErrorDisable
    BY <1>16 DEF ErrorDisable
  <1>17. CASE ErrorTurnOff
    <2>1. cause' \in Cause
      BY <1>17, <1>c DEF ErrorTurnOff
    <2> QED  BY <1>17, <2>1 DEF ErrorTurnOff, TurnOff
  <1>18. CASE UNCHANGED vars
    BY <1>18 DEF vars
  <1> QED  BY <1>1, <1>2, <1>3, <1>4, <1>5, <1>5a, <1>5b, <1>6, <1>7, <1>8, <1>9, <1>10,
              <1>11, <1>12, <1>13, <1>14, <1>15, <1>16, <1>17, <1>18, <1>19
           DEF Next, Fast, Slow, Sloow

-----------------------------------------------------------------------------
(* A callback starts only when the two others are idle.                     *)
LEMMA StartsAlone ==
    ASSUME OneCpu, NEW t \in Timer, CanStart(t)
    PROVE  \A u \in Timer : pc[u] = "idle"
  BY DEF OneCpu, CanStart

LEMMA SoloNext == OneCpu /\ TypeOK /\ Solo /\ [Next]_vars => Solo'
  <1> SUFFICES ASSUME OneCpu, TypeOK, Solo, [Next]_vars PROVE Solo'
    OBVIOUS
  <1>t. pc \in [Timer -> FastPC \cup SlowPC \cup SloowPC]
    BY DEF TypeOK
  <1> USE DEF Solo, Goto, Timer
  <1>1. CASE Handler
    BY <1>1 DEF Handler, proc_set_resethw, proc_set_enablehw, proc_set_resetrtd,
                proc_set_watchdog_timeout, SetOutput, User, driven
  <1>2. CASE FastBegin \/ SlowBegin \/ SloowBegin
    BY <1>2, <1>t, StartsAlone DEF FastBegin, SlowBegin, SloowBegin
  <1>3. CASE \/ ResetInit \/ turn_off_everything \/ clear_all_stats
             \/ clear_all_errors \/ ResetDone \/ RtdTest \/ RtdClear \/ init_i2c0
             \/ Gate \/ read_spi1
    BY <1>3, <1>t DEF ResetInit, turn_off_everything, clear_all_stats,
                      clear_all_errors, ResetDone, RtdTest, RtdClear, init_i2c0,
                      Gate, read_spi1, At
  <1>4. CASE SlowRead \/ SlowPush
    BY <1>4, <1>t DEF SlowRead, SlowPush, At
  <1>5. CASE \/ DogTest \/ DogLoad \/ DogStore \/ DogJudge \/ Bite \/ Window
             \/ RaiseFlag
             \/ ErrorDisable \/ ErrorTurnOff
    BY <1>5, <1>t DEF DogTest, DogLoad, DogStore, DogJudge, Bite, Window, RaiseFlag,
                      ErrorDisable,
                      ErrorTurnOff, NextCheck, At
  <1>6. CASE UNCHANGED vars
    BY <1>6 DEF vars
  <1> QED  BY <1>1, <1>2, <1>3, <1>4, <1>5, <1>6 DEF Next, Fast, Slow, Sloow

(* NextCheck leaves the callback after spi1, else it enters a bus window.    *)
LEMMA NextCheckFact ==
    ASSUME TypeOK, NextCheck
    PROVE  \/ cause = "spi1" /\ pc'["sloow"] = "idle" /\ cause' = "watchdog"
           \/ cause # "spi1" /\ pc'["sloow"] = "window" /\ cause' \in Bus
  BY DEF NextCheck, AfterCheck, TypeOK, Cause, Bus, Goto, Timer

LEMMA CauseNext == TypeOK /\ CauseInv /\ [Next]_vars => CauseInv'
  <1> SUFFICES ASSUME TypeOK, CauseInv, [Next]_vars PROVE CauseInv'
    OBVIOUS
  <1>t. pc \in [Timer -> FastPC \cup SlowPC \cup SloowPC] /\ cause \in Cause
    BY DEF TypeOK
  <1> USE DEF CauseInv, DogCheck, Goto, Timer, Cause, Bus
  <1>1. CASE Handler
    BY <1>1 DEF Handler, proc_set_resethw, proc_set_enablehw, proc_set_resetrtd,
                proc_set_watchdog_timeout, SetOutput, User, driven
  <1>2. CASE Fast
    BY <1>2, <1>t DEF Fast, FastBegin, ResetInit, turn_off_everything,
                      clear_all_stats, clear_all_errors, ResetDone, RtdTest, RtdClear,
                      init_i2c0, Gate, read_spi1
  <1>3. CASE Slow
    BY <1>3, <1>t DEF Slow, SlowBegin, SlowRead, SlowPush
  <1>4. CASE SloowBegin \/ Bite
    BY <1>4, <1>t DEF SloowBegin, CanStart, Bite
  <1>5. CASE \/ DogTest \/ DogLoad \/ DogStore \/ DogJudge \/ Window \/ RaiseFlag
             \/ ErrorDisable \/ ErrorTurnOff
    <2>1. CASE NextCheck
      BY <2>1, NextCheckFact
    <2>2. CASE ~NextCheck
      BY <1>5, <1>t, <2>2 DEF DogTest, DogLoad, DogStore, DogJudge, Window, RaiseFlag,
                              ErrorDisable,
                              ErrorTurnOff, At
    <2> QED  BY <2>1, <2>2
  <1>6. CASE UNCHANGED vars
    BY <1>6 DEF vars
  <1> QED  BY <1>1, <1>2, <1>3, <1>4, <1>5, <1>6 DEF Next, Sloow

LEMMA SlotNext == TypeOK /\ SlotInv /\ [Next]_vars => SlotInv'
  <1> SUFFICES ASSUME TypeOK, SlotInv, [Next]_vars PROVE SlotInv'
    OBVIOUS
  <1>t. pc \in [Timer -> FastPC \cup SlowPC \cup SloowPC]
    BY DEF TypeOK
  <1> USE DEF SlotInv, Goto, Timer, current
  <1>1. CASE Handler
    BY <1>1 DEF Handler, proc_set_resethw, proc_set_enablehw, proc_set_resetrtd,
                proc_set_watchdog_timeout, SetOutput, User, driven
  <1>2. CASE Fast
    BY <1>2, <1>t DEF Fast, FastBegin, ResetInit, turn_off_everything,
                      clear_all_stats, clear_all_errors, ResetDone, RtdTest, RtdClear,
                      init_i2c0, Gate, read_spi1
  <1>3. CASE SlowBegin
    <2>1. pc["slow"] = "idle"
      BY <1>3 DEF SlowBegin, CanStart
    <2> QED  BY <1>3, <1>t, <2>1 DEF SlowBegin, MustPush
  <1>4. CASE SlowRead \/ SlowPush
    BY <1>4, <1>t DEF SlowRead, SlowPush
  <1>5. CASE Sloow
    BY <1>5, <1>t DEF Sloow, SloowBegin, DogTest, DogLoad, DogStore, DogJudge, Bite,
                      Window, RaiseFlag,
                      ErrorDisable, ErrorTurnOff, NextCheck
  <1>6. CASE UNCHANGED vars
    BY <1>6 DEF vars
  <1> QED  BY <1>1, <1>2, <1>3, <1>4, <1>5, <1>6 DEF Next, Slow

LEMMA ResetNext == TypeOK /\ ResetInv /\ [Next]_vars => ResetInv'
  <1> SUFFICES ASSUME TypeOK, ResetInv, [Next]_vars PROVE ResetInv'
    OBVIOUS
  <1>t. pc \in [Timer -> FastPC \cup SlowPC \cup SloowPC]
    BY DEF TypeOK
  <1> USE DEF ResetInv, Goto, Timer
  <1>1. CASE Handler
    BY <1>1, <1>t DEF Handler, proc_set_resethw, proc_set_enablehw, proc_set_resetrtd,
                proc_set_watchdog_timeout, SetOutput, User, driven
  <1>2. CASE FastBegin \/ ResetDone
    BY <1>2, <1>t DEF FastBegin, ResetDone
  <1>3. CASE \/ ResetInit \/ turn_off_everything \/ clear_all_stats
             \/ clear_all_errors \/ RtdTest \/ RtdClear \/ init_i2c0 \/ Gate
             \/ read_spi1
    BY <1>3, <1>t DEF ResetInit, turn_off_everything, clear_all_stats,
                      clear_all_errors, RtdTest, RtdClear, init_i2c0, Gate,
                      read_spi1, At
  <1>4. CASE Slow
    BY <1>4, <1>t DEF Slow, SlowBegin, SlowRead, SlowPush
  <1>5. CASE \/ SloowBegin \/ DogTest \/ DogLoad \/ DogStore \/ DogJudge \/ Bite
             \/ Window \/ RaiseFlag
             \/ ErrorDisable \/ ErrorTurnOff
    BY <1>5, <1>t DEF SloowBegin, DogTest, DogLoad, DogStore, DogJudge, Bite, Window,
                      RaiseFlag,
                      ErrorDisable, ErrorTurnOff, NextCheck
  <1>6. CASE UNCHANGED vars
    BY <1>6, <1>t DEF vars
  <1> QED  BY <1>1, <1>2, <1>3, <1>4, <1>5, <1>6 DEF Next, Fast, Sloow

LEMMA RequestNext == TypeOK /\ RequestInv /\ [Next]_vars => RequestInv'
  <1> SUFFICES ASSUME TypeOK, RequestInv, [Next]_vars PROVE RequestInv'
    OBVIOUS
  <1>t. pc \in [Timer -> FastPC \cup SlowPC \cup SloowPC]
    BY DEF TypeOK
  <1> USE DEF RequestInv, Goto, Timer, rtd
  <1>1. CASE Handler
    <2>1. CASE proc_set_resetrtd
      <3>1. rtdOwed' = reset_i2c0'
        BY <2>1 DEF proc_set_resetrtd
      <3> QED  BY <3>1, Zenon
    <2>2. CASE ~proc_set_resetrtd
      BY <1>1, <2>2 DEF Handler, proc_set_resethw, proc_set_enablehw,
                        proc_set_watchdog_timeout, SetOutput, User, driven
    <2> QED  BY <2>1, <2>2
  <1>2. CASE RtdClear \/ init_i2c0
    BY <1>2, <1>t DEF RtdClear, init_i2c0
  <1>3. CASE \/ FastBegin \/ ResetInit \/ turn_off_everything \/ clear_all_stats
             \/ clear_all_errors \/ ResetDone \/ RtdTest \/ Gate \/ read_spi1
    <2>1. pc["fast"] # "rtdinit"
      BY <1>3 DEF FastBegin, CanStart, ResetInit, turn_off_everything, clear_all_stats,
                  clear_all_errors, ResetDone, RtdTest, Gate, read_spi1, At
    <2> QED  BY <1>3, <2>1 DEF FastBegin, ResetInit, turn_off_everything,
                               clear_all_stats, clear_all_errors, ResetDone, RtdTest,
                               Gate, read_spi1
  <1>4. CASE Slow
    BY <1>4, <1>t DEF Slow, SlowBegin, SlowRead, SlowPush
  <1>5. CASE Sloow
    BY <1>5, <1>t DEF Sloow, SloowBegin, DogTest, DogLoad, DogStore, DogJudge, Bite,
                      Window, RaiseFlag,
                      ErrorDisable, ErrorTurnOff, NextCheck
  <1>6. CASE UNCHANGED vars
    BY <1>6 DEF vars
  <1> QED  BY <1>1, <1>2, <1>3, <1>4, <1>5, <1>6 DEF Next, Fast

LEMMA DueNext == TypeOK /\ CauseInv /\ DueInv /\ [Next]_vars => DueInv'
  <1> SUFFICES ASSUME TypeOK, CauseInv, DueInv, [Next]_vars PROVE DueInv'
    OBVIOUS
  <1>t. /\ pc \in [Timer -> FastPC \cup SlowPC \cup SloowPC]
        /\ left \in Int /\ watchdog_timer \in Int /\ Tick \in Nat /\ Tick > 0
        /\ \A t \in Timeouts : t \in Int
    BY NumberAssumption DEF TypeOK
  <1> USE DEF DueInv, Bitten, Goto, Timer, timer, dog, user
  <1>1. CASE \/ proc_set_resethw \/ proc_set_enablehw \/ proc_set_resetrtd \/ SetOutput
    BY <1>1, <1>t DEF proc_set_resethw, proc_set_enablehw, proc_set_resetrtd, SetOutput,
                      User, driven
  <1>2. CASE proc_set_watchdog_timeout
    <2>1. PICK t \in Timeouts :
             /\ watchdog_timer' = t /\ biteWanted' = (t > 0)
             /\ disarmed' = (disarmed \/ (t <= 0 /\ pc["sloow"] \in DogCheck))
      BY <1>2 DEF proc_set_watchdog_timeout
    <2>2. UNCHANGED <<left, pc, cause>>
      BY <1>2 DEF proc_set_watchdog_timeout, User, driven
    <2>5. biteWanted' => t > 0
      BY <2>1, Zenon
    <2>3. biteWanted' => watchdog_timer' > 0
      BY <2>1, <2>5
    <2>6. ~disarmed' => ~disarmed /\ ~(t <= 0 /\ pc["sloow"] \in DogCheck)
      BY <2>1, Zenon
    <2>7. ~(t <= 0) => t > 0
      BY <1>t, <2>1
    <2>4. ~disarmed' => ~disarmed /\ (t > 0 \/ pc["sloow"] \notin DogCheck)
      BY <2>6, <2>7, Zenon
    <2> QED  BY <1>t, <2>1, <2>2, <2>3, <2>4 DEF DogCheck
  <1>3. CASE Fast
    <2>1. UNCHANGED <<biteWanted, dog, cause>> /\ pc'["sloow"] = pc["sloow"]
      BY <1>3, <1>t DEF Fast, FastBegin, ResetInit, turn_off_everything,
                        clear_all_stats, clear_all_errors, ResetDone, RtdTest, RtdClear,
                        init_i2c0, Gate, read_spi1
    <2> QED  BY <1>t, <2>1
  <1>4. CASE Slow
    <2>1. UNCHANGED <<biteWanted, dog, cause>> /\ pc'["sloow"] = pc["sloow"]
      BY <1>4, <1>t DEF Slow, SlowBegin, SlowRead, SlowPush
    <2> QED  BY <1>t, <2>1
  <1>n. ASSUME NextCheck
        PROVE  ~Bitten' /\ pc'["sloow"] \notin {"bite"} \cup DogCheck
    BY <1>n, NextCheckFact DEF Bus, DogCheck
  <1>5. CASE SloowBegin
    <2>1. UNCHANGED <<biteWanted, dog>> /\ pc["sloow"] = "idle" /\ pc'["sloow"] = "dog"
      BY <1>5, <1>t DEF SloowBegin, CanStart
    <2> QED  BY <1>t, <2>1
  <1>6. CASE DogTest
    <2>0. UNCHANGED <<biteWanted, dog>> /\ pc["sloow"] = "dog"
      BY <1>6 DEF DogTest, At
    <2>1. CASE watchdog_timer > 0
      <3>1. pc'["sloow"] = "dogload"
        BY <1>6, <1>t, <2>1 DEF DogTest
      <3> QED  BY <1>t, <2>0, <2>1, <3>1
    <2>2. CASE ~(watchdog_timer > 0)
      <3>1. NextCheck
        BY <1>6, <2>2 DEF DogTest
      <3> QED  BY <1>n, <1>t, <2>0, <2>2, <3>1 DEF DogCheck
    <2> QED  BY <2>1, <2>2
  <1>7. CASE DogLoad
    <2>1. /\ UNCHANGED <<biteWanted, timer>> /\ left' = watchdog_timer - Tick
          /\ pc["sloow"] = "dogload" /\ pc'["sloow"] = "dogstore"
      BY <1>7, <1>t DEF DogLoad, At
    <2> QED  BY <1>t, <2>1
  <1>12. CASE DogStore
    <2>1. /\ UNCHANGED <<biteWanted, left, disarmed>> /\ watchdog_timer' = left
          /\ pc["sloow"] = "dogstore" /\ pc'["sloow"] = "dogjudge"
      BY <1>12, <1>t DEF DogStore, At
    <2> QED  BY <1>t, <2>1
  <1>13. CASE DogJudge
    <2>0. UNCHANGED <<biteWanted, watchdog_timer>> /\ pc["sloow"] = "dogjudge"
      BY <1>13 DEF DogJudge, At
    <2>1. CASE watchdog_timer <= 0
      <3>1. UNCHANGED <<left, disarmed, cause>> /\ pc'["sloow"] = "bite"
        BY <1>13, <1>t, <2>1 DEF DogJudge
      <3> QED  BY <1>t, <2>0, <2>1, <3>1
    <2>2. CASE ~(watchdog_timer <= 0)
      <3>1. NextCheck
        BY <1>13, <2>2 DEF DogJudge
      <3> QED  BY <1>n, <1>t, <2>0, <2>2, <3>1 DEF DogCheck
    <2> QED  BY <2>1, <2>2
  <1>8. CASE Bite
    <2>1. /\ UNCHANGED <<left, disarmed, cause>> /\ ~biteWanted'
          /\ pc["sloow"] = "bite" /\ pc'["sloow"] = "off"
      BY <1>8, <1>t DEF Bite, At
    <2>2. cause = "watchdog"
      BY <2>1 DEF CauseInv
    <2> QED  BY <1>t, <2>1, <2>2
  <1>9. CASE Window
    <2>0. UNCHANGED <<biteWanted, dog>> /\ pc["sloow"] = "window" /\ cause \in Bus
      BY <1>9 DEF Window, At, CauseInv
    <2>1. CASE NextCheck
      BY <1>n, <1>t, <2>0, <2>1 DEF DogCheck
    <2>2. CASE ~NextCheck
      <3>1. cause' = cause /\ pc'["sloow"] \in {"raise", "off"}
        BY <1>9, <1>t, <2>2 DEF Window
      <3>2. cause # "watchdog"
        BY <2>0 DEF Bus
      <3> QED  BY <1>t, <2>0, <3>1, <3>2
    <2> QED  BY <2>1, <2>2
  <1>10. CASE ErrorDisable \/ ErrorTurnOff
    <2>0. UNCHANGED <<biteWanted, dog>> /\ pc["sloow"] \in {"off", "zero"}
      BY <1>10 DEF ErrorDisable, ErrorTurnOff, At
    <2>1. CASE NextCheck
      BY <1>n, <1>t, <2>0, <2>1 DEF DogCheck
    <2>2. CASE ~NextCheck
      <3>1. cause' = cause /\ pc'["sloow"] \in {"raise", "zero"}
        BY <1>10, <1>t, <2>2 DEF ErrorDisable, ErrorTurnOff
      <3> QED  BY <1>t, <2>0, <3>1
    <2> QED  BY <2>1, <2>2
  <1>14. CASE RaiseFlag
    <2>0. UNCHANGED <<biteWanted, watchdog_timer>> /\ pc["sloow"] = "raise"
      BY <1>14 DEF RaiseFlag, At
    <2>1. CASE NextCheck
      BY <1>n, <1>t, <2>0, <2>1 DEF DogCheck
    <2>2. CASE ~NextCheck
      <3>1. cause' = "i2c" /\ pc'["sloow"] = "off"
        BY <1>14, <1>t, <2>2 DEF RaiseFlag
      <3> QED  BY <1>t, <2>0, <3>1
    <2> QED  BY <2>1, <2>2
  <1>11. CASE UNCHANGED vars
    BY <1>11 DEF vars
  <1> QED  BY <1>1, <1>2, <1>3, <1>4, <1>5, <1>6, <1>7, <1>8, <1>9, <1>10, <1>11,
              <1>12, <1>13, <1>14
           DEF Next, Handler, Sloow

(* Only a push changes what the chips hold, what is taken for it, and which *)
(* outputs were hit.                                                        *)
LEMMA ChipsOnly == Next => SlowPush \/ UNCHANGED chips
  BY DEF Next, Handler, proc_set_resethw, proc_set_enablehw, proc_set_resetrtd,
         proc_set_watchdog_timeout, SetOutput, User, driven, outs, Fast, FastBegin,
         ResetInit, turn_off_everything, clear_all_stats, clear_all_errors, ResetDone,
         RtdTest, RtdClear, init_i2c0, Gate, read_spi1, Slow, SlowBegin, SlowRead,
         Sloow, SloowBegin, DogTest, DogLoad, DogStore, DogJudge, Bite, Window,
         RaiseFlag, ErrorDisable, ErrorTurnOff

LEMMA HealNext == TypeOK /\ SlotInv /\ HealInv /\ [Next]_vars => HealInv'
  <1> SUFFICES ASSUME TypeOK, SlotInv, HealInv, [Next]_vars PROVE HealInv'
    OBVIOUS
  <1>1. CASE SlowPush
    <2>1. /\ current \in Output
          /\ believed \in [Output -> {0, 1}] /\ shown \in [Output -> {0, 1}]
      BY <1>1 DEF SlowPush, At, SlotInv, TypeOK
    <2> QED  BY <1>1, <2>1 DEF SlowPush, HealInv
  <1>2. CASE UNCHANGED chips
    BY <1>2 DEF chips, HealInv
  <1>3. CASE UNCHANGED vars
    BY <1>2, <1>3 DEF vars, outs
  <1> QED  BY <1>1, <1>2, <1>3, ChipsOnly

LEMMA PushNext == OneCpu /\ IInv /\ [Next]_vars => PushInv'
  <1> SUFFICES ASSUME OneCpu, IInv, [Next]_vars PROVE PushInv'
    OBVIOUS
  <1>t. /\ pc \in [Timer -> FastPC \cup SlowPC \cup SloowPC]
        /\ Solo /\ PushInv
    BY DEF IInv, EachInv, TypeOK
  <1> USE DEF PushInv, Goto, Timer
  <1>1. CASE Handler
    BY <1>1, <1>t DEF Handler, proc_set_resethw, proc_set_enablehw, proc_set_resetrtd,
                proc_set_watchdog_timeout, SetOutput, User, driven
  <1>2. CASE \/ FastBegin \/ ResetInit \/ turn_off_everything \/ clear_all_stats
             \/ clear_all_errors \/ RtdTest \/ RtdClear \/ init_i2c0 \/ read_spi1
    BY <1>2, <1>t DEF FastBegin, ResetInit, turn_off_everything, clear_all_stats,
                      clear_all_errors, RtdTest, RtdClear, init_i2c0, read_spi1
  <1>3. CASE ResetDone \/ Gate
    BY <1>3, <1>t DEF ResetDone, Gate, At, Solo
  <1>4. CASE SlowBegin
    <2>1. pc["slow"] = "idle"
      BY <1>4 DEF SlowBegin, CanStart
    <2> QED  BY <1>4, <1>t, <2>1 DEF SlowBegin, MustPush
  <1>5. CASE SlowRead \/ SlowPush
    BY <1>5, <1>t DEF SlowRead, SlowPush, At
  <1>6. CASE \/ SloowBegin \/ DogTest \/ DogLoad \/ DogStore \/ DogJudge \/ Bite
             \/ Window \/ RaiseFlag
             \/ ErrorTurnOff
    BY <1>6, <1>t DEF SloowBegin, DogTest, DogLoad, DogStore, DogJudge, Bite, Window,
                      RaiseFlag,
                      ErrorTurnOff, NextCheck
  <1>7. CASE ErrorDisable
    BY <1>7, <1>t DEF ErrorDisable, At, Solo
  <1>8. CASE UNCHANGED vars
    BY <1>8, <1>t DEF vars
  <1> QED  BY <1>1, <1>2, <1>3, <1>4, <1>5, <1>6, <1>7, <1>8
           DEF Next, Fast, Slow, Sloow

LEMMA CleanNext == OneCpu /\ IInv /\ [Next]_vars => CleanInv'
  <1> SUFFICES ASSUME OneCpu, IInv, [Next]_vars PROVE CleanInv'
    OBVIOUS
  <1>t. /\ pc \in [Timer -> FastPC \cup SlowPC \cup SloowPC]
        /\ Solo /\ CleanInv
    BY DEF IInv, EachInv, TypeOK
  <1>s. /\ pc["slow"] # "idle" => pc["fast"] = "idle"
        /\ pc["sloow"] # "idle" => pc["fast"] = "idle"
    BY <1>t DEF Solo
  <1> USE DEF CleanInv, Goto, Timer, stats, alarms
  <1>1. CASE Handler
    BY <1>1, <1>t DEF Handler, proc_set_resethw, proc_set_enablehw, proc_set_resetrtd,
                proc_set_watchdog_timeout, SetOutput, User, driven
  <1>2. CASE \/ FastBegin \/ ResetInit \/ turn_off_everything \/ ResetDone \/ RtdTest
             \/ RtdClear \/ init_i2c0 \/ Gate \/ read_spi1
    BY <1>2, <1>t DEF FastBegin, ResetInit, turn_off_everything, ResetDone, RtdTest,
                      RtdClear, init_i2c0, Gate, read_spi1
  <1>3. CASE clear_all_stats
    BY <1>3, <1>t DEF clear_all_stats
  <1>4. CASE clear_all_errors
    BY <1>4, <1>t DEF clear_all_errors, At
  <1>5. CASE SlowBegin \/ SloowBegin
    <2>1. pc["fast"] = "idle"
      BY <1>5, StartsAlone DEF SlowBegin, SloowBegin
    <2> QED  BY <1>5, <1>t, <2>1 DEF SlowBegin, SloowBegin
  <1>6. CASE SlowRead \/ SlowPush
    <2>1. pc["fast"] = "idle"
      BY <1>6, <1>s DEF SlowRead, SlowPush, At
    <2> QED  BY <1>6, <1>t, <2>1 DEF SlowRead, SlowPush
  <1>7. CASE \/ DogTest \/ DogLoad \/ DogStore \/ DogJudge \/ Bite \/ Window
             \/ RaiseFlag \/ ErrorDisable
             \/ ErrorTurnOff
    <2>1. pc["fast"] = "idle"
      BY <1>7, <1>s DEF DogTest, DogLoad, DogStore, DogJudge, Bite, Window, RaiseFlag,
                        ErrorDisable,
                        ErrorTurnOff, At
    <2> QED  BY <1>7, <1>t, <2>1 DEF DogTest, DogLoad, DogStore, DogJudge, Bite,
                                     Window, RaiseFlag,
                                     ErrorDisable, ErrorTurnOff, NextCheck
  <1>8. CASE UNCHANGED vars
    BY <1>8, <1>t DEF vars
  <1> QED  BY <1>1, <1>2, <1>3, <1>4, <1>5, <1>6, <1>7, <1>8
           DEF Next, Fast, Slow, Sloow

LEMMA WishNext == OneCpu /\ IInv /\ [Next]_vars => WishInv'
  <1> SUFFICES ASSUME OneCpu, IInv, [Next]_vars PROVE WishInv'
    OBVIOUS
  <1>t. /\ pc \in [Timer -> FastPC \cup SlowPC \cup SloowPC]
        /\ WishInv /\ asked \in [Output -> {0, 1}]
    BY DEF IInv, EachInv, TypeOK
  <1> USE DEF WishInv, Goto, Timer, outs
  <1>1. CASE \/ proc_set_resethw \/ proc_set_enablehw \/ proc_set_resetrtd
             \/ proc_set_watchdog_timeout
    BY <1>1, <1>t DEF proc_set_resethw, proc_set_enablehw, proc_set_resetrtd,
                      proc_set_watchdog_timeout, User, driven
  <1>2. CASE SetOutput
    <2>1. PICK o \in Output : asked' = [asked EXCEPT ![o] = 1 - asked[o]]
                            /\ fresh' = fresh \cup {o}
      BY <1>2 DEF SetOutput
    <2>2. \A x \in Output : asked'[x] = asked[x] \/ x \in fresh'
      BY <1>t, <2>1
    <2>3. pc' = pc /\ fresh \subseteq fresh'
      BY <1>2, <2>1 DEF SetOutput, User, driven
    <2> QED  BY <1>t, <2>2, <2>3
  <1>3. CASE FastBegin
    <2>1. pc["sloow"] = "idle" /\ pc["fast"] = "idle"
      BY <1>3, StartsAlone DEF FastBegin
    <2> QED  BY <1>3, <1>t, <2>1 DEF FastBegin
  <1>4. CASE turn_off_everything \/ ErrorTurnOff
    BY <1>4, <1>t DEF turn_off_everything, ErrorTurnOff, TurnOff
  <1>5. CASE ResetInit
    BY <1>5, <1>t DEF ResetInit
  <1>6. CASE \/ clear_all_stats \/ clear_all_errors \/ ResetDone \/ RtdTest
             \/ RtdClear \/ init_i2c0 \/ Gate \/ read_spi1
    BY <1>6, <1>t DEF clear_all_stats, clear_all_errors, ResetDone, RtdTest, RtdClear,
                      init_i2c0, Gate, read_spi1, At
  <1>7. CASE Slow
    BY <1>7, <1>t DEF Slow, SlowBegin, SlowRead, SlowPush
  <1>8. CASE \/ SloowBegin \/ DogTest \/ DogLoad \/ DogStore \/ DogJudge \/ Bite
             \/ Window \/ RaiseFlag
    <2>1. pc["sloow"] # "zero"
      BY <1>8 DEF SloowBegin, CanStart, DogTest, DogLoad, DogStore, DogJudge, Bite,
                  Window, RaiseFlag, At
    <2> QED  BY <1>8, <1>t, <2>1 DEF SloowBegin, DogTest, DogLoad, DogStore, DogJudge,
                                     Bite, Window,
                                     RaiseFlag, NextCheck
  <1>9. CASE ErrorDisable
    BY <1>9, <1>t DEF ErrorDisable
  <1>10. CASE UNCHANGED vars
    BY <1>10, <1>t DEF vars
  <1> QED  BY <1>1, <1>2, <1>3, <1>4, <1>5, <1>6, <1>7, <1>8, <1>9, <1>10
           DEF Next, Handler, Fast, Sloow

LEMMA FailCount ==
    ASSUME NEW b \in Bus, NEW n \in Nat, TypeOK, CountInv, Fail(b, n), old' = old
    PROVE  \A c \in Bus : errors'[c] = old'[c] + burst'[c]
  <1>1. /\ errors \in [Bus -> Nat] /\ old \in [Bus -> Nat] /\ burst \in [Bus -> Nat]
        /\ \A c \in Bus : errors[c] = old[c] + burst[c]
    BY DEF TypeOK, CountInv
  <1> QED  BY <1>1 DEF Fail

LEMMA TransfersCount ==
    ASSUME NEW buses \in SUBSET Bus, TypeOK, CountInv, Transfers(buses)
    PROVE  \A b \in Bus : errors'[b] = old'[b] + burst'[b]
  <1>1. /\ errors \in [Bus -> Nat] /\ old \in [Bus -> Nat] /\ burst \in [Bus -> Nat]
        /\ \A b \in Bus : errors[b] = old[b] + burst[b]
    BY DEF TypeOK, CountInv
  <1>2. CASE UNCHANGED <<errors, burst, faults>>
    BY <1>1, <1>2 DEF Transfers
  <1>3. CASE \E b \in buses : Fail(b, 1)
    <2>1. PICK b \in buses : Fail(b, 1)
      BY <1>3
    <2> QED  BY <1>1, <2>1, FailCount DEF Transfers
  <1> QED  BY <1>2, <1>3 DEF Transfers

(* What a window compares is the number of failures since the last quiet    *)
(* one.                                                                     *)
LEMMA WindowCount ==
    ASSUME TypeOK, CountInv, cause \in Bus
    PROVE  Distance(errors[cause], old[cause]) = burst[cause]
  <1>1. /\ errors[cause] \in Nat /\ old[cause] \in Nat /\ burst[cause] \in Nat
        /\ TooMany[cause] \in Nat
        /\ errors[cause] = old[cause] + burst[cause]
    BY NumberAssumption DEF TypeOK, CountInv
  <1>2. errors[cause] - old[cause] = burst[cause] /\ ~(errors[cause] < old[cause])
    BY <1>1
  <1> QED  BY <1>1, <1>2 DEF Distance

LEMMA CountNext == OneCpu /\ IInv /\ [Next]_vars => CountInv'
  <1> SUFFICES ASSUME OneCpu, IInv, [Next]_vars PROVE CountInv'
    OBVIOUS
  <1>t. /\ pc \in [Timer -> FastPC \cup SlowPC \cup SloowPC]
        /\ TypeOK /\ Solo /\ CauseInv /\ CountInv /\ AlarmBurst
        /\ errors \in [Bus -> Nat] /\ old \in [Bus -> Nat] /\ burst \in [Bus -> Nat]
        /\ \A b \in Bus : errors[b] = old[b] + burst[b]
    BY DEF IInv, EachInv, TypeOK, CountInv
  <1>q. ASSUME AlarmBurst', \A b \in Bus : errors'[b] = old'[b] + burst'[b]
        PROVE  CountInv'
    BY <1>q DEF CountInv
  <1> USE DEF Goto, Timer, stats
  <1>1. CASE Handler
    <2>1. UNCHANGED <<errors, old, burst, pc, cause>>
      BY <1>1 DEF Handler, proc_set_resethw, proc_set_enablehw, proc_set_resetrtd,
                  proc_set_watchdog_timeout, SetOutput, User, driven
    <2> QED  BY <1>t, <1>q, <2>1 DEF AlarmBurst
  <1>2. CASE Fast
    <2>1. pc["sloow"] = "idle"
      BY <1>2, <1>t, StartsAlone
         DEF Fast, FastBegin, ResetInit, turn_off_everything, clear_all_stats,
             clear_all_errors, ResetDone, RtdTest, RtdClear, init_i2c0, Gate,
             read_spi1, At, Solo
    <2>2. pc'["sloow"] = "idle"
      BY <1>2, <1>t, <2>1
         DEF Fast, FastBegin, ResetInit, turn_off_everything, clear_all_stats,
             clear_all_errors, ResetDone, RtdTest, RtdClear, init_i2c0, Gate,
             read_spi1
    <2>3. AlarmBurst'
      BY <2>2 DEF AlarmBurst
    <2>4. CASE ResetInit \/ init_i2c0 \/ read_spi1
      <3>1. PICK buses \in SUBSET Bus : Transfers(buses)
        BY <2>4 DEF ResetInit, init_i2c0, read_spi1, Bus
      <3> QED  BY <1>t, <1>q, <2>3, <3>1, TransfersCount
    <2>5. CASE clear_all_stats
      BY <1>q, <2>3, <2>5 DEF clear_all_stats
    <2>6. CASE \/ FastBegin \/ turn_off_everything \/ clear_all_errors \/ ResetDone
               \/ RtdTest \/ RtdClear \/ Gate
      BY <1>t, <1>q, <2>3, <2>6 DEF FastBegin, turn_off_everything, clear_all_errors,
                                    ResetDone, RtdTest, RtdClear, Gate
    <2> QED  BY <1>2, <2>4, <2>5, <2>6 DEF Fast
  <1>3. CASE SlowBegin
    <2>1. UNCHANGED <<errors, old, burst, cause>> /\ pc'["sloow"] = pc["sloow"]
      BY <1>3, <1>t DEF SlowBegin
    <2> QED  BY <1>t, <1>q, <2>1 DEF AlarmBurst
  <1>11. CASE SlowPush
    <2>1. pc'["sloow"] = "idle"
      BY <1>11, <1>t DEF SlowPush, At, Solo
    <2>2. AlarmBurst'
      BY <2>1 DEF AlarmBurst
    <2>3. \A b \in Bus : errors'[b] = old'[b] + burst'[b]
      <3>1. CASE UNCHANGED <<errors, burst, faults>>
        BY <1>11, <1>t, <3>1, PushFaults
      <3>2. CASE \E n \in Nat : Fail("i2c", n)
        <4>1. "i2c" \in Bus
          BY DEF Bus
        <4> QED  BY <1>11, <1>t, <3>2, <4>1, PushFaults, FailCount
      <3> QED  BY <1>11, <3>1, <3>2, PushFaults
    <2> QED  BY <1>q, <2>2, <2>3
  <1>4. CASE SlowRead
    <2>1. {current} \in SUBSET Bus
      BY <1>4 DEF SlowRead, At, IInv, EachInv, SlotInv
    <2>2. pc'["sloow"] = "idle"
      BY <1>4, <1>t DEF SlowRead, At, Solo
    <2>3. AlarmBurst'
      BY <2>2 DEF AlarmBurst
    <2> QED  BY <1>4, <1>t, <1>q, <2>1, <2>3, TransfersCount DEF SlowRead
  <1>5. CASE SloowBegin
    <2>1. AlarmBurst'
      BY <1>5, <1>t DEF SloowBegin, AlarmBurst
    <2> QED  BY <1>5, <1>t, <1>q, <2>1, TransfersCount DEF SloowBegin, Bus
  <1>n. ASSUME NextCheck PROVE AlarmBurst'
    BY <1>n, <1>t, NextCheckFact DEF AlarmBurst
  <1>6. CASE DogTest \/ DogLoad \/ DogStore \/ DogJudge
    <2>0. UNCHANGED <<errors, old, burst>>
      BY <1>6 DEF DogTest, DogLoad, DogStore, DogJudge
    <2>1. CASE NextCheck
      BY <1>n, <1>t, <1>q, <2>0, <2>1
    <2>2. CASE ~NextCheck
      <3>1. cause = "watchdog" /\ cause' = cause
        BY <1>6, <1>t, <2>2 DEF DogTest, DogLoad, DogStore, DogJudge, At, CauseInv,
                                DogCheck
      <3>2. AlarmBurst'
        BY <3>1 DEF AlarmBurst, Bus
      <3> QED  BY <1>t, <1>q, <2>0, <3>2
    <2> QED  BY <2>1, <2>2
  <1>7. CASE Bite
    <2>1. AlarmBurst'
      BY <1>7, <1>t DEF Bite, At, AlarmBurst, CauseInv, Bus
    <2> QED  BY <1>7, <1>t, <1>q, <2>1 DEF Bite
  <1>8. CASE Window
    <2>0. cause \in Bus
      BY <1>8, <1>t DEF Window, At, CauseInv
    <2>1. CASE Distance(errors[cause], old[cause]) > TooMany[cause]
      <3>1. burst[cause] > TooMany[cause]
        BY <1>t, <2>0, <2>1, WindowCount
      <3>2. AlarmBurst'
        BY <1>8, <2>1, <3>1 DEF Window, AlarmBurst
      <3> QED  BY <1>8, <1>t, <1>q, <2>1, <3>2 DEF Window
    <2>2. CASE ~(Distance(errors[cause], old[cause]) > TooMany[cause])
      <3>1. AlarmBurst'
        BY <1>8, <1>n, <2>2 DEF Window
      <3>2. \A b \in Bus : errors'[b] = old'[b] + burst'[b]
        BY <1>8, <1>t, <2>2 DEF Window
      <3> QED  BY <1>q, <3>1, <3>2
    <2> QED  BY <2>1, <2>2
  <1>9. CASE RaiseFlag \/ ErrorDisable \/ ErrorTurnOff
    <2>1. UNCHANGED <<errors, old, burst>>
      BY <1>9 DEF RaiseFlag, ErrorDisable, ErrorTurnOff
    <2>2. CASE NextCheck
      BY <1>n, <1>t, <1>q, <2>1, <2>2
    <2>3. CASE ~NextCheck
      <3>1. AlarmBurst'
        BY <1>9, <1>t, <2>1, <2>3 DEF RaiseFlag, ErrorDisable, ErrorTurnOff, At,
                                      AlarmBurst
      <3> QED  BY <1>t, <1>q, <2>1, <3>1
    <2> QED  BY <2>2, <2>3
  <1>10. CASE UNCHANGED vars
    BY <1>10, <1>t, <1>q DEF vars, AlarmBurst
  <1> QED  BY <1>1, <1>2, <1>3, <1>4, <1>5, <1>6, <1>7, <1>8, <1>9, <1>10,
              <1>11
           DEF Next, Slow, Sloow

-----------------------------------------------------------------------------
LEMMA EachInit == Init => EachInv
  <1> SUFFICES ASSUME Init PROVE EachInv
    OBVIOUS
  <1>1. TypeOK
    BY TypeInit
  <1>2. /\ \A t \in Timer : pc[t] = "idle"
        /\ "fast" \in Timer /\ "slow" \in Timer /\ "sloow" \in Timer
        /\ cause = "watchdog" /\ ~old_reset /\ ~rtdOwed /\ ~biteWanted
    BY DEF Init, Timer
  <1>3. \A o \in Output : shown[o] = believed[o]
    BY DEF Init
  <1> QED  BY <1>1, <1>2, <1>3 DEF EachInv, CauseInv, SlotInv, ResetInv, RequestInv,
                                   DueInv, Bitten, HealInv

LEMMA EachNext == EachInv /\ [Next]_vars => EachInv'
  <1> SUFFICES ASSUME EachInv, [Next]_vars PROVE EachInv'
    OBVIOUS
  <1>1. TypeOK'
    <2>1. PcType' /\ DataType' /\ CountType'
      BY PcNext, CountTypeNext, DataNext DEF EachInv
    <2> QED  BY <2>1 DEF TypeOK, PcType, DataType, CountType
  <1> QED  BY <1>1, CauseNext, SlotNext, ResetNext, RequestNext, DueNext,
              HealNext
           DEF EachInv

LEMMA InitInv == Init => IInv
  <1> SUFFICES ASSUME Init PROVE IInv
    OBVIOUS
  <1>1. EachInv
    BY EachInit
  <1>2. /\ \A t \in Timer : pc[t] = "idle"
        /\ "fast" \in Timer /\ "slow" \in Timer /\ "sloow" \in Timer
    BY DEF Init, Timer
  <1>3. \A o \in Output : asked[o] = 0
    BY DEF Init
  <1>4. \A b \in Bus : errors[b] = old[b] + burst[b]
    BY DEF Init
  <1> QED  BY <1>1, <1>2, <1>3, <1>4
           DEF IInv, Solo, PushInv, CleanInv, WishInv, CountInv, AlarmBurst

LEMMA NextInv == OneCpu /\ IInv /\ [Next]_vars => IInv'
  <1> SUFFICES ASSUME OneCpu, IInv, [Next]_vars PROVE IInv'
    OBVIOUS
  <1>1. EachInv'
    BY EachNext DEF IInv
  <1>2. Solo'
    BY SoloNext DEF IInv, EachInv
  <1> QED  BY <1>1, <1>2, PushNext, CleanNext, WishNext, CountNext DEF IInv

-----------------------------------------------------------------------------
(* Wherever the timers expire.                                              *)

THEOREM EachInvariance == SafeSpec => []EachInv
  <1> QED  BY EachInit, EachNext, PTL DEF SafeSpec

(* Every variable of the control core keeps its type, and hardware_error    *)
(* is never set: data_getter raises the flag of a cause and not this one.   *)
THEOREM TypeCorrect == SafeSpec => []TypeOK
  <1>1. EachInv => TypeOK
    BY DEF EachInv
  <1> QED  BY <1>1, EachInvariance, PTL

(* While a reset is held the hardware is disabled, whatever users write and *)
(* whichever callbacks overlap.                                             *)
THEOREM ResetHolds == SafeSpec => []HeldResetDisables
  <1>1. EachInv => HeldResetDisables
    BY DEF EachInv, ResetInv, HeldResetDisables
  <1> QED  BY <1>1, EachInvariance, PTL

(* No request is lost, although a handler may write it between any two      *)
(* steps of the callback that serves it: an RTD reset that is owed is still *)
(* up or its init_i2c0 is next, and a watchdog that was armed and not       *)
(* disarmed is still counting, or the callback is about to judge what it    *)
(* has stored, or to bite.                                                  *)
RequestsKept ==
    /\ rtdOwed => reset_i2c0 \/ At("fast", "rtdinit")
    /\ biteWanted => watchdog_timer > 0 \/ At("sloow", "dogjudge")
                                        \/ At("sloow", "bite")

THEOREM RequestsAreKept == SafeSpec => []RequestsKept
  <1>1. EachInv => RequestsKept
    BY DEF EachInv, RequestInv, DueInv, RequestsKept, At
  <1> QED  BY <1>1, EachInvariance, PTL

(* The watchdog bites early in one case only: a user disarms it between the *)
(* first and the last of the three reads of a tick, and -1 is taken for     *)
(* time that has run out.  In every other case, whatever users feed between *)
(* the reads, the store and the alarm, the flag goes up only in a tick that *)
(* loaded a time of no more than one tick.                                  *)
BitesWhenDue ==
    [][~flag["watchdog"] /\ flag'["watchdog"] =>
            disarmed \/ left \in (1 - Tick)..0]_vars

(* Only the end of a check raises a flag.                                   *)
LEMMA RaiseOnly ==
    ASSUME Next, NEW c \in Cause, ~flag[c], flag'[c]
    PROVE  RaiseFlag
  <1>1. flag' # flag
    OBVIOUS
  <1>2. CASE clear_all_errors
    BY <1>2 DEF clear_all_errors
  <1> QED
    BY <1>1, <1>2
       DEF Next, Handler, proc_set_resethw, proc_set_enablehw, proc_set_resetrtd,
           proc_set_watchdog_timeout, SetOutput, User, driven, alarms, Fast,
           FastBegin, ResetInit, turn_off_everything, clear_all_stats, ResetDone,
           RtdTest, RtdClear, init_i2c0, Gate, read_spi1, Slow, SlowBegin, SlowRead,
           SlowPush, Sloow, SloowBegin, DogTest, DogLoad, DogStore, DogJudge, Bite, Window,
           ErrorDisable, ErrorTurnOff

THEOREM BitesAreDue == SafeSpec => BitesWhenDue
  <1>1. EachInv /\ [Next]_vars =>
            [~flag["watchdog"] /\ flag'["watchdog"] =>
                disarmed \/ left \in (1 - Tick)..0]_vars
    <2> SUFFICES ASSUME EachInv, Next, ~flag["watchdog"], flag'["watchdog"]
                 PROVE  disarmed \/ left \in (1 - Tick)..0
      BY DEF vars
    <2>1. RaiseFlag
      BY RaiseOnly DEF Cause
    <2>2. cause = "watchdog" /\ pc["sloow"] = "raise"
      BY <2>1 DEF RaiseFlag, At, EachInv, TypeOK, Cause
    <2> QED  BY <2>2 DEF EachInv, DueInv, Bitten
  <1> QED  BY <1>1, EachInvariance, PTL DEF SafeSpec, BitesWhenDue

(* The slow callback takes its slots in order.  While the hardware is       *)
(* enabled it leaves the slot of an output with the wish taken, and with    *)
(* the chip as asked unless a transfer of the latest push failed: what      *)
(* OutputsFollow needs apart from the timer going on.                       *)
Served(o) ==
    /\ believed'[o] = asked[o]
    /\ o \in hit' \/ shown'[o] = asked[o]

SlotsServe ==
    [][slot' # slot =>
          /\ slot' = NextSlot
          /\ current \in Output /\ is_enabled => Served(current)]_vars

THEOREM SlotsAreServed == SafeSpec => SlotsServe
  <1>1. EachInv /\ [Next]_vars =>
            [slot' # slot =>
                /\ slot' = NextSlot
                /\ current \in Output /\ is_enabled => Served(current)]_vars
    <2> SUFFICES ASSUME EachInv, Next, slot' # slot
                 PROVE  /\ slot' = NextSlot
                        /\ current \in Output /\ is_enabled => Served(current)
      BY DEF vars
    <2>0. believed \in [Output -> {0, 1}] /\ shown \in [Output -> {0, 1}]
      BY DEF EachInv, TypeOK
    <2>1. SlowBegin \/ SlowRead \/ SlowPush
      BY DEF Next, Handler, proc_set_resethw, proc_set_enablehw, proc_set_resetrtd,
             proc_set_watchdog_timeout, SetOutput, User, driven, Fast, FastBegin,
             ResetInit, turn_off_everything, clear_all_stats, clear_all_errors,
             ResetDone, RtdTest, RtdClear, init_i2c0, Gate, read_spi1, Slow, Sloow,
             SloowBegin, DogTest, DogLoad, DogStore, DogJudge, Bite, Window, RaiseFlag,
             ErrorDisable, ErrorTurnOff
    <2>2. CASE SlowBegin
      BY <2>2 DEF SlowBegin, MustPush, outs, chips, Served, EachInv, HealInv
    <2>3. CASE SlowRead
      BY <2>3, VisitAssumption DEF SlowRead, At, EachInv, SlotInv
    <2>4. CASE SlowPush
      BY <2>0, <2>4 DEF SlowPush, Served
    <2> QED  BY <2>1, <2>2, <2>3, <2>4
  <1> QED  BY <1>1, EachInvariance, PTL DEF SafeSpec, SlotsServe

-----------------------------------------------------------------------------
(* When the three timers expire on one CPU.                                 *)

THEOREM Invariance == ASSUME OneCpu PROVE SafeSpec => []IInv
  <1>1. IInv /\ [Next]_vars => IInv'
    BY NextInv
  <1> QED  BY <1>1, InitInv, PTL DEF SafeSpec

LEMMA PushOnly == Next /\ shown' # shown => SlowPush
  BY ChipsOnly DEF chips

(* No output moves while is_enabled is down: the test at the head of the    *)
(* slow tick is still true when its transfer is made.                       *)
THEOREM GatedPushes == ASSUME OneCpu PROVE SafeSpec => OnlyPushedWhileEnabled
  <1>1. IInv /\ [Next]_vars => [shown' # shown => is_enabled]_vars
    <2> SUFFICES ASSUME IInv, Next, shown' # shown PROVE is_enabled
      BY DEF vars, outs, chips
    <2>1. SlowPush
      BY PushOnly
    <2> QED  BY <2>1 DEF SlowPush, At, IInv, PushInv
  <1> QED  BY <1>1, Invariance, PTL DEF SafeSpec, OnlyPushedWhileEnabled

(* An output is switched on only on a wish younger than the last alarm or   *)
(* reset: what handle_hw_error and a reset zeroed stays zero until asked.   *)
THEOREM WishesAreDropped == ASSUME OneCpu PROVE SafeSpec => AlarmDropsWishes
  <1>1. IInv /\ [Next]_vars =>
            [\A o \in Output : shown[o] = 0 /\ shown'[o] = 1 => o \in fresh]_vars
    <2> SUFFICES ASSUME IInv, Next, NEW o \in Output, shown[o] = 0, shown'[o] = 1
                 PROVE  o \in fresh
      BY DEF vars
    <2>1. shown' # shown
      OBVIOUS
    <2>2. SlowPush
      BY <2>1, PushOnly
    <2>3. asked[o] = 1
      BY <2>2 DEF SlowPush, IInv, EachInv, TypeOK
    <2>4. pc["sloow"] = "idle" /\ pc["fast"] = "idle"
      BY <2>2 DEF SlowPush, At, IInv, Solo
    <2>5. \/ asked[o] = 0 \/ o \in fresh
          \/ pc["sloow"] = "zero" \/ pc["fast"] \in {"init", "turnoff"}
      BY DEF IInv, WishInv
    <2> QED  BY <2>3, <2>4, <2>5
  <1> QED  BY <1>1, Invariance, PTL DEF SafeSpec, AlarmDropsWishes

(* A bus alarm is raised only after more than TooMany failures on that bus  *)
(* since its last quiet window, whatever resets clear in between.           *)
THEOREM AlarmsAreEarned == ASSUME OneCpu PROVE SafeSpec => AlarmMeansBurst
  <1>1. IInv /\ [Next]_vars =>
            [\A b \in Bus : ~flag[b] /\ flag'[b] => burst[b] > TooMany[b]]_vars
    <2> SUFFICES ASSUME IInv, Next, NEW b \in Bus, ~flag[b], flag'[b]
                 PROVE  burst[b] > TooMany[b]
      BY DEF vars
    <2>1. RaiseFlag
      BY RaiseOnly DEF Cause
    <2>2. cause = b
      BY <2>1 DEF RaiseFlag, IInv, EachInv, TypeOK, Cause
    <2>3. AlarmBurst
      BY DEF IInv, CountInv
    <2>4. pc["sloow"] = "raise"
      BY <2>1 DEF RaiseFlag, At
    <2>5. burst[cause] > TooMany[cause]
      BY <2>2, <2>3, <2>4 DEF AlarmBurst
    <2> QED  BY <2>2, <2>5
  <1> QED  BY <1>1, Invariance, PTL DEF SafeSpec, AlarmMeansBurst

(* A bus with more than TooMany failures since its last quiet window is not *)
(* found quiet again before a reset has cleared its count.                  *)
THEOREM BurstsAreSeen == ASSUME OneCpu PROVE SafeSpec => NoBurstForgotten
  <1>1. IInv /\ [Next]_vars =>
            [\A b \in Bus : burst[b] > TooMany[b] /\ burst'[b] < burst[b]
                                => errors'[b] = 0]_vars
    <2> SUFFICES ASSUME IInv, Next, NEW b \in Bus,
                        burst[b] > TooMany[b], burst'[b] < burst[b]
                 PROVE  errors'[b] = 0
      BY DEF vars
    <2>1. burst \in [Bus -> Nat] /\ TypeOK /\ CountInv
      BY DEF IInv, EachInv, TypeOK
    <2>2. CASE UNCHANGED burst
      BY <2>1, <2>2
    <2>f. ASSUME NEW c, NEW n \in Nat, Fail(c, n) PROVE FALSE
      BY <2>1, <2>f DEF Fail
    <2>3. ASSUME NEW buses \in SUBSET Bus, Transfers(buses) PROVE FALSE
      <3>1. CASE UNCHANGED <<errors, burst, faults>>
        BY <2>1, <3>1
      <3>2. CASE \E c \in buses : Fail(c, 1)
        BY <2>f, <3>2
      <3> QED  BY <2>3, <3>1, <3>2 DEF Transfers
    <2>4. CASE clear_all_stats
      BY <2>4 DEF clear_all_stats
    <2>5. CASE Window
      <3>1. cause = b /\ ~(Distance(errors[cause], old[cause]) > TooMany[cause])
        BY <2>1, <2>5 DEF Window
      <3> QED  BY <2>1, <3>1, WindowCount
    <2>6. CASE ResetInit \/ init_i2c0 \/ read_spi1 \/ SlowRead \/ SloowBegin
      <3>1. PICK buses \in SUBSET Bus : Transfers(buses)
        <4>1. /\ {"i2c", "spi0"} \in SUBSET Bus /\ {"i2c"} \in SUBSET Bus
              /\ {"spi1"} \in SUBSET Bus
          BY DEF Bus
        <4>2. SlowRead => {current} \in SUBSET Bus
          BY DEF SlowRead, At, IInv, EachInv, SlotInv
        <4> QED  BY <2>6, <4>1, <4>2 DEF ResetInit, init_i2c0, read_spi1, SlowRead,
                                         SloowBegin
      <3> QED  BY <2>3, <3>1
    <2>7. Handler \/ SlowBegin => UNCHANGED burst
      BY DEF Handler, proc_set_resethw, proc_set_enablehw, proc_set_resetrtd,
             proc_set_watchdog_timeout, SetOutput, User, driven, stats, SlowBegin
    <2>10. CASE SlowPush
      <3>1. CASE UNCHANGED <<errors, burst, faults>>
        BY <2>2, <3>1
      <3>2. CASE \E n \in Nat : Fail("i2c", n)
        BY <2>f, <3>2
      <3> QED  BY <2>10, <3>1, <3>2, PushFaults
    <2>8. FastBegin \/ turn_off_everything \/ clear_all_errors \/ ResetDone \/ RtdTest
            \/ RtdClear \/ Gate => UNCHANGED burst
      BY DEF FastBegin, turn_off_everything, clear_all_errors, ResetDone, RtdTest,
             RtdClear, Gate, stats
    <2>9. DogTest \/ DogLoad \/ DogStore \/ DogJudge \/ Bite \/ RaiseFlag
            \/ ErrorDisable \/ ErrorTurnOff => UNCHANGED burst
      BY DEF DogTest, DogLoad, DogStore, DogJudge, Bite, RaiseFlag, ErrorDisable,
             ErrorTurnOff, stats
    <2> QED
      BY <2>2, <2>4, <2>5, <2>6, <2>7, <2>8, <2>9, <2>10 DEF Next, Fast, Slow, Sloow
  <1> QED  BY <1>1, Invariance, PTL DEF SafeSpec, NoBurstForgotten

(* A hardware reset completes with no error flag, no error count and the    *)
(* hardware disabled: nothing the other callbacks do survives it.           *)
THEOREM ResetsAreClean == ASSUME OneCpu PROVE SafeSpec => ResetIsClean
  <1>1. IInv /\ [Next]_vars =>
            [~old_reset /\ old_reset' =>
                /\ \A c \in Cause : ~flag'[c]
                /\ \A b \in Bus : errors'[b] = 0 /\ old'[b] = 0
                /\ ~is_enabled']_vars
    <2> SUFFICES ASSUME IInv, Next, ~old_reset, old_reset'
                 PROVE  /\ \A c \in Cause : ~flag'[c]
                        /\ \A b \in Bus : errors'[b] = 0 /\ old'[b] = 0
                        /\ ~is_enabled'
      BY DEF vars
    <2>1. ResetDone
      BY DEF Next, Handler, proc_set_resethw, proc_set_enablehw, proc_set_resetrtd,
             proc_set_watchdog_timeout, SetOutput, User, driven,
             Fast, FastBegin, ResetInit, turn_off_everything, clear_all_stats,
             clear_all_errors, RtdTest, RtdClear, init_i2c0, Gate,
             read_spi1, Slow, SlowBegin, SlowRead, SlowPush, Sloow, SloowBegin,
             DogTest, DogLoad, DogStore, DogJudge, Bite, Window, RaiseFlag, ErrorDisable, ErrorTurnOff
    <2> QED  BY <2>1 DEF ResetDone, At, IInv, CleanInv, stats, alarms
  <1> QED  BY <1>1, Invariance, PTL DEF SafeSpec, ResetIsClean

=============================================================================
