----------------------- MODULE ModuleLifecycleProofs -----------------------
(***************************************************************************)
(* For any outputs: no callback and no handler outlives the module unless a *)
(* load failed half-way, and the shadows tell what the chip holds except    *)
(* for failed transfers and for outputs that were on at the load.           *)
(***************************************************************************)
EXTENDS ModuleLifecycle, TLAPS

USE LifecycleAssumption

(* Where a load or unload can be in its list.                               *)
AtInv ==
    /\ pc \in {"create", "remove"} => at \in {1, 2}
    /\ pc \in {"init", "up", "off", "drop"} => at = 1

(* A timer is armed from its start to its cancel, and a callback that runs  *)
(* keeps its timer armed.                                                   *)
TimerInv ==
    /\ running # None => running \in armed
    /\ pc \in {"out", "oops", "init", "create"} => armed = {}
    /\ pc = "cancel" => armed \subseteq {Timer[k] : k \in at..3}

(* An entry can be called from its creation to its removal, and is removed  *)
(* when no handler is inside.                                               *)
ProcInv ==
    /\ leaked => pc \in {"out", "init", "oops"} /\ dir
    /\ pc = "oops" => leaked
    /\ pc \in {"out", "init"} /\ ~leaked => ~dir /\ entries = {} /\ inside = {}
    /\ pc = "create" => dir
    /\ pc = "remove" /\ at = 2 => Store \notin entries /\ Store \notin inside
    /\ pc \in {"drop", "cancel"} => entries = {} /\ inside = {}
    /\ pc = "cancel" => ~dir

IInv == TypeOK /\ AtInv /\ TimerInv /\ ProcInv /\ OnlyInherited

LEMMA InitInv == Init => IInv
  <1> SUFFICES ASSUME Init PROVE IInv
    OBVIOUS
  <1>1. AllOff \in [Output -> BOOLEAN]
    BY DEF AllOff
  <1>2. TypeOK
    <2>1. /\ wanted \in [Output -> BOOLEAN] /\ actual \in [Output -> BOOLEAN]
          /\ chip \in [Output -> BOOLEAN]
      BY <1>1 DEF Init
    <2>2. /\ at \in 1..3
          /\ entries \subseteq Entries /\ inside \subseteq Entries
          /\ armed \subseteq Timers /\ running \in Timers \cup {None}
          /\ kept \subseteq Output /\ missed \subseteq Output
      BY DEF Init
    <2>3. /\ dir \in BOOLEAN /\ enabled_status \in BOOLEAN
          /\ is_enabled \in BOOLEAN /\ leaked \in BOOLEAN
      BY DEF Init
    <2> QED  BY <2>1, <2>2, <2>3 DEF Init, TypeOK
  <1>3. AtInv /\ TimerInv /\ ProcInv
    BY DEF Init, AtInv, TimerInv, ProcInv
  <1>4. OnlyInherited
    BY DEF Init, OnlyInherited, Loaded
  <1> QED  BY <1>2, <1>3, <1>4 DEF IInv

-----------------------------------------------------------------------------
LEMMA TypeNext == IInv /\ [Next]_vars => TypeOK' /\ AtInv'
  <1> SUFFICES ASSUME IInv, [Next]_vars PROVE TypeOK' /\ AtInv'
    OBVIOUS
  <1> USE DEF IInv, TypeOK, AtInv, load, procfs, timers, flags, hist
  <1>0. /\ AllOff \in [Output -> BOOLEAN]
        /\ Entry[1] = Store /\ Entry[2] = Enable
        /\ Timer[1] = "fast" /\ Timer[2] = "slow" /\ Timer[3] = "sloow"
    BY DEF AllOff, Entry, Timer
  <1>1. CASE InitModule
    <2>1. kept' \subseteq Output /\ missed' \subseteq Output
      BY <1>1 DEF InitModule
    <2>2. wanted' \in [Output -> BOOLEAN] /\ actual' \in [Output -> BOOLEAN]
      BY <1>0, <1>1 DEF InitModule
    <2>3. enabled_status' \in BOOLEAN /\ is_enabled' \in BOOLEAN
      BY <1>1 DEF InitModule
    <2>4. at' = 1 /\ pc' = "init" /\ UNCHANGED <<procfs, timers, chip, leaked>>
      BY <1>1 DEF InitModule
    <2>5. AtInv'
      BY <2>4
    <2> QED  BY <2>1, <2>2, <2>3, <2>4, <2>5
  <1>10. CASE InitFails
    BY <1>10 DEF InitFails
  <1>11. CASE proc_mkdir
    BY <1>11 DEF proc_mkdir
  <1>12. CASE CreateFails
    BY <1>12 DEF CreateFails
  <1>2. CASE proc_create
    <2>1. Entry[at] \in Entries
      BY <1>0, <1>2 DEF proc_create, Entries
    <2> QED  BY <1>2, <2>1 DEF proc_create
  <1>3. CASE hrtimer_start
    <2>1. Timer[at] \in Timers
      BY <1>0 DEF Timers
    <2> QED  BY <1>3, <2>1 DEF hrtimer_start
  <1>4. CASE ExitModule
    BY <1>4 DEF ExitModule
  <1>13. CASE CleanupOff
    BY <1>0, <1>13 DEF CleanupOff, turn_off_everything
  <1>14. CASE HideEntry
    BY <1>14 DEF HideEntry
  <1>15. CASE RemoveEntry
    BY <1>15 DEF RemoveEntry
  <1>16. CASE RemoveDir
    BY <1>16 DEF RemoveDir
  <1>5. CASE hrtimer_cancel
    BY <1>5 DEF hrtimer_cancel
  <1>6. ASSUME NEW e \in Entries, Enter(e) \/ Handled(e) \/ Oops(e)
        PROVE  TypeOK' /\ AtInv'
    BY <1>6 DEF Enter, Handled, Oops
  <1>7. ASSUME NEW t \in Timers, Expire(t) PROVE TypeOK' /\ AtInv'
    BY <1>7 DEF Expire
  <1>8. CASE Callback
    <2>1. CASE Fast
      BY <2>1 DEF Fast
    <2>2. ASSUME NEW o \in Output, Slow(o) PROVE TypeOK' /\ AtInv'
      <3>1. actual' \in [Output -> BOOLEAN] /\ chip' \in [Output -> BOOLEAN]
              /\ kept' \subseteq Output /\ missed' \subseteq Output
        BY <2>2 DEF Slow
      <3> QED  BY <2>2, <3>1 DEF Slow
    <2>3. CASE Sloow
      <3>1. wanted' \in [Output -> BOOLEAN] /\ actual' \in [Output -> BOOLEAN]
              /\ is_enabled' \in BOOLEAN
        BY <1>0, <2>3 DEF Sloow, turn_off_everything
      <3>2. running' = None
              /\ UNCHANGED <<load, procfs, armed, enabled_status, chip, hist>>
        BY <2>3 DEF Sloow
      <3> QED  BY <3>1, <3>2
    <2> QED  BY <1>8, <2>1, <2>2, <2>3 DEF Callback
  <1>9. CASE UNCHANGED vars
    BY <1>9 DEF vars
  <1> QED  BY <1>1, <1>2, <1>3, <1>4, <1>5, <1>6, <1>7, <1>8, <1>9, <1>10, <1>11, <1>12,
              <1>13, <1>14, <1>15, <1>16 DEF Next, Unload

LEMMA TimerNext == IInv /\ [Next]_vars => TimerInv'
  <1> SUFFICES ASSUME IInv, [Next]_vars PROVE TimerInv'
    OBVIOUS
  <1> USE DEF IInv, TypeOK, AtInv, TimerInv, load, procfs, timers, flags, hist
  <1>1. CASE hrtimer_cancel
    <2>1. at \in 1..3 /\ pc = "cancel" /\ armed \subseteq {Timer[k] : k \in at..3}
      BY <1>1 DEF hrtimer_cancel
    <2>2. armed' \subseteq {Timer[k] : k \in (at + 1)..3}
      BY <1>1, <2>1 DEF hrtimer_cancel
    <2>3. running' # None => running' \in armed'
      BY <1>1 DEF hrtimer_cancel
    <2>4. CASE at < 3
      BY <1>1, <2>2, <2>3, <2>4 DEF hrtimer_cancel
    <2>5. CASE at = 3
      <3>1. armed' = {} /\ pc' = "out"
        BY <1>1, <2>2, <2>5 DEF hrtimer_cancel
      <3> QED  BY <2>3, <3>1
    <2> QED  BY <2>1, <2>4, <2>5
  <1>2. CASE hrtimer_start
    BY <1>2 DEF hrtimer_start
  <1>3. CASE RemoveDir
    <2>1. \A t \in Timers : \E k \in 1..3 : t = Timer[k]
      <3>1. Timer[1] = "fast" /\ Timer[2] = "slow" /\ Timer[3] = "sloow"
        BY DEF Timer
      <3> QED  BY <3>1 DEF Timers
    <2>2. pc' = "cancel" /\ at' = 1 /\ armed' = armed /\ running' = running
      BY <1>3 DEF RemoveDir
    <2> QED  BY <2>1, <2>2
  <1>4. ASSUME NEW t \in Timers, Expire(t) PROVE TimerInv'
    BY <1>4 DEF Expire
  <1>5. CASE Callback
    BY <1>5 DEF Callback, Fast, Slow, Sloow
  <1>6. ASSUME NEW e \in Entries, Enter(e) \/ Handled(e) \/ Oops(e)
        PROVE  TimerInv'
    BY <1>6 DEF Enter, Handled, Oops
  <1>7. CASE InitModule \/ InitFails \/ proc_mkdir \/ proc_create \/ CreateFails
    BY <1>7 DEF InitModule, InitFails, proc_mkdir, proc_create, CreateFails
  <1>8. CASE ExitModule \/ CleanupOff \/ HideEntry \/ RemoveEntry
    BY <1>8 DEF ExitModule, CleanupOff, HideEntry, RemoveEntry
  <1>9. CASE UNCHANGED vars
    BY <1>9 DEF vars
  <1> QED  BY <1>1, <1>2, <1>3, <1>4, <1>5, <1>6, <1>7, <1>8, <1>9 DEF Next, Unload

LEMMA ProcNext == IInv /\ [Next]_vars => ProcInv'
  <1> SUFFICES ASSUME IInv, [Next]_vars PROVE ProcInv'
    OBVIOUS
  <1>0. Entry[1] = Store /\ Entry[2] = Enable /\ Entries = {Store, Enable}
    BY DEF Entry, Entries
  <1> USE DEF IInv, TypeOK, AtInv, ProcInv, load, procfs, timers, flags, hist
  <1>1. CASE InitModule \/ InitFails \/ proc_mkdir
    BY <1>1 DEF InitModule, InitFails, proc_mkdir
  <1>10. CASE proc_create
    BY <1>10 DEF proc_create
  <1>11. CASE CreateFails
    BY <1>11 DEF CreateFails
  <1>2. CASE hrtimer_start \/ hrtimer_cancel
    BY <1>2 DEF hrtimer_start, hrtimer_cancel
  <1>3. CASE ExitModule \/ CleanupOff \/ RemoveDir
    BY <1>3 DEF ExitModule, CleanupOff, RemoveDir
  <1>4. CASE HideEntry
    BY <1>0, <1>4 DEF HideEntry
  <1>5. CASE RemoveEntry
    BY <1>0, <1>5 DEF RemoveEntry
  <1>6. ASSUME NEW e \in Entries, Enter(e) \/ Handled(e) \/ Oops(e)
        PROVE  ProcInv'
    BY <1>6 DEF Enter, Handled, Oops, Loaded
  <1>7. ASSUME NEW t \in Timers, Expire(t) PROVE ProcInv'
    BY <1>7 DEF Expire
  <1>8. CASE Callback
    BY <1>8 DEF Callback, Fast, Slow, Sloow
  <1>9. CASE UNCHANGED vars
    BY <1>9 DEF vars
  <1> QED  BY <1>1, <1>2, <1>3, <1>4, <1>5, <1>6, <1>7, <1>8, <1>9, <1>10, <1>11
           DEF Next, Unload

(* Only a load and a push touch shadows and chip.                           *)
LEMMA InheritNext == IInv /\ [Next]_vars => OnlyInherited'
  <1> SUFFICES ASSUME IInv, [Next]_vars PROVE OnlyInherited'
    OBVIOUS
  <1> USE DEF IInv, TypeOK, OnlyInherited, Loaded, load, procfs, timers, flags, hist
  <1>1. CASE InitModule
    BY <1>1 DEF InitModule, AllOff
  <1>2. ASSUME NEW o \in Output, Slow(o) PROVE OnlyInherited'
    <2> SUFFICES ASSUME Loaded', NEW p \in Output \ missed'
                 PROVE  IF p \in kept' THEN chip'[p] /\ ~actual'[p]
                                       ELSE chip'[p] = actual'[p]
      OBVIOUS
    <2>0. Loaded
      BY <1>2 DEF Slow
    <2>1. CASE p # o
      <3>1. /\ p \in kept' <=> p \in kept
            /\ p \in missed' <=> p \in missed
            /\ chip'[p] = chip[p] /\ actual'[p] = actual[p]
        BY <1>2, <2>1 DEF Slow
      <3> QED  BY <2>0, <3>1
    <2>2. CASE p = o /\ MustPush(o)
      <3>1. actual'[o] = wanted[o] /\ o \notin kept'
        BY <1>2, <2>2 DEF Slow
      <3>2. chip'[o] = wanted[o]
        BY <1>2, <2>2 DEF Slow
      <3> QED  BY <2>2, <3>1, <3>2
    <2>3. CASE ~MustPush(o)
      BY <1>2, <2>0, <2>3 DEF Slow
    <2> QED  BY <2>1, <2>2, <2>3
  <1>3. CASE InitFails \/ proc_mkdir \/ proc_create \/ CreateFails \/ hrtimer_start
    BY <1>3 DEF InitFails, proc_mkdir, proc_create, CreateFails, hrtimer_start
  <1>4. CASE ExitModule \/ Unload \/ hrtimer_cancel
    BY <1>4 DEF ExitModule, Unload, CleanupOff, turn_off_everything, HideEntry,
                RemoveEntry, RemoveDir, hrtimer_cancel
  <1>5. ASSUME NEW e \in Entries, Enter(e) \/ Handled(e) \/ Oops(e)
        PROVE  OnlyInherited'
    BY <1>5 DEF Enter, Handled, Oops
  <1>6. ASSUME NEW t \in Timers, Expire(t) PROVE OnlyInherited'
    BY <1>6 DEF Expire
  <1>7. CASE Fast \/ Sloow
    BY <1>7 DEF Fast, Sloow, turn_off_everything
  <1>8. CASE UNCHANGED vars
    BY <1>8 DEF vars
  <1> QED  BY <1>1, <1>2, <1>3, <1>4, <1>5, <1>6, <1>7, <1>8 DEF Next, Callback

-----------------------------------------------------------------------------
LEMMA Invariance == SafeSpec => []IInv
  <1>1. IInv /\ [Next]_vars => IInv'
    BY TypeNext, TimerNext, ProcNext, InheritNext DEF IInv
  <1> QED  BY <1>1, InitInv, PTL DEF SafeSpec

(* Every variable of the life cycle keeps its type.                         *)
THEOREM TypeCorrect == SafeSpec => []TypeOK
  <1>1. IInv => TypeOK
    BY DEF IInv
  <1> QED  BY <1>1, Invariance, PTL

(* data_getter_cleanup leaves no timer, no callback, no entry and no        *)
(* handler behind; only create_proc_entries failing half-way does.          *)
THEOREM NothingIsLeft == SafeSpec => []UnloadLeavesNothing
  <1>1. IInv => UnloadLeavesNothing
    BY DEF IInv, TypeOK, TimerInv, ProcInv, UnloadLeavesNothing, Loaded
  <1> QED  BY <1>1, Invariance, PTL

(* Shadows and chip differ only for failed transfers and for outputs that   *)
(* were on at the load and have not been written since.                     *)
THEOREM OnlyInheritedDiffer == SafeSpec => []OnlyInherited
  <1>1. IInv => OnlyInherited
    BY DEF IInv
  <1> QED  BY <1>1, Invariance, PTL

-----------------------------------------------------------------------------
(* The end of rmmod.                                                        *)

(* The steps data_getter_cleanup has still to take: an entry is hidden and  *)
(* then removed, a timer is cancelled.                                      *)
UnloadRank ==
    CASE pc = "off"    -> 9
      [] pc = "remove" -> (IF Entry[at] \in entries THEN 10 ELSE 9) - 2 * at
      [] pc = "drop"   -> 4
      [] pc = "cancel" -> 4 - at
      [] OTHER         -> 0

Unloading == pc \in {"off", "remove", "drop", "cancel"}

(* rmmod never has to take a step a second time, however busy users and     *)
(* timers are: a hidden entry is not found again and a cancelled timer is   *)
(* not armed again, so each step brings the end closer and nothing else     *)
(* moves it away.  This is what UnloadEnds needs apart from the handlers    *)
(* and callbacks that are waited for coming to their end.                   *)
UnloadRankFalls ==
    [][Unloading =>
          IF Unload \/ hrtimer_cancel THEN UnloadRank' < UnloadRank
                                      ELSE UnloadRank' = UnloadRank]_vars

LEMMA UnloadRanks ==
    ASSUME IInv
    PROVE  /\ Unloading => UnloadRank \in 1..9
           /\ ~Unloading => UnloadRank = 0
  <1>1. /\ pc = "remove" => at \in {1, 2}
        /\ at \in 1..3
        /\ pc \in {"off", "drop"} => at = 1
    BY DEF IInv, TypeOK, AtInv
  <1>2. CASE pc = "remove"
    <2>1. CASE Entry[at] \in entries
      BY <1>1, <1>2, <2>1 DEF UnloadRank, Unloading
    <2>2. CASE Entry[at] \notin entries
      BY <1>1, <1>2, <2>2 DEF UnloadRank, Unloading
    <2> QED  BY <2>1, <2>2
  <1>3. CASE pc # "remove"
    BY <1>1, <1>3 DEF UnloadRank, Unloading
  <1> QED  BY <1>2, <1>3

THEOREM UnloadComesCloser ==
    SafeSpec => /\ [](IF Unloading THEN UnloadRank \in 1..9 ELSE UnloadRank = 0)
                /\ UnloadRankFalls
  <1>1. IInv => IF Unloading THEN UnloadRank \in 1..9 ELSE UnloadRank = 0
    BY UnloadRanks
  <1>2. IInv /\ [Next]_vars =>
            [Unloading => IF Unload \/ hrtimer_cancel THEN UnloadRank' < UnloadRank
                                                      ELSE UnloadRank' = UnloadRank]_vars
    <2> SUFFICES ASSUME IInv, Next, Unloading
                 PROVE  IF Unload \/ hrtimer_cancel THEN UnloadRank' < UnloadRank
                                                    ELSE UnloadRank' = UnloadRank
      BY DEF vars
    <2>t. /\ pc = "remove" => at \in {1, 2}
          /\ at \in 1..3
          /\ pc \in {"off", "drop"} => at = 1
      BY DEF IInv, TypeOK, AtInv
    <2>r. ASSUME pc = "remove"
          PROVE  UnloadRank = (IF Entry[at] \in entries THEN 10 ELSE 9) - 2 * at
      BY <2>r DEF UnloadRank
    <2>1. ASSUME CleanupOff PROVE UnloadRank' < UnloadRank
      <3>1. pc = "off" /\ pc' = "remove" /\ at' = 1
        BY <2>1, <2>t DEF CleanupOff
      <3>2. UnloadRank' \in {7, 8} /\ UnloadRank = 9
        BY <3>1 DEF UnloadRank
      <3> QED  BY <3>2
    <2>2. ASSUME HideEntry PROVE UnloadRank' < UnloadRank
      <3>1. /\ pc = "remove" /\ pc' = pc /\ at' = at
            /\ Entry[at] \in entries /\ Entry[at] \notin entries'
        BY <2>2 DEF HideEntry, load
      <3>2. UnloadRank = 10 - 2 * at /\ UnloadRank' = 9 - 2 * at
        BY <3>1 DEF UnloadRank
      <3> QED  BY <2>t, <3>1, <3>2
    <2>3. ASSUME RemoveEntry PROVE UnloadRank' < UnloadRank
      <3>1. /\ pc = "remove" /\ Entry[at] \notin entries
            /\ IF at < 2 THEN at' = at + 1 /\ pc' = pc ELSE at' = 1 /\ pc' = "drop"
        BY <2>3 DEF RemoveEntry
      <3>2. UnloadRank = 9 - 2 * at
        BY <3>1 DEF UnloadRank
      <3>3. CASE at = 1
        <4>1. pc' = "remove" /\ at' = 2
          BY <3>1, <3>3
        <4>2. UnloadRank' \in {5, 6}
          BY <4>1 DEF UnloadRank
        <4> QED  BY <3>2, <3>3, <4>2
      <3>4. CASE at = 2
        <4>1. pc' = "drop"
          BY <3>1, <3>4
        <4> QED  BY <3>2, <3>4, <4>1 DEF UnloadRank
      <3> QED  BY <2>t, <3>1, <3>3, <3>4
    <2>4. ASSUME RemoveDir PROVE UnloadRank' < UnloadRank
      BY <2>4, <2>t DEF RemoveDir, UnloadRank
    <2>5. ASSUME hrtimer_cancel PROVE UnloadRank' < UnloadRank
      <3>1. /\ pc = "cancel"
            /\ IF at < 3 THEN at' = at + 1 /\ pc' = pc ELSE at' = 1 /\ pc' = "out"
        BY <2>5 DEF hrtimer_cancel
      <3>2. UnloadRank = 4 - at
        BY <3>1 DEF UnloadRank
      <3>3. CASE at < 3
        BY <2>t, <3>1, <3>2, <3>3 DEF UnloadRank
      <3>4. CASE ~(at < 3)
        BY <2>t, <3>1, <3>2, <3>4 DEF UnloadRank
      <3> QED  BY <3>3, <3>4
    <2>6. ASSUME Unload \/ hrtimer_cancel PROVE UnloadRank' < UnloadRank
      BY <2>1, <2>2, <2>3, <2>4, <2>5, <2>6 DEF Unload
    <2>7. ASSUME ~(Unload \/ hrtimer_cancel) PROVE UnloadRank' = UnloadRank
      <3>1. UNCHANGED <<pc, at, entries>>
        BY <2>7 DEF Next, Unloading, InitModule, InitFails, proc_mkdir, proc_create,
                    CreateFails, hrtimer_start, ExitModule, Enter, Handled, Oops, Expire,
                    Callback, Fast, Slow, Sloow, load, procfs
      <3> QED  BY <3>1 DEF UnloadRank
    <2> QED  BY <2>6, <2>7
  <1> QED  BY <1>1, <1>2, Invariance, PTL DEF SafeSpec, UnloadRankFalls
=============================================================================
