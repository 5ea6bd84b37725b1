--------------------------- MODULE RgbLampProofs ---------------------------
(***************************************************************************)
(* For any users, colours, blink time and tick: a sloow tick during which   *)
(* no handler copied shows one setting as a whole.                          *)
(*                                                                          *)
(* The invariant behind it: without the lock rgb is the last whole setting, *)
(* with the lock it is so in the fields already copied, and a tick that is  *)
(* not torn may meet a handler with the lock, but none that has copied.     *)
(***************************************************************************)
EXTENDS RgbLamp, TLAPS

Ticking == pc \in Colour \cup {"alarm"}

(* The channels this tick has been at.                                      *)
Through == [red |-> {}, green |-> {"red"}, blue |-> {"red", "green"}, alarm |-> Colour]

SetInv == pc = "set" => colour \in Setting

LockInv ==
    \A u \in User : rgb_lock = u =>
        /\ data[u] # None /\ data[u] \in Setting
        /\ \A f \in Field \ todo[u] : rgb[f] = data[u][f]

WholeInv == rgb_lock = None => rgb = whole

TickInv ==
    Ticking /\ ~torn =>
        /\ rgb = whole /\ pattern = whole.pattern
        /\ \A u \in User : rgb_lock = u => todo[u] = Field

ShownInv ==
    Ticking /\ ~torn /\ pattern # "other" =>
        \A c \in Through[pc] : wanted[c] = IF Lit(whole.pattern) THEN whole[c] ELSE 0

IInv == TypeOK /\ SetInv /\ LockInv /\ WholeInv /\ TickInv /\ ShownInv

-----------------------------------------------------------------------------
(* Constants, records and the shade of a level.                             *)

LEMMA ConstantTypes ==
    /\ Full \in Nat /\ Full > 0 /\ BlinkTime \in Nat /\ BlinkTime > 0
    /\ Tick \in Nat /\ Tick > 0 /\ MaxAsks \in Nat /\ MaxMishaps \in Nat
    /\ None \notin User /\ 0 \in Level /\ Full \in Level
  BY RgbAssumption DEF Level

LEMMA Colours3 == {RED, CYAN, WHITE} \subseteq Setting
  BY ConstantTypes DEF RED, CYAN, WHITE, Setting, Pattern

LEMMA Fields ==
    /\ Field = {"red", "green", "blue", "pattern"} /\ Colour = {"red", "green", "blue"}
    /\ Field # {}
  BY DEF Field, Colour

LEMMA SameFields ==
    ASSUME NEW s \in Setting, NEW d \in Setting, \A f \in Field : s[f] = d[f]
    PROVE  s = d
  BY Fields DEF Setting

(* The heartbeat is dark or full, because the division is an integer's.     *)
LEMMA Beat ==
    ASSUME NEW t \in 0..BlinkTime, NEW l \in Level
    PROVE  (t \div BlinkTime) * l = IF t = BlinkTime THEN l ELSE 0
  <1> USE ConstantTypes
  <1>1. CASE t = BlinkTime
    <2>1. BlinkTime \div BlinkTime = 1
      OBVIOUS
    <2> QED  BY <1>1, <2>1 DEF Level
  <1>2. CASE t # BlinkTime
    <2>1. t \div BlinkTime = 0
      BY <1>2
    <2> QED  BY <1>2, <2>1 DEF Level
  <1> QED  BY <1>1, <1>2

LEMMA ShadeIsLit ==
    ASSUME TypeOK, pattern # "other", NEW l \in Level
    PROVE  Shade(l) = IF Lit(pattern) THEN l ELSE 0
  <1>1. (blink_timer \div BlinkTime) * l = IF blink_timer = BlinkTime THEN l ELSE 0
    BY Beat DEF TypeOK
  <1>2. pattern \in {"off", "on", "blink", "heartbeat"}
    BY DEF TypeOK, Pattern
  <1>3. CASE pattern = "off"
    BY <1>3 DEF Shade, Lit
  <1>4. CASE pattern = "on"
    BY <1>4 DEF Shade, Lit
  <1>5. CASE pattern = "blink"
    BY <1>5 DEF Shade, Lit
  <1>6. CASE pattern = "heartbeat"
    BY <1>1, <1>6 DEF Shade, Lit
  <1> QED  BY <1>2, <1>3, <1>4, <1>5, <1>6

LEMMA ShadeIsLevel ==
    ASSUME TypeOK, NEW l \in Level
    PROVE  Shade(l) \in Level
  <1>1. (blink_timer \div BlinkTime) * l \in Level
    BY Beat, ConstantTypes DEF TypeOK
  <1> QED  BY <1>1, ConstantTypes DEF Shade, TypeOK, Pattern

-----------------------------------------------------------------------------
LEMMA InitInv == Init => IInv
  <1> SUFFICES ASSUME Init PROVE IInv
    OBVIOUS
  <1> USE ConstantTypes
  <1>1. rgb \in Setting /\ whole = rgb
    BY DEF Init, Setting, Pattern
  <1>2. TypeOK
    <2>1. /\ wanted \in [Colour -> Level] /\ actual \in [Colour -> Level]
          /\ shown \in [Colour -> Level] /\ hit \subseteq Colour
      BY DEF Init, Dark
    <2>2. data \in [User -> Setting \cup {None}] /\ todo \in [User -> SUBSET Field]
      BY DEF Init
    <2>3. blink_timer \in 0..BlinkTime /\ asks \in 0..MaxAsks /\ mishaps \in 0..MaxMishaps
      BY DEF Init
    <2>4. pattern \in Pattern
      BY DEF Init, Pattern
    <2> QED  BY <1>1, <2>1, <2>2, <2>3, <2>4 DEF Init, TypeOK
  <1>3. ~Ticking /\ pc # "set" /\ rgb_lock \notin User
    BY Fields DEF Init, Ticking
  <1> QED  BY <1>1, <1>2, <1>3
           DEF IInv, SetInv, LockInv, WholeInv, TickInv, ShownInv

-----------------------------------------------------------------------------
(* A step of a handler.                                                     *)

LEMMA AskKeeps ==
    ASSUME IInv, NEW u \in User, proc_set_rgb(u)
    PROVE  IInv'
  <1>1. rgb_lock # u
    BY DEF proc_set_rgb, IInv, LockInv
  <1>2. /\ data' \in [User -> Setting \cup {None}] /\ todo' \in [User -> SUBSET Field]
        /\ \A v \in User \ {u} : data'[v] = data[v] /\ todo'[v] = todo[v]
    <2>1. PICK a \in Asks : IF InRange(a)
                            THEN /\ data' = [data EXCEPT ![u] = a]
                                 /\ todo' = [todo EXCEPT ![u] = Field]
                            ELSE UNCHANGED handler
      BY DEF proc_set_rgb
    <2>2. CASE InRange(a)
      <3>1. a \in Setting
        BY <2>2, RgbAssumption, Fields DEF InRange, Ask, Setting, Level
      <3> QED  BY <2>1, <2>2, <3>1 DEF IInv, TypeOK
    <2>3. CASE ~InRange(a)
      BY <2>1, <2>3 DEF handler, IInv, TypeOK
    <2> QED  BY <2>2, <2>3
  <1>3. UNCHANGED <<rgb, rgb_lock, whole, test, enabled_status, reset_status, reset_i2c0,
                    old_reset, blink_timer, on_cycle, pattern, pc, colour, wanted,
                    actual, shown, hit,
                    ran, mishaps, torn>>
    BY DEF proc_set_rgb, lamp, chip, switch, blink
  <1>4. asks' \in 0..MaxAsks
    BY ConstantTypes DEF proc_set_rgb, Write, IInv, TypeOK
  <1>5. TypeOK'
    BY <1>2, <1>3, <1>4 DEF IInv, TypeOK
  <1>6. \A v \in User : rgb_lock = v => data'[v] = data[v] /\ todo'[v] = todo[v]
    BY <1>1, <1>2
  <1>7. LockInv'
    BY <1>3, <1>6 DEF IInv, LockInv
  <1>8. TickInv'
    BY <1>3, <1>6 DEF IInv, TickInv, Ticking
  <1> QED  BY <1>3, <1>5, <1>7, <1>8
           DEF IInv, SetInv, WholeInv, ShownInv, Ticking, Lit

LEMMA LockKeeps ==
    ASSUME IInv, NEW u \in User, Lock(u)
    PROVE  IInv'
  <1>1. /\ rgb_lock = None /\ rgb_lock' = u /\ data[u] # None /\ todo[u] = Field
        /\ UNCHANGED <<rgb, whole, test, enabled_status, reset_status, reset_i2c0, data,
                       todo, old_reset, blink_timer, on_cycle, pattern, pc, colour,
                       wanted, actual, shown, hit, ran, asks, mishaps, torn>>
    BY DEF Lock, switch, chip, handler, blink
  <1>2. TypeOK'
    BY <1>1 DEF IInv, TypeOK
  <1>3. LockInv'
    BY <1>1 DEF IInv, LockInv, TypeOK
  <1>4. WholeInv'
    BY <1>1, ConstantTypes DEF WholeInv
  <1>5. TickInv'
    BY <1>1 DEF IInv, TickInv, Ticking
  <1> QED  BY <1>1, <1>2, <1>3, <1>4, <1>5
           DEF IInv, SetInv, ShownInv, Ticking, Lit

LEMMA CopyKeeps ==
    ASSUME IInv, NEW u \in User, CopyField(u)
    PROVE  IInv'
  <1>1. PICK f \in todo[u] : /\ rgb' = [rgb EXCEPT ![f] = data[u][f]]
                             /\ todo' = [todo EXCEPT ![u] = @ \ {f}]
    BY DEF CopyField
  <1>2. /\ rgb_lock = u /\ torn' = (torn \/ Ticking)
        /\ UNCHANGED <<rgb_lock, whole, test, enabled_status, reset_status, reset_i2c0,
                       data, old_reset, blink_timer, on_cycle, pattern, pc, colour,
                       wanted, actual, shown, hit, ran, asks, mishaps>>
    BY DEF CopyField, switch, chip, blink, Ticking
  <1>3. f \in Field /\ rgb \in Setting /\ data[u] \in Setting
    BY <1>1, <1>2 DEF IInv, TypeOK, LockInv
  <1>4. rgb' \in Setting /\ \A g \in Field : rgb'[g] = IF g = f THEN data[u][f] ELSE rgb[g]
    BY <1>1, <1>3, Fields DEF Setting
  <1>5. todo' \in [User -> SUBSET Field] /\ todo'[u] = todo[u] \ {f}
    BY <1>1 DEF IInv, TypeOK
  <1>6. TypeOK'
    <2>1. torn' \in BOOLEAN
      BY <1>2 DEF IInv, TypeOK
    <2> QED  BY <1>2, <1>4, <1>5, <2>1 DEF IInv, TypeOK
  <1>7. LockInv'
    <2> SUFFICES ASSUME NEW g \in Field \ todo'[u] PROVE rgb'[g] = data[u][g]
      BY <1>2 DEF LockInv, IInv
    <2> QED  BY <1>2, <1>4, <1>5 DEF IInv, LockInv
  <1>8. WholeInv'
    BY <1>2, ConstantTypes DEF WholeInv
  <1>9. TickInv' /\ ShownInv'
    BY <1>2 DEF TickInv, ShownInv, Ticking
  <1> QED  BY <1>2, <1>6, <1>7, <1>8, <1>9 DEF IInv, SetInv

LEMMA UnlockKeeps ==
    ASSUME IInv, NEW u \in User, Unlock(u)
    PROVE  IInv'
  <1>1. /\ rgb_lock = u /\ todo[u] = {} /\ rgb_lock' = None /\ whole' = data[u]
        /\ data' = [data EXCEPT ![u] = None]
        /\ UNCHANGED <<rgb, test, enabled_status, reset_status, reset_i2c0, todo,
                       old_reset, blink_timer, on_cycle, pattern, pc, colour, wanted,
                       actual, shown, hit, ran, asks, mishaps, torn>>
    BY DEF Unlock, switch, chip, blink
  <1>2. data[u] \in Setting /\ \A f \in Field : rgb[f] = data[u][f]
    BY <1>1 DEF IInv, LockInv
  <1>3. rgb = data[u]
    BY <1>2, SameFields DEF IInv, TypeOK
  <1>4. TypeOK'
    <2>1. data' \in [User -> Setting \cup {None}]
      BY <1>1 DEF IInv, TypeOK
    <2> QED  BY <1>1, <1>2, <2>1 DEF IInv, TypeOK
  <1>5. ~(Ticking /\ ~torn)
    BY <1>1, Fields DEF IInv, TickInv
  <1>6. LockInv' /\ WholeInv'
    BY <1>1, <1>3, ConstantTypes DEF LockInv, WholeInv
  <1>7. TickInv' /\ ShownInv'
    BY <1>1, <1>5 DEF TickInv, ShownInv, Ticking
  <1> QED  BY <1>1, <1>4, <1>6, <1>7 DEF IInv, SetInv

LEMMA SwitchKeeps == IInv /\ (SetSwitch \/ proc_set_resetrtd) => IInv'
  <1> SUFFICES ASSUME IInv, SetSwitch \/ proc_set_resetrtd PROVE IInv'
    OBVIOUS
  <1>1. UNCHANGED <<rgb, rgb_lock, whole, data, todo, old_reset, blink_timer, on_cycle,
                    pattern, pc, colour, wanted,
                    actual, shown, hit, ran, mishaps, torn>>
    BY DEF SetSwitch, proc_set_resetrtd, lamp, chip, handler, blink
  <1>2. asks' \in 0..MaxAsks
    BY ConstantTypes DEF SetSwitch, proc_set_resetrtd, Write, IInv, TypeOK
  <1>3. /\ test' \in BOOLEAN /\ enabled_status' \in BOOLEAN /\ reset_status' \in BOOLEAN
        /\ reset_i2c0' \in BOOLEAN
    <2>1. CASE SetSwitch
      BY <2>1 DEF SetSwitch, switch, IInv, TypeOK
    <2>2. CASE proc_set_resetrtd
      BY <2>2 DEF proc_set_resetrtd, switch, IInv, TypeOK
    <2> QED  BY <2>1, <2>2
  <1>4. TypeOK'
    BY <1>1, <1>2, <1>3 DEF IInv, TypeOK
  <1> QED  BY <1>1, <1>4
           DEF IInv, SetInv, LockInv, WholeInv, TickInv, ShownInv, Ticking, Lit

-----------------------------------------------------------------------------
(* A step of a callback.                                                    *)

LEMMA FastKeeps == IInv /\ Fast => IInv'
  <1> SUFFICES ASSUME IInv, Fast PROVE IInv'
    OBVIOUS
  <1>1. /\ pc = "idle" /\ ran' = TRUE
        /\ UNCHANGED <<rgb, rgb_lock, whole, test, enabled_status, reset_status, data,
                       todo, blink_timer, on_cycle, pattern,
                       actual, shown, hit, asks, mishaps, torn>>
    BY DEF Fast, FastReset, FastRtd, FastColour, FastBegin, lamp, chip, switch, handler, blink
  <1>2. old_reset' \in BOOLEAN /\ reset_i2c0' \in BOOLEAN /\ wanted' \in [Colour -> Level]
    BY ConstantTypes DEF Fast, FastReset, FastRtd, FastColour, Dark, IInv, TypeOK
  <1>3. pc' \in {"idle", "set"} /\ colour' \in Setting \cup {None} /\ SetInv'
    BY <1>1, Colours3 DEF Fast, FastReset, FastRtd, FastColour, MaySet, SetInv, IInv, TypeOK
  <1>4. TypeOK'
    BY <1>1, <1>2, <1>3 DEF IInv, TypeOK
  <1>5. ~Ticking'
    BY <1>3, Fields DEF Ticking
  <1> QED  BY <1>1, <1>3, <1>4, <1>5 DEF IInv, LockInv, WholeInv, TickInv, ShownInv

LEMMA SetKeeps == IInv /\ set_rgb => IInv'
  <1> SUFFICES ASSUME IInv, set_rgb PROVE IInv'
    OBVIOUS
  <1>1. /\ rgb_lock = None /\ rgb' = colour /\ whole' = colour /\ pc' = "idle"
        /\ colour' = None /\ colour \in Setting
        /\ UNCHANGED <<rgb_lock, test, enabled_status, reset_status, reset_i2c0, data,
                       todo, old_reset, blink_timer, on_cycle, pattern, wanted,
                       actual, shown, hit,
                       ran, asks, mishaps, torn>>
    BY DEF set_rgb, switch, chip, handler, blink, IInv, SetInv
  <1>2. TypeOK'
    BY <1>1 DEF IInv, TypeOK
  <1>3. ~Ticking'
    BY <1>1, Fields DEF Ticking
  <1> QED  BY <1>1, <1>2, <1>3, ConstantTypes
           DEF IInv, SetInv, LockInv, WholeInv, TickInv, ShownInv

LEMMA SloowBeginKeeps == IInv /\ SloowBegin => IInv'
  <1> SUFFICES ASSUME IInv, SloowBegin PROVE IInv'
    OBVIOUS
  <1>1. /\ pattern' = rgb.pattern /\ ran' = FALSE /\ torn' = (rgb_lock # None)
        /\ pc' = IF rgb.pattern = "other" THEN "alarm" ELSE "red"
        /\ UNCHANGED <<rgb, rgb_lock, whole, test, enabled_status, reset_status,
                       reset_i2c0, data, todo, old_reset, colour, wanted,
                       actual, shown, hit, asks,
                       mishaps>>
    BY DEF SloowBegin, lamp, chip, switch, handler
  <1>2. blink_timer' \in 0..BlinkTime /\ on_cycle' \in BOOLEAN
    <2>1. PICK t \in Int : blink_timer' = Clamp(t) /\ on_cycle' = OnCycle(t)
      BY ConstantTypes DEF SloowBegin, IInv, TypeOK
    <2>2. Clamp(t) \in 0..BlinkTime
      BY <2>1, ConstantTypes DEF Clamp
    <2>3. OnCycle(t) \in BOOLEAN
      BY DEF OnCycle, IInv, TypeOK
    <2> QED  BY <2>1, <2>2, <2>3
  <1>3. pattern' \in Pattern
    BY <1>1 DEF IInv, TypeOK, Setting
  <1>4. TypeOK'
    BY <1>1, <1>2, <1>3 DEF IInv, TypeOK
  <1>5. TickInv'
    BY <1>1, ConstantTypes DEF IInv, WholeInv, TickInv
  <1>6. ShownInv'
    BY <1>1 DEF ShownInv, Through
  <1> QED  BY <1>1, <1>4, <1>5, <1>6, ConstantTypes
           DEF IInv, SetInv, LockInv, WholeInv

LEMMA SloowColourKeeps == IInv /\ SloowColour => IInv'
  <1> SUFFICES ASSUME IInv, SloowColour PROVE IInv'
    OBVIOUS
  <1>1. /\ pc \in Colour /\ wanted' = [wanted EXCEPT ![pc] = Shade(rgb[pc])]
        /\ pc' = AfterColour[pc]
        /\ UNCHANGED <<rgb, rgb_lock, whole, test, enabled_status, reset_status,
                       reset_i2c0, data, todo, old_reset, blink_timer, on_cycle, pattern,
                       colour, actual, shown, hit, ran, asks, mishaps, torn>>
    BY DEF SloowColour, lamp, chip, switch, handler, blink
  <1>2. rgb[pc] \in Level
    BY <1>1, Fields DEF IInv, TypeOK, Setting
  <1>3. wanted' \in [Colour -> Level] /\ wanted'[pc] = Shade(rgb[pc])
          /\ \A c \in Colour \ {pc} : wanted'[c] = wanted[c]
    BY <1>1, <1>2, ShadeIsLevel DEF IInv, TypeOK
  <1>4. pc' \in {"green", "blue", "alarm"} /\ Through[pc'] = Through[pc] \cup {pc}
          /\ Through[pc] \subseteq Colour /\ pc \notin Through[pc]
    BY <1>1, Fields DEF AfterColour, Through
  <1>5. TypeOK'
    BY <1>1, <1>3, <1>4 DEF IInv, TypeOK
  <1>6. TickInv'
    BY <1>1, <1>4 DEF IInv, TickInv, Ticking
  <1>7. ShownInv'
    <2> SUFFICES ASSUME ~torn, pattern # "other", NEW c \in Through[pc']
                 PROVE  wanted'[c] = IF Lit(whole.pattern) THEN whole[c] ELSE 0
      BY <1>1 DEF ShownInv, Lit
    <2>1. rgb = whole /\ pattern = whole.pattern
      BY <1>1 DEF IInv, TickInv, Ticking
    <2>2. CASE c = pc
      BY <1>2, <1>3, <2>1, <2>2, ShadeIsLit DEF IInv
    <2>3. CASE c # pc
      BY <1>1, <1>3, <1>4, <2>3 DEF IInv, ShownInv, Ticking
    <2> QED  BY <2>2, <2>3
  <1> QED  BY <1>1, <1>4, <1>5, <1>6, <1>7 DEF IInv, SetInv, LockInv, WholeInv

LEMMA TickEnds == IInv /\ (SloowQuiet \/ handle_hw_error) => IInv'
  <1> SUFFICES ASSUME IInv, SloowQuiet \/ handle_hw_error PROVE IInv'
    OBVIOUS
  <1>1. /\ pattern' = "off" /\ torn' = FALSE
        /\ UNCHANGED <<rgb, rgb_lock, whole, test, enabled_status, reset_status,
                       reset_i2c0, data, todo, old_reset, blink_timer, on_cycle,
                       actual, shown, hit,
                       ran, asks>>
    BY DEF SloowQuiet, handle_hw_error, TickOver, lamp, chip, switch, handler
  <1>2. mishaps' \in 0..MaxMishaps
    BY ConstantTypes DEF SloowQuiet, handle_hw_error, Mishap, IInv, TypeOK
  <1>3. wanted' \in [Colour -> Level]
    BY ConstantTypes DEF SloowQuiet, handle_hw_error, Dark, IInv, TypeOK
  <1>4. pc' \in {"idle", "set"} /\ colour' \in Setting \cup {None} /\ SetInv'
    BY Colours3 DEF SloowQuiet, handle_hw_error, MaySet, SetInv, IInv, TypeOK
  <1>5. pattern' \in Pattern
    BY <1>1 DEF Pattern
  <1>6. TypeOK'
    BY <1>1, <1>2, <1>3, <1>4, <1>5 DEF IInv, TypeOK
  <1>7. ~Ticking'
    BY <1>4, Fields DEF Ticking
  <1> QED  BY <1>1, <1>4, <1>6, <1>7 DEF IInv, LockInv, WholeInv, TickInv, ShownInv

LEMMA PushKeeps == IInv /\ (Push \/ UNCHANGED vars) => IInv'
  <1> SUFFICES ASSUME IInv, Push \/ UNCHANGED vars PROVE IInv'
    OBVIOUS
  <1>1. UNCHANGED <<rgb, rgb_lock, whole, test, enabled_status, reset_status,
                    reset_i2c0, data, todo, old_reset, blink_timer, on_cycle, pattern,
                    pc, colour, wanted, ran, asks, torn>>
    BY DEF Push, PushClean, PushFails, PushBegin, vars, lamp, switch, handler, blink
  <1>2. /\ actual' \in [Colour -> Level] /\ shown' \in [Colour -> Level]
        /\ hit' \subseteq Colour /\ mishaps' \in 0..MaxMishaps
    <2>1. ASSUME NEW c \in Colour, PushClean(c) PROVE <1>2!:
      BY <2>1 DEF PushClean, ShadowTakes, IInv, TypeOK
    <2>2. ASSUME NEW c \in Colour, PushFails(c) PROVE <1>2!:
      BY <2>2, ConstantTypes DEF PushFails, Mishap, ShadowTakes, IInv, TypeOK
    <2>3. CASE UNCHANGED vars
      BY <2>3 DEF vars, chip, IInv, TypeOK
    <2> QED  BY <2>1, <2>2, <2>3 DEF Push
  <1>3. TypeOK'
    BY <1>1, <1>2 DEF IInv, TypeOK
  <1> QED  BY <1>1, <1>3
           DEF IInv, SetInv, LockInv, WholeInv, TickInv, ShownInv, Ticking, Lit

LEMMA NextInv == IInv /\ [Next]_vars => IInv'
  BY AskKeeps, LockKeeps, CopyKeeps, UnlockKeeps, SwitchKeeps, FastKeeps, SetKeeps,
     SloowBeginKeeps, SloowColourKeeps, TickEnds, PushKeeps DEF Next, proc_set, Sloow

-----------------------------------------------------------------------------
(* Every variable keeps its type: proc_set_rgb lets no level above PWM_MAX  *)
(* through, and the clamp keeps blink_timer between 0 and BLINK_TIME_MS.    *)
THEOREM TypeCorrect == SafeSpec => []TypeOK
  <1>1. IInv => TypeOK
    BY DEF IInv
  <1> QED  BY <1>1, InitInv, NextInv, PTL DEF SafeSpec

(* The blink code of the sloow callback reads rgb without the lock; a tick  *)
(* during which no handler copied still shows one setting as a whole.       *)
THEOREM OneSetting == SafeSpec => []QuietTickShowsOneSetting
  <1>1. IInv => QuietTickShowsOneSetting
    <2> SUFFICES ASSUME IInv, pc = "alarm", ~torn, pattern # "other"
                 PROVE  wanted = [c \in Colour |-> IF Lit(whole.pattern) THEN whole[c] ELSE 0]
      BY DEF QuietTickShowsOneSetting
    <2>1. \A c \in Colour : wanted[c] = IF Lit(whole.pattern) THEN whole[c] ELSE 0
      BY DEF IInv, ShownInv, Ticking, Through
    <2> QED  BY <2>1 DEF IInv, TypeOK
  <1> QED  BY <1>1, InitInv, NextInv, PTL DEF SafeSpec
=============================================================================
