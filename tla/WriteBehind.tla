---------------------------- MODULE WriteBehind ----------------------------
(***************************************************************************)
(* What a group of output registers of the controller promises to its      *)
(* users, whatever chip is behind it.                                       *)
(*                                                                          *)
(* A user asks for a value and returns at once.  Later a periodic task      *)
(* takes the newest value asked of a register and, a bus transfer later,    *)
(* the register shows it.  Values may be skipped when they are asked faster *)
(* than they are taken, but the register never goes back to an older one    *)
(* and ends up showing the last value asked.  Nothing is taken or shown     *)
(* through a register whose gate is closed (the hardware is disabled).      *)
(***************************************************************************)

CONSTANTS Reg,    \* the output registers
          Val,    \* the values a register can show
          Zero,   \* what each register shows at power-on, a function on Reg
          Gated   \* the registers that are written only while enabled

VARIABLES want,   \* the last value asked of each register
          taken,  \* the value the periodic task works on, or worked on last
          shown,  \* what the register shows
          open    \* whether the hardware is enabled

vars == <<want, taken, shown, open>>

Init ==
    /\ want  = Zero
    /\ taken = Zero
    /\ shown = Zero
    /\ open  = FALSE

Ask(r, v) ==
    /\ want' = [want EXCEPT ![r] = v]
    /\ UNCHANGED <<taken, shown, open>>

Passable(r) == r \in Gated => open

Take(r) ==
    /\ Passable(r)
    /\ taken[r] # want[r]
    /\ shown[r] = taken[r]
    /\ taken' = [taken EXCEPT ![r] = want[r]]
    /\ UNCHANGED <<want, shown, open>>

Show(r) ==
    /\ Passable(r)
    /\ shown[r] # taken[r]
    /\ shown' = [shown EXCEPT ![r] = taken[r]]
    /\ UNCHANGED <<want, taken, open>>

Gate ==
    /\ open' = ~open
    /\ UNCHANGED <<want, taken, shown>>

Next ==
    \/ \E r \in Reg, v \in Val : Ask(r, v)
    \/ \E r \in Reg : Take(r) \/ Show(r)
    \/ Gate

SafeSpec == Init /\ [][Next]_vars

Spec == SafeSpec /\ \A r \in Reg : WF_vars(Take(r)) /\ WF_vars(Show(r))

=============================================================================
