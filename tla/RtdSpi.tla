------------------------------- MODULE RtdSpi -------------------------------
(***************************************************************************)
(* The temperature bus: read_rtd and cfg_rtd_chips of data_getter on the    *)
(* polling transfer of the SPI0 driver.                                     *)
(*                                                                          *)
(* The chips share the bus.  One is selected over i2c, through a port of an *)
(* expander, before a transfer and deselected after it.  The driver fills   *)
(* and drains two FIFOs; the controller moves bytes meanwhile as long as TA *)
(* is set.  A transfer that completes resets the controller; one that times *)
(* out leaves TA set, bytes in both FIFOs and the chip selected.            *)
(*                                                                          *)
(* A byte sent is one of a read (all zero) or the address or the value of a *)
(* configuration.  A byte received is named by the chip that sent it and    *)
(* its place in that chip's frame, which begins when the chip's select line *)
(* falls; a byte stored is right, of this chip and place, or wrong.  The    *)
(* callbacks share a CPU: a configuration (at reset) and a read never       *)
(* overlap.                                                                 *)
(***************************************************************************)
EXTENDS SpiPoll

CONSTANTS
    NumRtds,    \* NUM_RTDS
    ReadLen,    \* RTD_XFERLEN
    MaxResets,  \* bound: configurations at resets
    MaxFaults   \* bound: failing i2c transfers

ConfLen == 2
Chip    == 1..NumRtds

(* The controller keeps more bytes than one transfer has.                   *)
ASSUME RtdAssumption ==
    /\ NumRtds \in Nat \ {0} /\ ReadLen \in Nat \ {0}
    /\ Depth >= ReadLen /\ Depth >= ConfLen
    /\ MaxResets \in Nat /\ MaxFaults \in Nat
    /\ None \notin Nat

Kind   == {"read", "conf"}
Size   == [read |-> ReadLen, conf |-> ConfLen]
Sent   == {"read", "addr", "value"}
Byte(k, i) == IF k = "read" THEN "read" ELSE IF i = 1 THEN "addr" ELSE "value"
Answer == [chip : Chip \cup {None}, at : 0..(ReadLen + 1)]
Stored == {"never", "right", "wrong"}

VARIABLES
    kind, chip,     \* the call under way: read_rtd or cfg_rtd_chips, and the chip
    turn,           \* the chip whose slot is next
    sel,            \* the chip whose select line is low
    TA,             \* the controller is active
    pos,            \* bytes of the frame of the selected chip so far
    addressed,      \* that frame began with the address of the configuration
    conf,           \* what the configuration register of a chip holds
    resets, faults, \* bounded: resets, failed i2c transfers
    spoiled,        \* history: this transfer began on what a failure had left
    tainted         \* history: chips whose buffer a spoiled transfer filled

rtdCall == <<kind, chip, turn>>
drv     == <<tx_len, rx_len, buf>>
rtdHw   == <<TA, tx, rx>>
chips   == <<pos, addressed, conf>>
hist    == <<spoiled, tainted>>
rtdVars == <<pc, rtdCall, drv, sel, rtdHw, chips, late, resets, faults, hist>>

RtdTypeOK ==
    /\ pc \in {"idle", "select", "start", "fill", "drain", "clear"}
    /\ kind \in Kind /\ chip \in Chip /\ turn \in Chip
    /\ tx_len \in 0..(ReadLen + ConfLen) /\ rx_len \in 0..(ReadLen + ConfLen)
    /\ buf \in [Chip -> [1..ReadLen -> Stored]]
    /\ sel \in Chip \cup {None}
    /\ TA \in BOOLEAN
    /\ tx \in Seq(Sent) /\ Len(tx) <= Depth
    /\ rx \in Seq(Answer) /\ Len(rx) <= Depth
    /\ pos \in 0..(ReadLen + 1) /\ addressed \in BOOLEAN
    /\ conf \in [Chip -> {"unset", "set", "wrong"}]
    /\ late \in BOOLEAN
    /\ resets \in 0..MaxResets /\ faults \in 0..MaxFaults
    /\ spoiled \in BOOLEAN /\ tainted \subseteq Chip

RtdInit ==
    /\ pc = "idle" /\ kind = "read" /\ chip = 1 /\ turn = NumRtds
    /\ tx_len = 0 /\ rx_len = 0
    /\ buf = [n \in Chip |-> [i \in 1..ReadLen |-> "never"]]
    /\ sel = None
    /\ TA = FALSE /\ tx = <<>> /\ rx = <<>>
    /\ pos = 0 /\ addressed = FALSE
    /\ conf = [n \in Chip |-> "unset"]
    /\ late = FALSE
    /\ resets = 0 /\ faults = 0
    /\ spoiled = FALSE /\ tainted = {}

-----------------------------------------------------------------------------
(* The calls.  The slots visit the chips from the last to the first; a      *)
(* configuration takes them from the first to the last.                     *)

read_rtd ==
    /\ pc = "idle"
    /\ kind' = "read" /\ chip' = turn
    /\ turn' = IF turn = 1 THEN NumRtds ELSE turn - 1
    /\ pc' = "select"
    /\ UNCHANGED <<drv, sel, rtdHw, chips, late, resets, faults, hist>>

cfg_rtd_chips ==
    /\ pc = "idle" /\ resets < MaxResets
    /\ resets' = resets + 1
    /\ kind' = "conf" /\ chip' = 1 /\ turn' = turn
    /\ pc' = "select"
    /\ UNCHANGED <<drv, sel, rtdHw, chips, late, faults, hist>>

(* The end of the work on one chip, however it ended.                       *)
NextChip ==
    /\ IF kind = "conf" /\ chip < NumRtds
       THEN chip' = chip + 1 /\ pc' = "select"
       ELSE chip' = chip /\ pc' = "idle"
    /\ late' = FALSE /\ spoiled' = FALSE
    /\ UNCHANGED <<kind, turn>>

-----------------------------------------------------------------------------
(* set_cs_rtd writes the port that holds all select lines: it selects one   *)
(* chip or none.  A failed write may have reached the expander.             *)

Selected(n) ==
    /\ sel' = n
    /\ IF n = sel THEN UNCHANGED chips
                  ELSE pos' = 0 /\ addressed' = FALSE /\ UNCHANGED conf

I2cFails == faults < MaxFaults /\ faults' = faults + 1

Select ==
    /\ pc = "select"
    /\ Selected(chip)
    /\ spoiled' = (TA \/ sel = chip)
    /\ tainted' = IF spoiled' /\ kind = "read" THEN tainted \cup {chip} ELSE tainted
    /\ pc' = "start"
    /\ UNCHANGED <<rtdCall, drv, rtdHw, late, resets, faults>>

SelectFails ==
    /\ pc = "select"
    /\ I2cFails
    /\ Selected(chip) \/ Selected(sel)
    /\ NextChip
    /\ UNCHANGED <<drv, rtdHw, resets, tainted>>

Deselect ==
    /\ pc = "clear"
    /\ Selected(None)
    /\ NextChip
    /\ UNCHANGED <<drv, rtdHw, resets, faults, tainted>>

DeselectFails ==
    /\ pc = "clear"
    /\ I2cFails
    /\ Selected(None) \/ Selected(sel)
    /\ NextChip
    /\ UNCHANGED <<drv, rtdHw, resets, tainted>>

-----------------------------------------------------------------------------
(* bcm2835_spi_transfer_one and its polling loop.                           *)

transfer_one ==
    /\ pc = "start"
    /\ tx_len' = Size[kind] /\ rx_len' = Size[kind]
    /\ TA' = TRUE
    /\ pc' = "fill"
    /\ UNCHANGED <<rtdCall, buf, sel, tx, rx, chips, late, resets, faults, hist>>

WrOverrun ==                \* mutant: room in the FIFO is not looked at
    /\ pc = "fill" /\ tx_len > 0
    /\ tx' = Append(tx, Byte(kind, Size[kind] - tx_len + 1))
    /\ tx_len' = tx_len - 1
    /\ UNCHANGED <<pc, rtdCall, rx_len, buf, sel, TA, rx, chips, late, resets, faults,
                   hist>>

wr_fifo ==
    /\ pc = "fill" /\ tx_len > 0 /\ Len(tx) < Depth
    /\ tx' = Append(tx, Byte(kind, Size[kind] - tx_len + 1))
    /\ tx_len' = tx_len - 1
    /\ UNCHANGED <<pc, rtdCall, rx_len, buf, sel, TA, rx, chips, late, resets, faults,
                   hist>>

Filled ==
    /\ pc = "fill" /\ (tx_len = 0 \/ Len(tx) = Depth)
    /\ pc' = "drain"
    /\ UNCHANGED <<rtdCall, drv, sel, rtdHw, chips, late, resets, faults, hist>>

(* The answers to a configuration go to a buffer nobody reads.              *)
rd_fifo ==
    /\ pc = "drain" /\ rx_len > 0 /\ rx # <<>>
    /\ buf' = IF kind = "read"
              THEN [buf EXCEPT ![chip][ReadLen - rx_len + 1] =
                      IF Head(rx) = [chip |-> chip, at |-> ReadLen - rx_len + 1]
                      THEN "right" ELSE "wrong"]
              ELSE buf
    /\ rx' = Tail(rx)
    /\ rx_len' = rx_len - 1
    /\ UNCHANGED <<pc, rtdCall, tx_len, sel, TA, tx, chips, late, resets, faults, hist>>

RtdKeepPolling ==
    /\ pc = "drain" /\ rx_len > 0 /\ rx = <<>> /\ ~late
    /\ pc' = "fill"
    /\ UNCHANGED <<rtdCall, drv, sel, rtdHw, chips, late, resets, faults, hist>>

WaitOn ==                   \* mutant: the clock is not looked at
    /\ pc = "drain" /\ rx_len > 0 /\ rx = <<>> /\ late
    /\ pc' = "fill"
    /\ UNCHANGED <<rtdCall, drv, sel, rtdHw, chips, late, resets, faults, hist>>

(* The timeout: read_rtd counts an error and leaves the chip selected, the  *)
(* driver leaves the controller as it is.                                   *)
RtdGiveUp ==
    /\ pc = "drain" /\ rx_len > 0 /\ rx = <<>> /\ late
    /\ NextChip
    /\ UNCHANGED <<drv, sel, rtdHw, chips, resets, faults, tainted>>

CompleteDirty ==            \* mutant: the FIFOs are not cleared
    /\ pc = "drain" /\ rx_len = 0
    /\ TA' = FALSE /\ UNCHANGED <<tx, rx>>
    /\ tainted' = IF spoiled \/ kind = "conf" THEN tainted ELSE tainted \ {chip}
    /\ pc' = "clear"
    /\ UNCHANGED <<rtdCall, drv, sel, chips, late, resets, faults, spoiled>>

(* The end of the loop: bcm2835_spi_reset_hw.                               *)
Complete ==
    /\ pc = "drain" /\ rx_len = 0
    /\ TA' = FALSE /\ tx' = <<>> /\ rx' = <<>>
    /\ tainted' = IF spoiled \/ kind = "conf" THEN tainted ELSE tainted \ {chip}
    /\ pc' = "clear"
    /\ UNCHANGED <<rtdCall, drv, sel, chips, late, resets, faults, spoiled>>

Driver ==
    \/ Select \/ SelectFails \/ transfer_one
    \/ wr_fifo \/ Filled \/ rd_fifo \/ RtdKeepPolling \/ RtdGiveUp \/ Complete
    \/ Deselect \/ DeselectFails

-----------------------------------------------------------------------------
(* The clock, and the controller with the chip that is selected.  It stops  *)
(* while the receive FIFO is full.  The first byte of a frame is an         *)
(* address, and the second goes to the register it names.                   *)

RtdJiffies ==
    /\ pc \in {"fill", "drain"} /\ ~late
    /\ late' = TRUE
    /\ UNCHANGED <<pc, rtdCall, drv, sel, rtdHw, chips, resets, faults, hist>>

Shift ==
    /\ TA /\ tx # <<>> /\ Len(rx) < Depth
    /\ tx' = Tail(tx)
    /\ pos' = IF sel = None \/ pos > ReadLen THEN pos ELSE pos + 1
    /\ rx' = Append(rx, IF sel = None THEN [chip |-> None, at |-> 0]
                                      ELSE [chip |-> sel, at |-> pos'])
    /\ addressed' = IF pos = 0 THEN Head(tx) = "addr"
                               ELSE addressed
    /\ conf' = IF sel # None /\ pos = 1 /\ addressed
               THEN [conf EXCEPT ![sel] = IF Head(tx) = "value" THEN "set" ELSE "wrong"]
               ELSE conf
    /\ UNCHANGED <<pc, rtdCall, drv, sel, TA, late, resets, faults, hist>>

RtdNext == read_rtd \/ cfg_rtd_chips \/ Driver \/ RtdJiffies \/ Shift

RtdSafeSpec == RtdInit /\ [][RtdNext]_rtdVars

(* The slow timer expires again and again, a call that has begun goes on,   *)
(* and jiffies goes on; nothing is assumed of the controller.               *)
RtdSpec == RtdSafeSpec /\ WF_rtdVars(read_rtd \/ Driver) /\ WF_rtdVars(RtdJiffies)

-----------------------------------------------------------------------------
(* Properties.                                                              *)

(* rx_rtdbuf may be copied to a user at any time, also while a transfer     *)
(* fills it.  A byte of it is of its own chip and in its own place, though  *)
(* perhaps of an older reading than its neighbours; only a transfer that    *)
(* began after a timeout that none has made good since, or on a chip that a *)
(* failed deselect had left selected, may spoil the buffer, and its next    *)
(* unspoiled read makes it good.  An unspoiled transfer that returns 0 has  *)
(* filled its buffer, or configured its chip.                               *)
OwnBytes ==
    /\ \A n \in Chip \ tainted : \A i \in 1..ReadLen : buf[n][i] # "wrong"
    /\ pc = "clear" /\ ~spoiled =>
         IF kind = "read" THEN \A i \in 1..ReadLen : buf[chip][i] = "right"
                          ELSE conf[chip] = "set"

(* Every read returns, even if the controller stops for good.  And failures *)
(* leave no lasting harm: if from some time on no transfer times out and    *)
(* the controller works, all buffers end up right and stay so.              *)
ReadsRecover ==
    /\ pc # "idle" ~> pc = "idle"
    /\ <>[](~late) /\ WF_rtdVars(Shift)
         => <>[](\A n \in Chip : \A i \in 1..ReadLen : buf[n][i] = "right")
=============================================================================
