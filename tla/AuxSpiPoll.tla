----------------------------- MODULE AuxSpiPoll -----------------------------
(***************************************************************************)
(* The counters' bus: read_spi1 of data_getter on the polling transfer of   *)
(* the auxiliary SPI driver.                                                *)
(*                                                                          *)
(* A transfer moves Words words (three bytes each; rx_ctrbuf is seven of    *)
(* them).  The driver polls: it reads the status register once per turn of  *)
(* its loop and then writes a word, or reads one, or looks at the clock.    *)
(* The controller shifts words meanwhile, through two FIFOs of Depth words; *)
(* nothing empties these between transfers.                                 *)
(*                                                                          *)
(* A word is named by its place in the transfer that wrote it and by that   *)
(* transfer, of which the parity is enough; the chip's answer by the place  *)
(* of the word it answers and the transfer during which it was made.        *)
(***************************************************************************)
EXTENDS SpiPoll

CONSTANTS
    Words,          \* words of a transfer
    Junk            \* what an empty FIFO reads as

ASSUME SizeAssumption == Words \in Nat \ {0}

Place == 1..Words
Word  == [xfer : {0, 1}, at : Place]

ASSUME NameAssumption == None \notin Word /\ Junk \notin Word

VARIABLES
    stat,           \* the status register as last read
    cs,             \* the chip select of the counter chip
    result,         \* what the last transfer returned
    xfer,           \* parity of the number of the current or last transfer
    shifter,        \* the word on the wires
    dirty           \* history: a transfer timed out, or a word was lost

auxCall == <<pc, stat, tx_len, rx_len, buf, cs, result, xfer>>
auxHw   == <<tx, rx, shifter>>
auxVars == <<auxCall, auxHw, late, dirty>>

Status == [full : BOOLEAN, empty : BOOLEAN, busy : BOOLEAN]

AuxTypeOK ==
    /\ pc \in {"idle", "status", "act"}
    /\ stat \in Status
    /\ tx_len \in 0..Words /\ rx_len \in 0..Words
    /\ buf \in [Place -> Word \cup {None, Junk}]
    /\ cs \in BOOLEAN
    /\ result \in {"none", "ok", "failed"}
    /\ xfer \in {0, 1}
    /\ late \in BOOLEAN
    /\ tx \in Seq(Word) /\ Len(tx) <= Depth
    /\ rx \in Seq(Word) /\ Len(rx) <= Depth
    /\ shifter \in Word \cup {None}
    /\ dirty \in BOOLEAN

AuxInit ==
    /\ pc = "idle"
    /\ stat = [full |-> FALSE, empty |-> TRUE, busy |-> FALSE]
    /\ tx_len = 0 /\ rx_len = 0
    /\ buf = [i \in Place |-> None]
    /\ cs = FALSE
    /\ result = "none"
    /\ xfer = 0
    /\ late = FALSE
    /\ tx = <<>> /\ rx = <<>> /\ shifter = None
    /\ dirty = FALSE

-----------------------------------------------------------------------------
(* The driver.                                                              *)

(* read_spi1: the control registers are written, the FIFOs left as they     *)
(* are, the lengths set, the chip selected and the timeout taken.           *)
Begin ==
    /\ pc = "idle"
    /\ xfer' = 1 - xfer
    /\ tx_len' = Words /\ rx_len' = Words
    /\ cs' = TRUE
    /\ late' = FALSE
    /\ pc' = "status"
    /\ UNCHANGED <<stat, buf, result, auxHw, dirty>>

ReadStatus ==
    /\ pc = "status" /\ rx_len > 0
    /\ stat' = [full  |-> Len(tx) = Depth,
                empty |-> rx = <<>>,
                busy  |-> tx # <<>> \/ shifter # None]
    /\ pc' = "act"
    /\ UNCHANGED <<tx_len, rx_len, buf, cs, result, xfer, auxHw, late, dirty>>

MayWrite == tx_len > 0 /\ ~stat.full

ReadAlways == ~stat.empty \/ tx_len = 0     \* mutant: does not wait for a word

MayRead == ~stat.empty \/ ~stat.busy

bcm2835aux_wr_fifo ==
    /\ pc = "act" /\ MayWrite
    /\ tx' = Append(tx, [xfer |-> xfer, at |-> Words - tx_len + 1])
    /\ tx_len' = tx_len - 1
    /\ pc' = "status"
    /\ UNCHANGED <<stat, rx_len, buf, cs, result, xfer, rx, shifter, late, dirty>>

(* The word read goes to the next place of the buffer, whatever transfer    *)
(* it is of; an idle controller is read even if its FIFO is empty.          *)
bcm2835aux_rd_fifo ==
    /\ pc = "act" /\ ~MayWrite /\ MayRead
    /\ buf' = [buf EXCEPT ![Words - rx_len + 1] = IF rx = <<>> THEN Junk ELSE Head(rx)]
    /\ rx' = IF rx = <<>> THEN rx ELSE Tail(rx)
    /\ rx_len' = rx_len - 1
    /\ pc' = "status"
    /\ UNCHANGED <<stat, tx_len, cs, result, xfer, tx, shifter, late, dirty>>

NeverGiveUp == FALSE        \* mutant: the clock is not looked at

MustGiveUp == late

AuxKeepPolling ==
    /\ pc = "act" /\ ~MayWrite /\ ~MayRead /\ ~MustGiveUp
    /\ pc' = "status"
    /\ UNCHANGED <<stat, tx_len, rx_len, buf, cs, result, xfer, auxHw, late, dirty>>

(* The timeout leaves the chip selected and the controller at work.         *)
AuxGiveUp ==
    /\ pc = "act" /\ ~MayWrite /\ ~MayRead /\ MustGiveUp
    /\ result' = "failed"
    /\ dirty' = TRUE
    /\ pc' = "idle"
    /\ UNCHANGED <<stat, tx_len, rx_len, buf, cs, xfer, auxHw, late>>

DoneEarly ==                \* mutant: the last word is left in the controller
    /\ pc = "status" /\ rx_len <= 1
    /\ cs' = FALSE
    /\ result' = "ok"
    /\ pc' = "idle"
    /\ UNCHANGED <<stat, tx_len, rx_len, buf, xfer, auxHw, late, dirty>>

Done ==
    /\ pc = "status" /\ rx_len = 0
    /\ cs' = FALSE
    /\ result' = "ok"
    /\ pc' = "idle"
    /\ UNCHANGED <<stat, tx_len, rx_len, buf, xfer, auxHw, late, dirty>>

Poll == \/ ReadStatus \/ bcm2835aux_wr_fifo \/ bcm2835aux_rd_fifo
        \/ AuxKeepPolling \/ AuxGiveUp \/ Done

-----------------------------------------------------------------------------
(* The clock and the controller.  They go on while the driver is preempted; *)
(* a word that meets a full FIFO is lost.                                   *)

AuxJiffies ==
    /\ pc # "idle" /\ ~late
    /\ late' = TRUE
    /\ UNCHANGED <<auxCall, auxHw, dirty>>

Load ==
    /\ shifter = None /\ tx # <<>>
    /\ shifter' = [xfer |-> xfer, at |-> Head(tx).at] /\ tx' = Tail(tx)
    /\ UNCHANGED <<auxCall, rx, late, dirty>>

Store ==
    /\ shifter # None /\ Len(rx) < Depth
    /\ rx' = Append(rx, shifter) /\ shifter' = None
    /\ UNCHANGED <<auxCall, tx, late, dirty>>

Lose ==
    /\ shifter # None /\ Len(rx) = Depth
    /\ shifter' = None
    /\ dirty' = TRUE
    /\ UNCHANGED <<auxCall, tx, rx, late>>

AuxNext == Begin \/ Poll \/ AuxJiffies \/ Load \/ Store \/ Lose

AuxSafeSpec == AuxInit /\ [][AuxNext]_auxVars

(* The loop is never left alone and jiffies goes on; nothing is assumed of  *)
(* the controller, which may hang.                                          *)
AuxSpec == AuxSafeSpec /\ WF_auxVars(Poll) /\ WF_auxVars(AuxJiffies)

-----------------------------------------------------------------------------
(* Properties.                                                              *)

Own == buf = [i \in Place |-> [xfer |-> xfer, at |-> i]]

(* As long as no transfer has timed out and no word was lost, a transfer    *)
(* that returns 0 has filled the buffer with its own words in order, at     *)
(* whatever speed loop and controller run: no word is read twice, skipped   *)
(* or read from an empty FIFO.                                              *)
OwnWords == pc = "idle" /\ result = "ok" /\ ~dirty => Own

(* In the same histories every word goes over the wires while the counter   *)
(* chip is selected: the select is not dropped over words that are still in *)
(* the controller.                                                          *)
WordsAreFramed == [][shifter' \notin {shifter, None} => cs \/ dirty]_auxVars

(* Every transfer returns, even if the controller stops for good: the turns *)
(* of the loop that skip the clock are finitely many.                       *)
EveryTransferReturns == pc # "idle" ~> pc = "idle"
=============================================================================
