------------------------------ MODULE SpiPoll ------------------------------
(***************************************************************************)
(* What the polling transfers of the two SPI drivers (RtdSpi on SPI0,       *)
(* AuxSpiPoll on SPI1) have in common: a loop that fills and drains two     *)
(* FIFOs while the controller works on them, the lengths still to be        *)
(* written and read, and a clock that is looked at when nothing can be      *)
(* done.  Each driver has its own, of bytes or of words; no model has both. *)
(***************************************************************************)
EXTENDS Naturals, Sequences

CONSTANTS
    Depth,          \* bytes or words in a FIFO of the controller
    None            \* no chip, no word

ASSUME DepthAssumption == Depth \in Nat \ {0}

VARIABLES
    pc,             \* where the polling loop is
    tx_len, rx_len, \* bs->tx_len, bs->rx_len
    buf,            \* where the answers go: rx_rtdbuf, rx_ctrbuf
    tx, rx,         \* the FIFOs
    late            \* jiffies has passed the timeout of this transfer
=============================================================================
