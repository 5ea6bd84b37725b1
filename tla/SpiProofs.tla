------------------------------ MODULE SpiProofs ------------------------------
(***************************************************************************)
(* The polling transfers of the two SPI drivers.                            *)
(*                                                                          *)
(* RtdSpi, for any number of chips, length of a reading and depth of the    *)
(* FIFOs: a byte of a temperature buffer is of its own chip and in its own  *)
(* place, unless the chip is tainted; a transfer that returns 0 and began   *)
(* on no leftovers has filled its buffer or configured its chip.  The       *)
(* invariant behind it: in such a transfer the bytes read, those in the     *)
(* receive FIFO and those in the transmit FIFO are the frame of the chip in *)
(* order, and only a transfer that timed out leaves the controller active.  *)
(*                                                                          *)
(* AuxSpiPoll, for any length of a transfer and depth of the FIFOs: as long *)
(* as no transfer has timed out and no word was lost, a transfer that       *)
(* returns 0 has its own words in order, and each was on the wires under    *)
(* the chip select.  The invariant behind both: the words written and not   *)
(* yet read lie in the receive FIFO, the shifter and the transmit FIFO, in  *)
(* this order.                                                              *)
(*                                                                          *)
(* The two modules share the names that SpiPoll declares; no theorem is     *)
(* about both drivers.                                                      *)
(***************************************************************************)
EXTENDS RtdSpi, AuxSpiPoll, TLAPS

-----------------------------------------------------------------------------
(* The temperature bus.                                                     *)

Busy == pc \in {"fill", "drain"}

(* Bytes of the transfer, those read so far, and a byte of the chip.        *)
Length == Size[kind]
Got == Length - rx_len
Frame(i) == [chip |-> chip, at |-> i]

(* Only a transfer that timed out leaves the controller active between two  *)
(* transfers; one that is not active is empty.                              *)
Engine ==
    /\ ~TA => tx = <<>> /\ rx = <<>>
    /\ Busy => TA
    /\ pc = "clear" => ~TA

(* The chip of the call stays selected; what a transfer on leftovers fills  *)
(* is tainted, and any other starts at the beginning of a frame.            *)
Selection ==
    /\ pc \in {"start", "fill", "drain", "clear"} => sel = chip
    /\ pc \in {"idle", "select"} => ~spoiled
    /\ spoiled /\ kind = "read" => chip \in tainted
    /\ Busy => tx_len <= Length /\ rx_len <= Length
    /\ pc = "start" /\ ~spoiled => ~TA /\ pos = 0

(* The bytes written and not yet read, in a transfer that is not spoiled:   *)
(* the receive FIFO holds the answers to the first, the transmit FIFO the   *)
(* others.                                                                  *)
BytesPipeline ==
    /\ Len(tx) + Len(rx) = rx_len - tx_len
    /\ pos = Got + Len(rx)
    /\ \A i \in 1..Len(rx) : rx[i] = Frame(Got + i)
    /\ \A i \in 1..Len(tx) : tx[i] = Byte(kind, pos + i)

(* What such a transfer has achieved so far.                                *)
Effect ==
    IF kind = "read"
    THEN \A i \in 1..ReadLen : i <= Got => buf[chip][i] = "right"
    ELSE /\ pos >= 1 => addressed
         /\ pos = 2 => conf[chip] = "set"

BytesClean == Busy /\ ~spoiled => BytesPipeline /\ Effect

RtdInv == RtdTypeOK /\ Engine /\ Selection /\ BytesClean /\ OwnBytes

-----------------------------------------------------------------------------
LEMMA Sizes ==
    /\ NumRtds \in Nat \ {0} /\ ReadLen \in Nat \ {0} /\ Depth \in Nat
    /\ ConfLen = 2 /\ Size["read"] = ReadLen /\ Size["conf"] = 2
    /\ \A k \in Kind : Size[k] \in 1..(ReadLen + 1) /\ Size[k] <= Depth
    /\ \A k \in Kind, i \in Nat : Byte(k, i) \in Sent
    /\ None \notin Chip /\ None # 1
  BY RtdAssumption, DepthAssumption DEF ConfLen, Size, Kind, Byte, Sent, Chip

(* What a queue is after a byte has joined it, and after one has left.      *)
LEMMA Joined ==
  ASSUME NEW S, NEW q \in Seq(S), NEW e \in S
  PROVE  /\ Append(q, e) \in Seq(S) /\ Len(Append(q, e)) = Len(q) + 1
         /\ \A i \in 1..Len(q) : Append(q, e)[i] = q[i]
         /\ Append(q, e)[Len(q) + 1] = e
         /\ Append(q, e) # <<>>
  OBVIOUS

LEMMA LeftOver ==
  ASSUME NEW S, NEW q \in Seq(S), q # <<>>
  PROVE  /\ Tail(q) \in Seq(S) /\ Len(Tail(q)) = Len(q) - 1 /\ Len(q) >= 1
         /\ \A i \in 1..Len(Tail(q)) : i + 1 \in 1..Len(q) /\ Tail(q)[i] = q[i + 1]
         /\ Head(q) = q[1] /\ Head(q) \in S
  OBVIOUS

-----------------------------------------------------------------------------
LEMMA RtdInitInv == RtdInit => RtdInv
  <1> SUFFICES ASSUME RtdInit PROVE RtdInv
    OBVIOUS
  <1>1. 1 \in Chip /\ NumRtds \in Chip
    BY Sizes DEF Chip
  <1>2. RtdTypeOK
    <2>1. buf \in [Chip -> [1..ReadLen -> Stored]]
      BY DEF RtdInit, Stored
    <2>2. conf \in [Chip -> {"unset", "set", "wrong"}]
      BY DEF RtdInit
    <2>3. /\ tx \in Seq(Sent) /\ Len(tx) <= Depth
          /\ rx \in Seq(Answer) /\ Len(rx) <= Depth
      BY Sizes DEF RtdInit
    <2>4. /\ resets \in 0..MaxResets /\ faults \in 0..MaxFaults
          /\ tx_len \in 0..(ReadLen + ConfLen) /\ rx_len \in 0..(ReadLen + ConfLen)
          /\ pos \in 0..(ReadLen + 1)
      BY Sizes, RtdAssumption DEF RtdInit
    <2> QED  BY <1>1, <2>1, <2>2, <2>3, <2>4 DEF RtdInit, RtdTypeOK, Kind
  <1>3. Engine /\ Selection /\ BytesClean
    BY DEF RtdInit, Engine, Selection, BytesClean, Busy
  <1>4. OwnBytes
    BY DEF RtdInit, OwnBytes
  <1> QED  BY <1>2, <1>3, <1>4 DEF RtdInv

-----------------------------------------------------------------------------
(* The parts of the steps the cases share.                                  *)
LEMMA SelectedType ==
  ASSUME RtdTypeOK, NEW n \in Chip \cup {None}, Selected(n)
  PROVE  /\ sel' \in Chip \cup {None} /\ pos' \in 0..(ReadLen + 1)
         /\ addressed' \in BOOLEAN /\ conf' = conf
  <1>1. CASE n = sel
    BY <1>1 DEF RtdTypeOK, Selected, chips
  <1>2. CASE n # sel
    <2>1. 0 \in 0..(ReadLen + 1)
      BY Sizes
    <2> QED  BY <1>2, <2>1 DEF RtdTypeOK, Selected
  <1> QED  BY <1>1, <1>2

LEMMA NextChipType ==
  ASSUME RtdTypeOK, NextChip
  PROVE  /\ kind' = kind /\ chip' \in Chip /\ turn' = turn
         /\ pc' \in {"idle", "select"} /\ late' = FALSE /\ spoiled' = FALSE
  BY Sizes DEF RtdTypeOK, NextChip, Chip

LEMMA RtdTypeNext == RtdInv /\ [RtdNext]_rtdVars => RtdTypeOK'
  <1> SUFFICES ASSUME RtdInv, [RtdNext]_rtdVars PROVE RtdTypeOK'
    OBVIOUS
  <1>0. RtdTypeOK
    BY DEF RtdInv
  <1> USE DEF RtdTypeOK
  <1>1. CASE read_rtd
    <2>1. turn' \in Chip
      BY <1>0, <1>1, Sizes DEF read_rtd, Chip
    <2> QED  BY <1>0, <1>1, <2>1 DEF read_rtd, Kind, drv, rtdHw, chips, hist
  <1>2. CASE cfg_rtd_chips
    <2>1. 1 \in Chip /\ resets' \in 0..MaxResets
      BY <1>0, <1>2, Sizes, RtdAssumption DEF cfg_rtd_chips, Chip
    <2> QED  BY <1>0, <1>2, <2>1 DEF cfg_rtd_chips, Kind, drv, rtdHw, chips, hist
  <1>3. CASE Select
    <2>1. /\ sel' \in Chip \cup {None} /\ pos' \in 0..(ReadLen + 1)
          /\ addressed' \in BOOLEAN /\ conf' = conf
      BY <1>0, <1>3, SelectedType DEF Select
    <2>2. tainted' \subseteq Chip /\ spoiled' \in BOOLEAN
      BY <1>0, <1>3 DEF Select
    <2> QED  BY <1>0, <1>3, <2>1, <2>2 DEF Select, rtdCall, drv, rtdHw
  <1>4. CASE SelectFails \/ DeselectFails
    <2>1. /\ sel' \in Chip \cup {None} /\ pos' \in 0..(ReadLen + 1)
          /\ addressed' \in BOOLEAN /\ conf' = conf
      BY <1>0, <1>4, SelectedType DEF SelectFails, DeselectFails
    <2>2. faults' \in 0..MaxFaults
      BY <1>0, <1>4, RtdAssumption DEF SelectFails, DeselectFails, I2cFails
    <2> QED  BY <1>0, <1>4, <2>1, <2>2, NextChipType
             DEF SelectFails, DeselectFails, drv, rtdHw
  <1>5. CASE Deselect
    <2>1. /\ sel' \in Chip \cup {None} /\ pos' \in 0..(ReadLen + 1)
          /\ addressed' \in BOOLEAN /\ conf' = conf
      BY <1>0, <1>5, SelectedType DEF Deselect
    <2> QED  BY <1>0, <1>5, <2>1, NextChipType DEF Deselect, drv, rtdHw
  <1>6. CASE transfer_one
    <2>1. tx_len' \in 0..(ReadLen + ConfLen) /\ rx_len' \in 0..(ReadLen + ConfLen)
      <3>1. Size[kind] \in 1..(ReadLen + 1) /\ ConfLen = 2 /\ ReadLen \in Nat
        BY <1>0, Sizes
      <3>2. tx_len' = Size[kind] /\ rx_len' = Size[kind]
        BY <1>6 DEF transfer_one
      <3> HIDE DEF RtdTypeOK
      <3> QED  BY <3>1, <3>2
    <2> QED  BY <1>0, <1>6, <2>1 DEF transfer_one, rtdCall, chips, hist
  <1>7. CASE wr_fifo
    <2>1. Size[kind] - tx_len + 1 \in Nat
      BY <1>0, <1>7, Sizes DEF wr_fifo, RtdInv, Selection, Busy, Length
    <2>2. Byte(kind, Size[kind] - tx_len + 1) \in Sent
      BY <1>0, <2>1, Sizes
    <2>3. tx' \in Seq(Sent) /\ Len(tx') <= Depth
      BY <1>0, <1>7, <2>2, Sizes, Joined DEF wr_fifo
    <2>4. tx_len' \in 0..(ReadLen + ConfLen)
      BY <1>0, <1>7, Sizes DEF wr_fifo
    <2> QED  BY <1>0, <1>7, <2>3, <2>4 DEF wr_fifo, rtdCall, chips, hist
  <1>8. CASE rd_fifo
    <2>1. rx' \in Seq(Answer) /\ Len(rx') <= Depth
      <3>1. Tail(rx) \in Seq(Answer) /\ Len(Tail(rx)) = Len(rx) - 1
        BY <1>0, <1>8, LeftOver DEF rd_fifo
      <3> QED  BY <1>0, <1>8, <3>1, Sizes DEF rd_fifo
    <2>2. buf' \in [Chip -> [1..ReadLen -> Stored]]
      BY <1>0, <1>8 DEF rd_fifo, Stored
    <2>3. rx_len' \in 0..(ReadLen + ConfLen)
      BY <1>0, <1>8, Sizes DEF rd_fifo
    <2> QED  BY <1>0, <1>8, <2>1, <2>2, <2>3 DEF rd_fifo, rtdCall, chips, hist
  <1>9. CASE Filled \/ RtdKeepPolling
    BY <1>0, <1>9 DEF Filled, RtdKeepPolling, rtdCall, drv, rtdHw, chips, hist
  <1>10. CASE RtdGiveUp
    BY <1>0, <1>10, NextChipType DEF RtdGiveUp, drv, rtdHw, chips
  <1>11. CASE Complete
    <2>1. tainted' \subseteq Chip
      BY <1>0, <1>11 DEF Complete
    <2>2. /\ tx' \in Seq(Sent) /\ Len(tx') <= Depth
          /\ rx' \in Seq(Answer) /\ Len(rx') <= Depth
      BY <1>11, Sizes DEF Complete
    <2> QED  BY <1>0, <1>11, <2>1, <2>2 DEF Complete, rtdCall, drv, chips
  <1>12. CASE RtdJiffies
    BY <1>0, <1>12 DEF RtdJiffies, rtdCall, drv, rtdHw, chips, hist
  <1>13. CASE Shift
    <2>1. /\ Tail(tx) \in Seq(Sent) /\ Len(Tail(tx)) = Len(tx) - 1
          /\ Head(tx) \in Sent
      BY <1>0, <1>13, LeftOver DEF Shift
    <2>2. pos' \in 0..(ReadLen + 1)
      BY <1>0, <1>13, Sizes DEF Shift
    <2>3. rx' \in Seq(Answer) /\ Len(rx') <= Depth
      <3> DEFINE e == IF sel = None THEN [chip |-> None, at |-> 0]
                                    ELSE [chip |-> sel, at |-> pos']
      <3>1. e \in Answer
        BY <1>0, <2>2, Sizes DEF Answer
      <3>2. rx' = Append(rx, e)
        BY <1>13 DEF Shift
      <3> QED  BY <1>0, <1>13, <3>1, <3>2, Sizes, Joined DEF Shift
    <2>4. addressed' \in BOOLEAN
      BY <1>0, <1>13 DEF Shift
    <2>5. conf' \in [Chip -> {"unset", "set", "wrong"}]
      BY <1>0, <1>13 DEF Shift
    <2>6. tx' \in Seq(Sent) /\ Len(tx') <= Depth
      BY <1>0, <1>13, <2>1, Sizes DEF Shift
    <2> QED  BY <1>0, <1>13, <2>2, <2>3, <2>4, <2>5, <2>6 DEF Shift, rtdCall, drv, hist
  <1>14. CASE UNCHANGED rtdVars
    BY <1>0, <1>14 DEF rtdVars, rtdCall, drv, rtdHw, chips, hist
  <1> QED  BY <1>1, <1>2, <1>3, <1>4, <1>5, <1>6, <1>7, <1>8, <1>9, <1>10, <1>11, <1>12,
              <1>13, <1>14 DEF RtdNext, Driver

-----------------------------------------------------------------------------
LEMMA EngineNext == RtdInv /\ [RtdNext]_rtdVars => Engine'
  <1> SUFFICES ASSUME RtdInv, [RtdNext]_rtdVars PROVE Engine'
    OBVIOUS
  <1>0. Engine
    BY DEF RtdInv
  <1> USE DEF Engine, Busy
  <1>1. CASE read_rtd \/ cfg_rtd_chips \/ Filled \/ RtdKeepPolling \/ RtdJiffies
    BY <1>0, <1>1 DEF read_rtd, cfg_rtd_chips, Filled, RtdKeepPolling, RtdJiffies, rtdHw
  <1>2. CASE Select
    BY <1>0, <1>2 DEF Select, rtdHw
  <1>3. CASE SelectFails \/ Deselect \/ DeselectFails \/ RtdGiveUp
    BY <1>0, <1>3 DEF SelectFails, Deselect, DeselectFails, RtdGiveUp, NextChip, rtdHw
  <1>4. CASE transfer_one
    BY <1>0, <1>4 DEF transfer_one
  <1>5. CASE wr_fifo
    BY <1>0, <1>5 DEF wr_fifo
  <1>6. CASE rd_fifo
    BY <1>0, <1>6 DEF rd_fifo
  <1>7. CASE Complete
    BY <1>7 DEF Complete
  <1>8. CASE Shift
    BY <1>0, <1>8 DEF Shift
  <1>9. CASE UNCHANGED rtdVars
    BY <1>0, <1>9 DEF rtdVars, rtdHw
  <1> QED  BY <1>1, <1>2, <1>3, <1>4, <1>5, <1>6, <1>7, <1>8, <1>9 DEF RtdNext, Driver

LEMMA SelectionNext == RtdInv /\ [RtdNext]_rtdVars => Selection'
  <1> SUFFICES ASSUME RtdInv, [RtdNext]_rtdVars PROVE Selection'
    OBVIOUS
  <1>0. Selection /\ RtdTypeOK
    BY DEF RtdInv
  <1>a. kind \in Kind /\ chip \in Chip /\ spoiled \in BOOLEAN
    BY <1>0 DEF RtdTypeOK
  <1> USE DEF Selection, Busy, Length
  <1>1. CASE read_rtd
    BY <1>0, <1>a, <1>1 DEF read_rtd, hist
  <1>2. CASE cfg_rtd_chips
    BY <1>0, <1>a, <1>2 DEF cfg_rtd_chips, hist
  <1>3. CASE Select
    <2>1. sel' = chip /\ UNCHANGED rtdCall /\ TA' = TA /\ pc' = "start"
      BY <1>3 DEF Select, Selected, rtdHw
    <2>2. ~spoiled' => ~TA /\ pos' = 0
      BY <1>a, <1>3 DEF Select, Selected
    <2>3. spoiled' /\ kind = "read" => chip \in tainted'
      BY <1>3 DEF Select
    <2> QED  BY <2>1, <2>2, <2>3 DEF rtdCall
  <1>4. CASE SelectFails \/ Deselect \/ DeselectFails \/ RtdGiveUp
    <2>1. NextChip
      BY <1>4 DEF SelectFails, Deselect, DeselectFails, RtdGiveUp
    <2> QED  BY <2>1 DEF NextChip
  <1>5. CASE transfer_one
    <2>1. /\ UNCHANGED <<rtdCall, sel, hist>> /\ pc' = "fill" /\ pc = "start"
          /\ tx_len' = Size[kind] /\ rx_len' = Size[kind]
      BY <1>5 DEF transfer_one
    <2>2. Size[kind] \in Nat
      BY <1>a, Sizes
    <2> QED  BY <1>0, <2>1, <2>2 DEF rtdCall, hist
  <1>6. CASE wr_fifo
    <2>1. tx_len' <= Size[kind]
      BY <1>0, <1>a, <1>6, Sizes DEF wr_fifo, RtdTypeOK
    <2> QED  BY <1>0, <1>6, <2>1 DEF wr_fifo, rtdCall, hist
  <1>7. CASE rd_fifo
    <2>1. rx_len' <= Size[kind]
      BY <1>0, <1>a, <1>7, Sizes DEF rd_fifo, RtdTypeOK
    <2> QED  BY <1>0, <1>7, <2>1 DEF rd_fifo, rtdCall, hist
  <1>8. CASE Filled \/ RtdKeepPolling
    BY <1>0, <1>8 DEF Filled, RtdKeepPolling, rtdCall, drv, hist
  <1>9. CASE Complete
    BY <1>0, <1>9 DEF Complete, rtdCall, chips
  <1>10. CASE RtdJiffies
    BY <1>0, <1>10 DEF RtdJiffies, rtdCall, drv, rtdHw, chips, hist
  <1>11. CASE Shift
    <2>1. pc = "start" => spoiled
      BY <1>0, <1>a, <1>11 DEF Shift
    <2> QED  BY <1>0, <1>11, <2>1 DEF Shift, rtdCall, drv, hist
  <1>12. CASE UNCHANGED rtdVars
    BY <1>0, <1>12 DEF rtdVars, rtdCall, drv, rtdHw, chips, hist
  <1> QED  BY <1>1, <1>2, <1>3, <1>4, <1>5, <1>6, <1>7, <1>8, <1>9, <1>10, <1>11, <1>12
           DEF RtdNext, Driver

-----------------------------------------------------------------------------
(* The transfer under way.                                                  *)
LEMMA BytesCleanNext == RtdInv /\ [RtdNext]_rtdVars => BytesClean'
  <1> SUFFICES ASSUME RtdInv, [RtdNext]_rtdVars, Busy', ~spoiled'
               PROVE  BytesPipeline' /\ Effect'
    BY DEF BytesClean
  <1>0. RtdTypeOK /\ Engine /\ Selection /\ BytesClean
    BY DEF RtdInv
  <1>a. /\ kind \in Kind /\ chip \in Chip
        /\ tx \in Seq(Sent) /\ rx \in Seq(Answer)
        /\ buf \in [Chip -> [1..ReadLen -> Stored]]
        /\ conf \in [Chip -> {"unset", "set", "wrong"}]
        /\ tx_len \in Nat /\ rx_len \in Nat /\ pos \in Nat
    BY <1>0, Sizes DEF RtdTypeOK
  <1>b. Length \in 1..(ReadLen + 1) /\ ReadLen \in Nat \ {0}
        /\ (kind = "read" => Length = ReadLen) /\ (kind = "conf" => Length = 2)
    BY <1>a, Sizes DEF Length
  <1>c. Busy /\ ~spoiled => BytesPipeline /\ Effect
    BY <1>0 DEF BytesClean
  <1>d. /\ Len(tx) \in Nat /\ Len(rx) \in Nat /\ tx_len \in Nat /\ rx_len \in Nat
        /\ pos \in Nat /\ Length \in Nat
    BY <1>a, <1>b
  <1>e. Busy => rx_len <= Length /\ tx_len <= Length
    BY <1>0 DEF Selection
  <1>f. Busy /\ BytesPipeline => /\ Len(tx) + Len(rx) + tx_len = rx_len
                            /\ pos + Len(tx) + tx_len = Length
    <2> SUFFICES ASSUME Busy, BytesPipeline
                 PROVE  /\ Len(tx) + Len(rx) + tx_len = rx_len
                        /\ pos + Len(tx) + tx_len = Length
      OBVIOUS
    <2>1. Len(tx) + Len(rx) = rx_len - tx_len /\ pos = Length - rx_len + Len(rx)
      BY DEF BytesPipeline, Got
    <2>2. rx_len <= Length /\ tx_len <= Length
      BY <1>e
    <2> QED  BY <1>d, <2>1, <2>2
  <1>1. CASE transfer_one
    <2>1. /\ UNCHANGED <<rtdCall, tx, rx, pos, spoiled, conf, addressed, buf>>
          /\ tx_len' = Length /\ rx_len' = Length /\ pc = "start"
      BY <1>1 DEF transfer_one, chips, hist, Length
    <2>2. tx = <<>> /\ rx = <<>> /\ pos = 0
      BY <1>0, <2>1 DEF Selection, Engine
    <2>3. Length' = Length /\ Got' = 0
      BY <1>b, <2>1 DEF Length, Got, rtdCall
    <2>4. Len(tx') = 0 /\ Len(rx') = 0
      BY <2>1, <2>2
    <2>5. BytesPipeline'
      BY <1>b, <2>1, <2>2, <2>3, <2>4 DEF BytesPipeline
    <2>6. Effect'
      BY <2>1, <2>2, <2>3 DEF Effect
    <2> QED  BY <2>5, <2>6
  <1>2. CASE wr_fifo
    <2>1. /\ UNCHANGED <<rtdCall, rx_len, buf, rx, chips, hist>>
          /\ tx_len > 0 /\ tx_len' = tx_len - 1 /\ Busy
          /\ tx' = Append(tx, Byte(kind, Length - tx_len + 1))
      BY <1>2 DEF wr_fifo, Busy, Length
    <2>2. BytesPipeline /\ Effect /\ tx_len <= Length
      BY <1>0, <1>c, <2>1 DEF hist, Selection
    <2>3. Length - tx_len + 1 = pos + (Len(tx) + 1)
      <3>1. pos + Len(tx) + tx_len = Length
        BY <1>f, <2>1, <2>2
      <3> QED  BY <1>d, <3>1
    <2>4. Byte(kind, Length - tx_len + 1) \in Sent
      <3>1. Length - tx_len + 1 \in Nat
        BY <1>a, <1>b, <2>2
      <3> QED  BY <1>a, <3>1, Sizes
    <2>5. /\ Len(tx') = Len(tx) + 1
          /\ \A i \in 1..Len(tx) : tx'[i] = tx[i]
          /\ tx'[Len(tx) + 1] = Byte(kind, pos + (Len(tx) + 1))
      BY <1>a, <2>1, <2>3, <2>4, Joined
    <2>6. \A i \in 1..Len(tx') : tx'[i] = Byte(kind, pos + i)
      <3> TAKE i \in 1..Len(tx')
      <3>1. i \in 1..Len(tx) \/ i = Len(tx) + 1
        BY <1>d, <2>5
      <3>2. CASE i \in 1..Len(tx)
        BY <2>2, <2>5, <3>2 DEF BytesPipeline
      <3> QED  BY <2>5, <3>1, <3>2
    <2>7. Len(tx') + Len(rx') = rx_len' - tx_len'
      <3>1. Len(rx') = Len(rx) /\ rx_len' = rx_len
        BY <2>1
      <3>2. Len(tx) + Len(rx) + tx_len = rx_len /\ tx_len' = tx_len - 1 /\ tx_len > 0
        BY <1>f, <2>1, <2>2
      <3> QED  BY <1>d, <2>5, <3>1, <3>2
    <2>8. BytesPipeline'
      BY <2>1, <2>2, <2>6, <2>7 DEF BytesPipeline, Got, Length, Frame, rtdCall, chips
    <2> QED  BY <2>1, <2>2, <2>8 DEF Effect, Got, Length, rtdCall, chips
  <1>3. CASE rd_fifo
    <2>1. /\ UNCHANGED <<rtdCall, tx_len, tx, chips, hist>>
          /\ rx_len > 0 /\ rx_len' = rx_len - 1 /\ Busy
          /\ rx # <<>> /\ rx' = Tail(rx)
      BY <1>3 DEF rd_fifo, Busy
    <2>2. BytesPipeline /\ Effect
      BY <1>c, <2>1 DEF hist
    <2>3. /\ Len(rx') = Len(rx) - 1 /\ Len(rx) >= 1
          /\ \A i \in 1..Len(rx') : i + 1 \in 1..Len(rx) /\ rx'[i] = rx[i + 1]
          /\ Head(rx) = rx[1]
      BY <1>a, <2>1, LeftOver
    <2>4. Head(rx) = Frame(Got + 1)
      BY <1>d, <2>2, <2>3 DEF BytesPipeline
    <2>5. Length' = Length /\ Got' = Got + 1 /\ Got \in Nat
      BY <1>a, <1>b, <1>e, <2>1 DEF Length, Got, rtdCall
    <2>6. \A i \in 1..Len(rx') : rx'[i] = Frame(Got' + i)
      <3> TAKE i \in 1..Len(rx')
      <3>1. i + 1 \in 1..Len(rx) /\ rx'[i] = rx[i + 1]
        BY <2>3
      <3>2. rx[i + 1] = Frame(Got + (i + 1))
        BY <2>2, <3>1 DEF BytesPipeline
      <3>3. Got + (i + 1) = Got' + i
        BY <2>5
      <3> QED  BY <3>1, <3>2, <3>3
    <2>7. Len(tx') + Len(rx') = rx_len' - tx_len' /\ pos' = Got' + Len(rx')
      BY <1>a, <1>d, <2>1, <2>2, <2>3, <2>5 DEF BytesPipeline, chips
    <2>8. BytesPipeline'
      BY <2>1, <2>2, <2>6, <2>7 DEF BytesPipeline, Frame, rtdCall, chips
    <2>9. CASE kind = "read"
      <3>1. Head(rx) = [chip |-> chip, at |-> ReadLen - rx_len + 1]
        BY <1>b, <2>4, <2>9 DEF Frame, Got
      <3>2. buf' = [buf EXCEPT ![chip][ReadLen - rx_len + 1] = "right"]
        BY <1>3, <2>9, <3>1 DEF rd_fifo
      <3>3. buf'[chip] = [buf[chip] EXCEPT ![ReadLen - rx_len + 1] = "right"]
        BY <1>a, <3>2
      <3>4. buf[chip] \in [1..ReadLen -> Stored]
        BY <1>a
      <3>5. ASSUME NEW i \in 1..ReadLen, i <= Got' PROVE buf'[chip][i] = "right"
        <4>1. i <= Got \/ i = ReadLen - rx_len + 1
          BY <1>a, <1>b, <2>5, <2>9, <3>5 DEF Got
        <4>2. i <= Got => buf[chip][i] = "right"
          BY <2>2, <2>9 DEF Effect
        <4> QED  BY <3>3, <3>4, <4>1, <4>2
      <3> QED  BY <2>1, <2>8, <2>9, <3>5 DEF Effect, rtdCall
    <2>10. CASE kind # "read"
      BY <2>1, <2>2, <2>8, <2>10 DEF Effect, rtdCall, chips
    <2> QED  BY <2>9, <2>10
  <1>4. CASE Filled \/ RtdKeepPolling \/ RtdJiffies
    <2>1. UNCHANGED <<rtdCall, drv, rtdHw, chips, hist>> /\ Busy
      BY <1>4 DEF Filled, RtdKeepPolling, RtdJiffies, Busy
    <2> QED  BY <1>c, <2>1
             DEF rtdCall, drv, rtdHw, chips, hist, BytesPipeline, Effect, Got, Length,
                 Frame
  <1>5. CASE Shift
    <2>1. /\ UNCHANGED <<pc, rtdCall, drv, sel, hist>> /\ Busy
          /\ tx # <<>> /\ tx' = Tail(tx)
      BY <1>5 DEF Shift, Busy
    <2>2. BytesPipeline /\ Effect /\ sel = chip /\ sel # None
      BY <1>0, <1>a, <1>c, <2>1, Sizes DEF hist, Selection, Busy
    <2>3. /\ Len(tx') = Len(tx) - 1 /\ Len(tx) >= 1
          /\ \A i \in 1..Len(tx') : i + 1 \in 1..Len(tx) /\ tx'[i] = tx[i + 1]
          /\ Head(tx) = tx[1]
      BY <1>a, <2>1, LeftOver
    <2>4. Head(tx) = Byte(kind, pos + 1)
      BY <1>d, <2>2, <2>3 DEF BytesPipeline
    <2>5. pos + Len(tx) + tx_len = Length
      BY <1>f, <2>1, <2>2
    <2>6. pos < Length /\ pos <= ReadLen
      BY <1>b, <1>d, <2>3, <2>5
    <2>7. pos' = pos + 1
      BY <1>5, <1>a, <1>b, <2>2, <2>6 DEF Shift
    <2>8. rx' = Append(rx, Frame(pos + 1))
      BY <1>5, <2>2, <2>7 DEF Shift, Frame
    <2>9. Frame(pos + 1) \in Answer
      <3>1. pos + 1 \in 0..(ReadLen + 1)
        BY <1>a, <1>b, <2>6
      <3> QED  BY <1>a, <3>1 DEF Answer, Frame
    <2>10. /\ Len(rx') = Len(rx) + 1
           /\ \A i \in 1..Len(rx) : rx'[i] = rx[i]
           /\ rx'[Len(rx) + 1] = Frame(pos + 1)
      BY <1>a, <2>8, <2>9, Joined
    <2>11. Length' = Length /\ Got' = Got /\ Got \in Nat /\ pos = Got + Len(rx)
      <3>1. Length' = Length /\ Got' = Got
        BY <2>1 DEF Length, Got, rtdCall, drv
      <3>2. Got \in Nat
        BY <1>d, <1>e, <2>1 DEF Got
      <3> QED  BY <2>2, <3>1, <3>2 DEF BytesPipeline
    <2>12. \A i \in 1..Len(rx') : rx'[i] = Frame(Got + i)
      <3> TAKE i \in 1..Len(rx')
      <3>1. CASE i \in 1..Len(rx)
        BY <2>2, <2>10, <3>1 DEF BytesPipeline
      <3>2. CASE i = Len(rx) + 1
        <4>1. pos + 1 = Got + i
          BY <1>d, <2>11, <3>2
        <4> QED  BY <2>10, <3>2, <4>1
      <3> QED  BY <1>d, <2>10, <3>1, <3>2
    <2>13. \A i \in 1..Len(tx') : tx'[i] = Byte(kind, pos' + i)
      <3> TAKE i \in 1..Len(tx')
      <3>1. i + 1 \in 1..Len(tx) /\ tx'[i] = tx[i + 1]
        BY <2>3
      <3>2. tx[i + 1] = Byte(kind, pos + (i + 1))
        BY <2>2, <3>1 DEF BytesPipeline
      <3>3. pos + (i + 1) = pos' + i
        BY <1>a, <2>7
      <3> QED  BY <3>1, <3>2, <3>3
    <2>14. Len(tx') + Len(rx') = rx_len' - tx_len' /\ pos' = Got' + Len(rx')
      <3>1. rx_len' = rx_len /\ tx_len' = tx_len
        BY <2>1 DEF drv
      <3>2. Len(tx) + Len(rx) = rx_len - tx_len
        BY <2>2 DEF BytesPipeline
      <3>3. Len(tx') = Len(tx) - 1 /\ Len(rx') = Len(rx) + 1 /\ Len(tx) >= 1
        BY <2>3, <2>10
      <3>4. Len(tx') + Len(rx') = rx_len' - tx_len'
        BY <1>d, <3>1, <3>2, <3>3
      <3> QED  BY <1>d, <2>7, <2>11, <3>3, <3>4
    <2>15. BytesPipeline'
      BY <2>1, <2>11, <2>12, <2>13, <2>14 DEF BytesPipeline, Frame, rtdCall
    <2>16. CASE kind = "read"
      BY <2>1, <2>2, <2>11, <2>15, <2>16 DEF Effect, rtdCall, drv
    <2>17. CASE kind = "conf"
      <3>1. pos = 0 \/ pos = 1
        BY <1>a, <1>b, <2>6, <2>17
      <3>2. Head(tx) = IF pos = 0 THEN "addr" ELSE "value"
        BY <2>4, <2>17, <3>1 DEF Byte
      <3>3. CASE pos = 0
        <4>1. addressed' = (Head(tx) = "addr") /\ Head(tx) = "addr"
          BY <1>5, <3>2, <3>3 DEF Shift
        <4>2. addressed'
          BY <4>1, Zenon
        <4>3. pos' = 1 /\ kind' = kind
          BY <2>1, <2>7, <3>3 DEF rtdCall
        <4> QED  BY <2>15, <2>17, <4>2, <4>3 DEF Effect
      <3>4. CASE pos = 1
        <4>1. addressed
          BY <2>2, <2>17, <3>4 DEF Effect
        <4>2. addressed' = addressed /\ conf'[chip] = "set"
          BY <1>5, <1>a, <2>2, <3>2, <3>4, <4>1 DEF Shift
        <4>3. kind' = kind /\ chip' = chip
          BY <2>1 DEF rtdCall
        <4> QED  BY <2>15, <2>17, <4>1, <4>2, <4>3 DEF Effect
      <3>5. Effect'
        BY <3>1, <3>3, <3>4
      <3> QED  BY <2>15, <3>5
    <2> QED  BY <1>a, <2>15, <2>16, <2>17 DEF Kind
  <1>6. CASE UNCHANGED rtdVars
    <2>1. UNCHANGED <<rtdCall, drv, rtdHw, chips, hist, pc>> /\ Busy
      BY <1>6 DEF rtdVars, Busy
    <2> QED  BY <1>c, <2>1
             DEF rtdCall, drv, rtdHw, chips, hist, BytesPipeline, Effect, Got, Length,
                 Frame
  <1> QED  BY <1>1, <1>2, <1>3, <1>4, <1>5, <1>6
           DEF RtdNext, Driver, Busy, read_rtd, cfg_rtd_chips, Select, SelectFails,
               RtdGiveUp, Complete, Deselect, DeselectFails, NextChip

(* The buffers and what a transfer that returned 0 has done.                *)
LEMMA OwnBytesNext == RtdInv /\ [RtdNext]_rtdVars => OwnBytes'
  <1> SUFFICES ASSUME RtdInv, [RtdNext]_rtdVars PROVE OwnBytes'
    OBVIOUS
  <1>0. RtdTypeOK /\ Engine /\ Selection /\ BytesClean /\ OwnBytes
    BY DEF RtdInv
  <1>a. /\ kind \in Kind /\ chip \in Chip /\ buf \in [Chip -> [1..ReadLen -> Stored]]
        /\ rx_len \in Nat /\ tx_len \in Nat /\ Len(tx) \in Nat /\ Len(rx) \in Nat
        /\ tainted \subseteq Chip
    BY <1>0, Sizes DEF RtdTypeOK
  <1>1. CASE rd_fifo
    <2>1. pc' = "drain" /\ tainted' = tainted /\ Busy
      BY <1>1 DEF rd_fifo, hist, Busy
    <2>2. CASE kind = "read"
      <3> DEFINE at == ReadLen - rx_len + 1
                 b  == IF Head(rx) = [chip |-> chip, at |-> at]
                       THEN "right" ELSE "wrong"
      <3>1. buf' = [buf EXCEPT ![chip][at] = b]
        BY <1>1, <2>2 DEF rd_fifo
      <3>2. chip \notin tainted => b = "right"
        <4> SUFFICES ASSUME chip \notin tainted
                     PROVE  Head(rx) = [chip |-> chip, at |-> at]
          OBVIOUS
        <4>1. ~spoiled
          BY <1>0, <2>2 DEF Selection
        <4>2. BytesPipeline
          BY <1>0, <2>1, <4>1 DEF BytesClean
        <4>3. rx # <<>> /\ Head(rx) = rx[1] /\ Len(rx) >= 1
          BY <1>0, <1>1 DEF rd_fifo, RtdTypeOK
        <4>4. rx[1] = Frame(Got + 1)
          BY <1>a, <4>2, <4>3 DEF BytesPipeline
        <4>5. Got + 1 = at
          BY <1>a, <2>2, Sizes DEF Got, Length
        <4> QED  BY <4>3, <4>4, <4>5 DEF Frame
      <3> HIDE DEF b
      <3>3. ASSUME NEW n \in Chip, n \notin tainted, NEW i \in 1..ReadLen
            PROVE  buf'[n][i] # "wrong"
        <4>1. buf[n][i] # "wrong" /\ buf[n] \in [1..ReadLen -> Stored]
          BY <1>0, <1>a, <3>3 DEF OwnBytes
        <4>2. CASE n = chip
          <5>1. buf'[n] = [buf[n] EXCEPT ![at] = b] /\ b = "right"
            BY <1>a, <3>1, <3>2, <3>3, <4>2
          <5> QED  BY <4>1, <5>1
        <4>3. CASE n # chip
          BY <1>a, <3>1, <4>1, <4>3
        <4> QED  BY <4>2, <4>3
      <3> QED  BY <2>1, <3>3 DEF OwnBytes
    <2>3. CASE kind # "read"
      BY <1>0, <1>1, <2>1, <2>3 DEF rd_fifo, OwnBytes
    <2> QED  BY <2>2, <2>3
  <1>2. CASE Complete
    <2>1. /\ UNCHANGED <<rtdCall, buf, conf, spoiled>> /\ Busy /\ rx_len = 0
          /\ tainted' = IF spoiled \/ kind = "conf" THEN tainted ELSE tainted \ {chip}
      BY <1>2 DEF Complete, drv, chips, Busy
    <2>2. ASSUME ~spoiled
          PROVE  /\ kind = "read" => \A i \in 1..ReadLen : buf[chip][i] = "right"
                 /\ kind = "conf" => conf[chip] = "set"
      <3>1. BytesPipeline /\ Effect
        BY <1>0, <2>1, <2>2 DEF BytesClean
      <3>2. Got = Length /\ Length \in Nat /\ Len(rx) = 0
        BY <1>a, <2>1, <3>1, Sizes DEF Got, Length, BytesPipeline
      <3>3. CASE kind = "read"
        BY <3>1, <3>2, <3>3, Sizes DEF Effect, Length
      <3>4. CASE kind = "conf"
        <4>1. pos = 2
          BY <3>1, <3>2, <3>4, Sizes DEF BytesPipeline, Length
        <4> QED  BY <3>1, <3>4, <4>1 DEF Effect
      <3> QED  BY <3>3, <3>4
    <2>3. \A n \in Chip \ tainted' : \A i \in 1..ReadLen : buf'[n][i] # "wrong"
      <3> SUFFICES ASSUME NEW n \in Chip \ tainted', NEW i \in 1..ReadLen
                   PROVE  buf'[n][i] # "wrong"
        OBVIOUS
      <3>1. CASE n \notin tainted
        BY <1>0, <2>1, <3>1 DEF OwnBytes
      <3>2. CASE n \in tainted
        <4>1. ~spoiled /\ kind = "read" /\ n = chip
          BY <1>a, <2>1, <3>2 DEF Kind
        <4> QED  BY <2>1, <2>2, <4>1
      <3> QED  BY <3>1, <3>2
    <2> QED  BY <1>a, <2>1, <2>2, <2>3 DEF OwnBytes, rtdCall, Kind
  <1>3. CASE Select
    <2>1. buf' = buf /\ tainted \subseteq tainted' /\ pc' = "start"
      BY <1>3 DEF Select, drv
    <2> QED  BY <1>0, <2>1 DEF OwnBytes
  <1>4. CASE SelectFails \/ Deselect \/ DeselectFails \/ RtdGiveUp
    <2>1. buf' = buf /\ tainted' = tainted /\ NextChip
      BY <1>4 DEF SelectFails, Deselect, DeselectFails, RtdGiveUp, drv
    <2> QED  BY <1>0, <2>1 DEF OwnBytes, NextChip
  <1>5. CASE \/ read_rtd \/ cfg_rtd_chips \/ transfer_one
             \/ wr_fifo \/ Filled \/ RtdKeepPolling \/ RtdJiffies
    <2>1. buf' = buf /\ tainted' = tainted /\ pc' # "clear"
      BY <1>5 DEF read_rtd, cfg_rtd_chips, transfer_one, wr_fifo, Filled,
                  RtdKeepPolling, RtdJiffies, drv, hist
    <2> QED  BY <1>0, <2>1 DEF OwnBytes
  <1>6. CASE Shift
    <2>1. buf' = buf /\ tainted' = tainted /\ pc' # "clear"
      BY <1>0, <1>6 DEF Shift, drv, hist, Engine
    <2> QED  BY <1>0, <2>1 DEF OwnBytes
  <1>7. CASE UNCHANGED rtdVars
    BY <1>0, <1>7 DEF rtdVars, rtdCall, drv, chips, hist, OwnBytes
  <1> QED  BY <1>1, <1>2, <1>3, <1>4, <1>5, <1>6, <1>7 DEF RtdNext, Driver

-----------------------------------------------------------------------------
LEMMA RtdInvariance == RtdSafeSpec => []RtdInv
  <1>1. RtdInv /\ [RtdNext]_rtdVars => RtdInv'
    BY RtdTypeNext, EngineNext, SelectionNext, BytesCleanNext, OwnBytesNext DEF RtdInv
  <1> QED  BY <1>1, RtdInitInv, PTL DEF RtdSafeSpec

(* Every variable of the driver, the controller and the chips keeps its     *)
(* type: no FIFO holds more than its depth, and no length runs below zero.  *)
THEOREM RtdTypeCorrect == RtdSafeSpec => []RtdTypeOK
  <1>1. RtdInv => RtdTypeOK
    BY DEF RtdInv
  <1> QED  BY <1>1, RtdInvariance, PTL

(* No timeout, failed select or failed deselect mixes bytes of two chips or *)
(* of two places in a temperature buffer, except in one that is tainted;    *)
(* and read_rtd and cfg_rtd_chips return 0 only when they have done what    *)
(* they are for, if they began on no leftovers.                             *)
THEOREM BytesAreOwn == RtdSafeSpec => []OwnBytes
  <1>1. RtdInv => OwnBytes
    BY DEF RtdInv
  <1> QED  BY <1>1, RtdInvariance, PTL

(* Once the clock has run out, a read or a configuration makes headway with *)
(* every step of the driver: the one that does not, another turn of the     *)
(* polling loop, is taken only before.  RtdRank counts the steps that are   *)
(* left: those of the chips to come and those of this one.  This is what    *)
(* the first part of ReadsRecover needs apart from the driver and jiffies   *)
(* going on.                                                                *)
Whole == 2 * (ReadLen + ConfLen)

Phase ==
    CASE pc = "idle"   -> 0
      [] pc = "clear"  -> 1
      [] pc = "drain"  -> 2 + tx_len + rx_len
      [] pc = "fill"   -> 3 + tx_len + rx_len
      [] pc = "start"  -> 4 + Whole
      [] pc = "select" -> 5 + Whole

ChipsLeft == IF kind = "conf" /\ pc # "idle" THEN NumRtds - chip ELSE 0

RtdRank == ChipsLeft * (6 + Whole) + Phase

RtdRankFalls ==
    [][pc # "idle" =>
          IF Driver THEN RtdRank' < RtdRank \/ (RtdKeepPolling /\ ~late)
                    ELSE RtdRank' = RtdRank]_rtdVars

(* The work on one chip, and what one chip less is worth.                   *)
LEMMA PhaseRange ==
    ASSUME RtdTypeOK
    PROVE  /\ Whole \in Nat /\ ChipsLeft \in Nat /\ Phase \in 0..(5 + Whole)
           /\ Phase = 0 <=> pc = "idle"
  <1>1. /\ Whole \in Nat /\ NumRtds \in Nat /\ chip \in 1..NumRtds
        /\ tx_len \in Nat /\ rx_len \in Nat /\ tx_len + rx_len <= Whole
    BY Sizes DEF RtdTypeOK, Whole, Chip
  <1>2. ChipsLeft \in Nat
    BY <1>1 DEF ChipsLeft
  <1>3. pc \in {"idle", "select", "start", "fill", "drain", "clear"}
    BY DEF RtdTypeOK
  <1> QED  BY <1>1, <1>2, <1>3 DEF Phase

LEMMA FewerChips ==
    ASSUME NEW m \in Nat, NEW n \in Nat, NEW k \in Nat, m = n + 1
    PROVE  m * k = n * k + k /\ n * k \in Nat
  OBVIOUS

(* The end of the work on a chip.                                           *)
LEMMA NextChipRank ==
    ASSUME RtdTypeOK, pc # "idle", NextChip
    PROVE  RtdRank' < RtdRank
  <1>1. /\ Whole \in Nat /\ ChipsLeft \in Nat /\ Phase \in 1..(5 + Whole)
        /\ Whole' = Whole
    BY PhaseRange DEF Whole
  <1>2. CASE kind = "conf" /\ chip < NumRtds
    <2>1. pc' = "select" /\ chip' = chip + 1 /\ kind' = kind
      BY <1>2 DEF NextChip
    <2>2. Phase' = 5 + Whole
      BY <1>1, <2>1 DEF Phase
    <2>3. NumRtds \in Nat /\ chip \in Nat
      BY Sizes DEF RtdTypeOK, Chip
    <2>4. ChipsLeft = ChipsLeft' + 1 /\ ChipsLeft' \in Nat
      BY <1>2, <2>1, <2>3 DEF ChipsLeft
    <2>5. ChipsLeft * (6 + Whole) = ChipsLeft' * (6 + Whole) + (6 + Whole)
            /\ ChipsLeft' * (6 + Whole) \in Nat
      <3>1. \A k \in Nat : /\ ChipsLeft * k = ChipsLeft' * k + k
                          /\ ChipsLeft' * k \in Nat
        BY <1>1, <2>4, FewerChips
      <3>2. 6 + Whole \in Nat
        BY <1>1
      <3> QED  BY <3>1, <3>2
    <2>6. RtdRank' = ChipsLeft' * (6 + Whole) + (5 + Whole)
      BY <1>1, <2>2 DEF RtdRank
    <2> QED  BY <1>1, <2>5, <2>6 DEF RtdRank
  <1>3. CASE ~(kind = "conf" /\ chip < NumRtds)
    <2>1. pc' = "idle"
      BY <1>3 DEF NextChip
    <2>2. ChipsLeft' = 0 /\ Phase' = 0
      BY <2>1 DEF ChipsLeft, Phase
    <2>3. RtdRank' = 0
      BY <1>1, <2>2 DEF RtdRank
    <2>4. ChipsLeft * (6 + Whole) \in Nat
      BY <1>1
    <2> QED  BY <1>1, <2>3, <2>4 DEF RtdRank
  <1> QED  BY <1>2, <1>3

(* A step within the work on a chip.                                        *)
LEMMA SameChipRank ==
    ASSUME RtdTypeOK, pc # "idle", pc' # "idle", UNCHANGED <<kind, chip>>,
           Phase' \in Nat
    PROVE  /\ Phase' < Phase => RtdRank' < RtdRank
           /\ Phase' = Phase => RtdRank' = RtdRank
  <1>1. ChipsLeft' = ChipsLeft /\ Whole' = Whole
    BY DEF ChipsLeft, Whole
  <1>2. ChipsLeft * (6 + Whole) \in Nat /\ Phase \in Nat
    BY PhaseRange
  <1>3. RtdRank' = ChipsLeft * (6 + Whole) + Phase'
    BY <1>1 DEF RtdRank
  <1> QED  BY <1>2, <1>3 DEF RtdRank

THEOREM RtdCallsEnd == RtdSafeSpec => [](RtdRank \in Nat) /\ RtdRankFalls
  <1>0. RtdInv => RtdRank \in Nat
    <2> SUFFICES ASSUME RtdInv PROVE RtdRank \in Nat
      OBVIOUS
    <2>1. ChipsLeft \in Nat /\ 6 + Whole \in Nat /\ Phase \in Nat
      BY PhaseRange DEF RtdInv
    <2>2. ChipsLeft * (6 + Whole) \in Nat
      BY <2>1
    <2> QED  BY <2>1, <2>2 DEF RtdRank
  <1>1. RtdInv /\ [RtdNext]_rtdVars =>
            [pc # "idle" =>
                IF Driver THEN RtdRank' < RtdRank \/ (RtdKeepPolling /\ ~late)
                          ELSE RtdRank' = RtdRank]_rtdVars
    <2> SUFFICES ASSUME RtdInv, RtdNext, pc # "idle"
                 PROVE  IF Driver THEN RtdRank' < RtdRank \/ (RtdKeepPolling /\ ~late)
                                  ELSE RtdRank' = RtdRank
      BY DEF rtdVars
    <2>1. /\ tx_len \in Nat /\ rx_len \in Nat /\ ReadLen \in Nat /\ ConfLen = 2
          /\ Size[kind] \in Nat /\ Size[kind] <= ReadLen + ConfLen
          /\ Whole \in Nat /\ Whole' = Whole /\ Whole = 2 * (ReadLen + ConfLen)
          /\ RtdTypeOK
      BY Sizes, PhaseRange DEF RtdInv, RtdTypeOK, Whole
    <2>2. CASE SelectFails \/ RtdGiveUp \/ Deselect \/ DeselectFails
      BY <2>1, <2>2, NextChipRank DEF SelectFails, RtdGiveUp, Deselect, DeselectFails,
                                      Driver
    <2>3. CASE Select
      <3>1. Phase = 5 + Whole /\ Phase' = 4 + Whole /\ pc' # "idle"
              /\ UNCHANGED <<kind, chip>>
        BY <2>1, <2>3 DEF Select, rtdCall, Phase
      <3> QED  BY <2>1, <2>3, <3>1, SameChipRank DEF Driver
    <2>4. CASE transfer_one
      <3>1. Phase = 4 + Whole /\ Phase' = 3 + Size[kind] + Size[kind] /\ pc' # "idle"
              /\ UNCHANGED <<kind, chip>>
        BY <2>1, <2>4 DEF transfer_one, rtdCall, Phase
      <3> QED  BY <2>1, <2>4, <3>1, SameChipRank DEF Driver
    <2>5. CASE wr_fifo
      <3>1. Phase = 3 + tx_len + rx_len /\ Phase' = 3 + (tx_len - 1) + rx_len
              /\ pc' # "idle" /\ tx_len > 0 /\ UNCHANGED <<kind, chip>>
        BY <2>1, <2>5 DEF wr_fifo, rtdCall, Phase
      <3> QED  BY <2>1, <2>5, <3>1, SameChipRank DEF Driver
    <2>6. CASE Filled
      <3>1. Phase = 3 + tx_len + rx_len /\ Phase' = 2 + tx_len + rx_len
              /\ pc' # "idle" /\ UNCHANGED <<kind, chip>>
        BY <2>1, <2>6 DEF Filled, rtdCall, drv, Phase
      <3> QED  BY <2>1, <2>6, <3>1, SameChipRank DEF Driver
    <2>7. CASE rd_fifo
      <3>1. Phase = 2 + tx_len + rx_len /\ Phase' = 2 + tx_len + (rx_len - 1)
              /\ pc' # "idle" /\ rx_len > 0 /\ UNCHANGED <<kind, chip>>
        BY <2>1, <2>7 DEF rd_fifo, rtdCall, Phase
      <3> QED  BY <2>1, <2>7, <3>1, SameChipRank DEF Driver
    <2>8. CASE RtdKeepPolling
      BY <2>8 DEF RtdKeepPolling, Driver
    <2>9. CASE Complete
      <3>1. Phase = 2 + tx_len + rx_len /\ Phase' = 1 /\ pc' # "idle"
              /\ UNCHANGED <<kind, chip>>
        BY <2>1, <2>9 DEF Complete, rtdCall, Phase
      <3> QED  BY <2>1, <2>9, <3>1, SameChipRank DEF Driver
    <2>10. CASE ~Driver
      <3>1. UNCHANGED <<pc, kind, chip, tx_len, rx_len>>
        BY <2>10 DEF RtdNext, read_rtd, cfg_rtd_chips, RtdJiffies, Shift, rtdCall, drv
      <3> QED  BY <2>1, <2>10, <3>1 DEF RtdRank, ChipsLeft, Phase
    <2> QED  BY <2>2, <2>3, <2>4, <2>5, <2>6, <2>7, <2>8, <2>9, <2>10 DEF Driver
  <1> QED  BY <1>0, <1>1, RtdInvariance, PTL DEF RtdSafeSpec, RtdRankFalls

-----------------------------------------------------------------------------
(* The counters' bus.                                                       *)

USE SizeAssumption, DepthAssumption, NameAssumption

Now(i) == [xfer |-> xfer, at |-> i]

Shifting == IF shifter = None THEN 0 ELSE 1

(* The words under way, in a history without failures.                      *)
WordsPipeline ==
    /\ Len(rx) + Shifting + Len(tx) = rx_len - tx_len
    /\ \A i \in 1..Len(rx) : rx[i] = Now(Words - rx_len + i)
    /\ shifter # None => shifter = Now(Words - rx_len + Len(rx) + 1)
    /\ \A i \in 1..Len(tx) : tx[i] = Now(Words - tx_len - Len(tx) + i)

(* What the driver has read so far.                                         *)
WordsFilled ==
    pc # "idle" \/ result = "ok" =>
        \A i \in Place : i <= Words - rx_len => buf[i] = Now(i)

(* What the status register said is still so, as far as the loop needs it.  *)
StatusHolds ==
    pc = "act" =>
        /\ rx_len > 0
        /\ ~stat.empty => rx # <<>>
        /\ ~stat.full => Len(tx) < Depth
        /\ ~stat.busy => tx = <<>> /\ shifter = None /\ ~stat.full

WordsClean ==
    /\ WordsPipeline /\ WordsFilled
    /\ pc = "idle" => rx_len = 0
    /\ pc # "idle" => cs

AuxInv == AuxTypeOK /\ StatusHolds /\ (~dirty => WordsClean)

LEMMA AuxInitInv == AuxInit => AuxInv
  <1> SUFFICES ASSUME AuxInit PROVE AuxInv
    OBVIOUS
  <1>1. Len(tx) = 0 /\ Len(rx) = 0 /\ tx \in Seq(Word) /\ rx \in Seq(Word)
    BY DEF AuxInit
  <1>2. AuxTypeOK
    <2>1. stat \in Status
      BY DEF AuxInit, Status
    <2>2. buf \in [Place -> Word \cup {None, Junk}]
      BY DEF AuxInit
    <2>3. tx_len \in 0..Words /\ rx_len \in 0..Words
      BY DEF AuxInit
    <2>4. Len(tx) <= Depth /\ Len(rx) <= Depth
      BY <1>1
    <2> QED  BY <1>1, <2>1, <2>2, <2>3, <2>4 DEF AuxInit, AuxTypeOK
  <1>3. StatusHolds /\ WordsClean
    BY <1>1 DEF AuxInit, StatusHolds, WordsClean, WordsPipeline, Shifting,
                WordsFilled
  <1> QED  BY <1>2, <1>3 DEF AuxInv

-----------------------------------------------------------------------------
LEMMA AuxTypeNext == AuxInv /\ [AuxNext]_auxVars => AuxTypeOK'
  <1> SUFFICES ASSUME AuxInv, [AuxNext]_auxVars PROVE AuxTypeOK'
    OBVIOUS
  <1> USE DEF AuxInv, AuxTypeOK
  <1>1. CASE Begin
    <2>1. 1 - xfer \in {0, 1} /\ Words \in 0..Words
      OBVIOUS
    <2> QED  BY <1>1, <2>1 DEF Begin, auxHw
  <1>2. CASE ReadStatus
    <2>1. stat' \in Status
      BY <1>2 DEF ReadStatus, Status
    <2> QED  BY <1>2, <2>1 DEF ReadStatus, auxHw
  <1>3. CASE bcm2835aux_wr_fifo
    <2>1. [xfer |-> xfer, at |-> Words - tx_len + 1] \in Word
      BY <1>3 DEF bcm2835aux_wr_fifo, MayWrite, Word, Place
    <2>2. tx' \in Seq(Word) /\ Len(tx') = Len(tx) + 1
      BY <1>3, <2>1 DEF bcm2835aux_wr_fifo
    <2>3. Len(tx') <= Depth
      BY <1>3, <2>2 DEF bcm2835aux_wr_fifo, MayWrite, StatusHolds
    <2> QED  BY <1>3, <2>2, <2>3 DEF bcm2835aux_wr_fifo, MayWrite
  <1>4. CASE bcm2835aux_rd_fifo
    <2>1. rx # <<>> => Head(rx) \in Word /\ Tail(rx) \in Seq(Word)
                        /\ Len(Tail(rx)) = Len(rx) - 1
      OBVIOUS
    <2>2. rx' \in Seq(Word) /\ Len(rx') <= Depth
      BY <1>4, <2>1 DEF bcm2835aux_rd_fifo
    <2>3. buf' \in [Place -> Word \cup {None, Junk}]
      BY <1>4, <2>1 DEF bcm2835aux_rd_fifo
    <2>4. rx_len' \in 0..Words
      BY <1>4 DEF bcm2835aux_rd_fifo, StatusHolds
    <2> QED  BY <1>4, <2>2, <2>3, <2>4 DEF bcm2835aux_rd_fifo
  <1>5. CASE AuxKeepPolling
    BY <1>5 DEF AuxKeepPolling, auxHw
  <1>6. CASE AuxGiveUp
    BY <1>6 DEF AuxGiveUp, auxHw
  <1>7. CASE Done
    BY <1>7 DEF Done, auxHw
  <1>8. CASE AuxJiffies
    BY <1>8 DEF AuxJiffies, auxCall, auxHw
  <1>9. CASE Load
    <2>1. /\ Head(tx) \in Word
          /\ Tail(tx) \in Seq(Word) /\ Len(Tail(tx)) = Len(tx) - 1
      BY <1>9 DEF Load
    <2>2. [xfer |-> xfer, at |-> Head(tx).at] \in Word
      BY <2>1 DEF Word
    <2> QED  BY <1>9, <2>1, <2>2 DEF Load, auxCall
  <1>10. CASE Store
    <2>1. rx' \in Seq(Word) /\ Len(rx') = Len(rx) + 1
      BY <1>10 DEF Store
    <2> QED  BY <1>10, <2>1 DEF Store, auxCall
  <1>11. CASE Lose
    BY <1>11 DEF Lose, auxCall
  <1>12. CASE UNCHANGED auxVars
    BY <1>12 DEF auxVars, auxCall, auxHw
  <1> QED  BY <1>1, <1>2, <1>3, <1>4, <1>5, <1>6, <1>7, <1>8, <1>9, <1>10, <1>11, <1>12
           DEF AuxNext, Poll

(* The controller only adds to the receive FIFO and only takes from the     *)
(* transmit FIFO.                                                           *)
LEMMA StatusNext == AuxInv /\ [AuxNext]_auxVars => StatusHolds'
  <1> SUFFICES ASSUME AuxInv, [AuxNext]_auxVars, pc' = "act" PROVE StatusHolds'
    BY DEF StatusHolds
  <1> USE DEF AuxInv, AuxTypeOK, StatusHolds
  <1>1. CASE ReadStatus
    <2>1. rx_len' > 0 /\ tx' = tx /\ rx' = rx /\ shifter' = shifter
      BY <1>1 DEF ReadStatus, auxHw
    <2>2. ~stat'.empty => rx # <<>>
      BY <1>1 DEF ReadStatus
    <2>3. ~stat'.full => Len(tx) # Depth
      BY <1>1 DEF ReadStatus
    <2>4. ~stat'.busy => tx = <<>> /\ shifter = None
      BY <1>1 DEF ReadStatus
    <2>5. tx = <<>> => Len(tx) # Depth
      OBVIOUS
    <2>6. Len(tx) # Depth => ~stat'.full
      BY <1>1 DEF ReadStatus
    <2>7. Len(tx) # Depth => Len(tx) < Depth
      OBVIOUS
    <2> QED  BY <2>1, <2>2, <2>3, <2>4, <2>5, <2>6, <2>7
  <1>2. CASE AuxJiffies
    BY <1>2 DEF AuxJiffies, auxCall, auxHw
  <1>3. CASE Load
    <2>1. Len(Tail(tx)) = Len(tx) - 1 /\ Len(tx) \in Nat
      BY <1>3 DEF Load
    <2> QED  BY <1>3, <2>1 DEF Load, auxCall
  <1>4. CASE Store
    <2>1. Len(rx') = Len(rx) + 1 /\ Len(rx) \in Nat /\ rx' # <<>>
      BY <1>4 DEF Store
    <2> QED  BY <1>4, <2>1 DEF Store, auxCall
  <1>5. CASE Lose
    BY <1>5 DEF Lose, auxCall
  <1>6. CASE UNCHANGED auxVars
    BY <1>6 DEF auxVars, auxCall, auxHw
  <1> QED  BY <1>1, <1>2, <1>3, <1>4, <1>5, <1>6
           DEF AuxNext, Poll, Begin, bcm2835aux_wr_fifo,
               bcm2835aux_rd_fifo, AuxKeepPolling, AuxGiveUp, Done

-----------------------------------------------------------------------------
LEMMA WordsCleanNext == AuxInv /\ [AuxNext]_auxVars /\ ~dirty' => WordsClean'
  <1> SUFFICES ASSUME AuxInv, [AuxNext]_auxVars, ~dirty' PROVE WordsClean'
    OBVIOUS
  <1>0. ~dirty /\ WordsClean /\ AuxTypeOK /\ StatusHolds
    BY DEF AuxInv, AuxNext, Poll, Begin, ReadStatus,
           bcm2835aux_wr_fifo, bcm2835aux_rd_fifo, AuxKeepPolling, AuxGiveUp,
           Done, AuxJiffies, Load, Store, Lose, auxVars
  <1>a. /\ Len(rx) \in Nat /\ Len(tx) \in Nat /\ Shifting \in {0, 1}
        /\ rx_len \in Nat /\ tx_len \in Nat /\ Words \in Nat
    BY <1>0 DEF AuxTypeOK, Shifting
  <1>b. Len(rx) + Shifting + Len(tx) = rx_len - tx_len
    BY <1>0 DEF WordsClean, WordsPipeline
  <1> USE DEF AuxTypeOK, WordsClean
  <1>1. CASE Begin
    <2>1. rx_len = 0 /\ rx_len' = Words /\ tx_len' = Words /\ tx' = tx /\ rx' = rx
              /\ shifter' = shifter /\ pc' = "status" /\ cs'
      BY <1>0, <1>1 DEF Begin, auxHw
    <2>2. Len(rx) = 0 /\ shifter = None /\ Len(tx) = 0
      BY <1>0, <1>a, <2>1 DEF WordsPipeline, Shifting
    <2>3. WordsPipeline'
      BY <2>1, <2>2 DEF WordsPipeline, Shifting
    <2>4. WordsFilled'
      BY <2>1 DEF WordsFilled, Place
    <2> QED  BY <2>1, <2>3, <2>4
  <1>2. CASE ReadStatus
    BY <1>0, <1>2 DEF ReadStatus, auxHw, WordsPipeline, Shifting, WordsFilled,
                      Now
  <1>3. CASE bcm2835aux_wr_fifo
    <2>1. /\ Len(tx') = Len(tx) + 1
          /\ \A i \in 1..Len(tx) : tx'[i] = tx[i]
          /\ tx'[Len(tx) + 1] = Now(Words - tx_len + 1)
      BY <1>0, <1>3 DEF bcm2835aux_wr_fifo, Now
    <2>2. /\ tx_len' = tx_len - 1 /\ rx_len' = rx_len /\ rx' = rx /\ xfer' = xfer
          /\ shifter' = shifter /\ buf' = buf /\ cs' = cs
          /\ pc' = "status" /\ pc = "act"
      BY <1>3 DEF bcm2835aux_wr_fifo
    <2>3. Len(rx') + Shifting' + Len(tx') = rx_len' - tx_len'
      <3> HIDE DEF AuxTypeOK, WordsClean
      <3>1. Shifting' = Shifting
        BY <2>2 DEF Shifting
      <3>2. Len(tx') = Len(tx) + 1 /\ Len(rx') = Len(rx)
        BY <2>1, <2>2
      <3>3. tx_len' = tx_len - 1 /\ rx_len' = rx_len
        BY <2>2
      <3> QED  BY <1>a, <1>b, <3>1, <3>2, <3>3
    <2>4. \A i \in 1..Len(tx') : tx'[i] = Now(Words - tx_len' - Len(tx') + i)
      <3> TAKE i \in 1..Len(tx')
      <3>1. Words - tx_len' - Len(tx') + i = Words - tx_len - Len(tx) + i
        <4>1. Len(tx') = Len(tx) + 1 /\ tx_len' = tx_len - 1 /\ tx_len > 0
          BY <1>3, <2>1, <2>2 DEF bcm2835aux_wr_fifo, MayWrite
        <4>2. tx_len \in 0..Words /\ Len(tx) <= Words - tx_len
          BY <1>0, <1>a, <1>b
        <4> HIDE DEF AuxTypeOK, WordsClean
        <4> QED  BY <1>a, <4>1, <4>2
      <3>2. CASE i \in 1..Len(tx)
        BY <1>0, <2>1, <3>1, <3>2 DEF WordsPipeline
      <3>3. CASE i = Len(tx) + 1
        <4>1. Words - tx_len - Len(tx) + i = Words - tx_len + 1
          BY <1>0, <1>a, <3>3
        <4> QED  BY <2>1, <3>1, <3>3, <4>1
      <3> QED  BY <1>a, <2>1, <3>2, <3>3
    <2>5. WordsPipeline'
      BY <1>0, <2>2, <2>3, <2>4 DEF WordsPipeline, Now
    <2> QED  BY <1>0, <2>2, <2>5 DEF WordsFilled, Now
  <1>4. CASE bcm2835aux_rd_fifo
    <2>1. pc = "act" /\ rx_len > 0 /\ rx_len' = rx_len - 1 /\ tx_len' = tx_len
            /\ tx' = tx /\ shifter' = shifter /\ xfer' = xfer /\ cs' = cs
            /\ pc' = "status"
      BY <1>0, <1>4 DEF bcm2835aux_rd_fifo, StatusHolds
    <2>2. rx # <<>>
      <3>1. CASE ~stat.empty
        BY <1>0, <2>1, <3>1 DEF StatusHolds
      <3>2. CASE ~stat.busy
        <4>1. tx = <<>> /\ shifter = None /\ ~stat.full
          BY <1>0, <2>1, <3>2 DEF StatusHolds
        <4>2. tx_len = 0
          BY <1>0, <1>4, <4>1 DEF bcm2835aux_rd_fifo, MayWrite
        <4>3. Len(rx) = rx_len
          BY <1>0, <1>a, <4>1, <4>2 DEF WordsPipeline, Shifting
        <4> QED  BY <1>0, <2>1, <4>3
      <3> QED  BY <1>4, <3>1, <3>2 DEF bcm2835aux_rd_fifo, MayRead
    <2>b. Len(rx') = Len(rx) - 1
      BY <1>0, <1>4, <2>2 DEF bcm2835aux_rd_fifo
    <2>3. /\ rx' = Tail(rx) /\ Len(rx') = Len(rx) - 1
          /\ \A i \in 1..Len(rx') : rx'[i] = rx[i + 1]
          /\ Head(rx) = rx[1] /\ Len(rx) > 0
      BY <1>0, <1>4, <2>2 DEF bcm2835aux_rd_fifo
    <2>4. Head(rx) = Now(Words - rx_len + 1)
      BY <1>0, <1>a, <2>3 DEF WordsPipeline
    <2>5. \A i \in 1..Len(rx') : rx'[i] = Now(Words - rx_len' + i)
      <3> TAKE i \in 1..Len(rx')
      <3>1. i + 1 \in 1..Len(rx) /\ Words - rx_len + (i + 1) = Words - rx_len' + i
        BY <1>0, <1>a, <2>1, <2>3
      <3>2. rx[i + 1] = Now(Words - rx_len + (i + 1))
        BY <1>0, <3>1 DEF WordsPipeline
      <3> QED  BY <2>3, <3>1, <3>2
    <2>6. Words - rx_len + Len(rx) + 1 = Words - rx_len' + Len(rx') + 1
      <3> HIDE DEF AuxTypeOK, WordsClean
      <3> QED  BY <1>a, <2>1, <2>b
    <2>7. Len(rx') + Shifting' + Len(tx') = rx_len' - tx_len'
      <3> HIDE DEF AuxTypeOK, WordsClean
      <3>1. Shifting' = Shifting
        BY <2>1 DEF Shifting
      <3> QED  BY <1>a, <1>b, <2>1, <2>b, <3>1
    <2>8. WordsPipeline'
      BY <1>0, <2>1, <2>5, <2>6, <2>7 DEF WordsPipeline, Now
    <2>9. buf' = [buf EXCEPT ![Words - rx_len + 1] = Now(Words - rx_len + 1)]
      BY <1>4, <2>2, <2>4 DEF bcm2835aux_rd_fifo
    <2>10. WordsFilled'
      <3> SUFFICES ASSUME NEW i \in Place, i <= Words - rx_len'
                   PROVE  buf'[i] = Now(i)'
        BY DEF WordsFilled
      <3>1. CASE i = Words - rx_len + 1
        BY <1>0, <2>1, <2>9, <3>1 DEF Now
      <3>2. CASE i <= Words - rx_len
        BY <1>0, <2>1, <2>9, <3>2 DEF WordsFilled, Now, Place
      <3> QED  BY <1>0, <2>1, <3>1, <3>2 DEF Place
    <2> QED  BY <1>0, <2>1, <2>8, <2>10
  <1>5. CASE AuxKeepPolling
    BY <1>0, <1>5 DEF AuxKeepPolling, auxHw, WordsPipeline, Shifting, WordsFilled,
                      Now
  <1>6. CASE AuxGiveUp
    BY <1>6 DEF AuxGiveUp
  <1>7. CASE Done
    BY <1>0, <1>7 DEF Done, auxHw, WordsPipeline, Shifting, WordsFilled, Now
  <1>8. CASE AuxJiffies
    BY <1>0, <1>8 DEF AuxJiffies, auxCall, auxHw, WordsPipeline, Shifting,
                      WordsFilled, Now
  <1>9. CASE Load
    <2>b. Len(tx') = Len(tx) - 1
      BY <1>0, <1>9 DEF Load
    <2>1. /\ tx' = Tail(tx) /\ Len(tx') = Len(tx) - 1
          /\ \A i \in 1..Len(tx') : tx'[i] = tx[i + 1]
          /\ Head(tx) = tx[1] /\ Len(tx) > 0
      BY <1>0, <1>9 DEF Load
    <2>2. shifter = None /\ UNCHANGED <<auxCall, rx>>
      BY <1>9 DEF Load
    <2>3. Len(rx) + Len(tx) = rx_len - tx_len
      BY <1>0, <1>a, <2>2 DEF WordsPipeline, Shifting
    <2>4. Words - tx_len - Len(tx) + 1 = Words - rx_len + Len(rx) + 1
      BY <1>0, <1>a, <2>3
    <2>5. tx[1] = Now(Words - tx_len - Len(tx) + 1)
      BY <1>0, <1>a, <2>1 DEF WordsPipeline
    <2>6. shifter' = Now(Words - rx_len + Len(rx) + 1)
      BY <1>9, <2>1, <2>4, <2>5 DEF Load, Now
    <2>7. shifter' # None
      <3>1. Head(tx) \in Word
        BY <1>0, <2>1
      <3>2. shifter' \in Word
        BY <1>0, <1>9, <3>1 DEF Load, Word
      <3> QED  BY <3>2
    <2>8. \A i \in 1..Len(tx') : tx'[i] = Now(Words - tx_len - Len(tx') + i)
      <3> TAKE i \in 1..Len(tx')
      <3>1. i + 1 \in 1..Len(tx)
              /\ Words - tx_len - Len(tx) + (i + 1) = Words - tx_len - Len(tx') + i
        <4> HIDE DEF AuxTypeOK, WordsClean
        <4> QED  BY <1>a, <2>b
      <3>2. tx[i + 1] = Now(Words - tx_len - Len(tx) + (i + 1))
        BY <1>0, <3>1 DEF WordsPipeline
      <3> QED  BY <2>1, <3>1, <3>2
    <2>9. Len(rx') + Shifting' + Len(tx') = rx_len' - tx_len'
      <3> HIDE DEF AuxTypeOK, WordsClean
      <3>1. Shifting' = 1
        BY <2>7 DEF Shifting
      <3>2. rx_len' = rx_len /\ tx_len' = tx_len /\ rx' = rx
        BY <2>2 DEF auxCall
      <3>3. Len(rx') = Len(rx)
        BY <3>2
      <3> QED  BY <1>a, <2>b, <2>3, <3>1, <3>2, <3>3
    <2>10. WordsPipeline'
      BY <1>0, <2>2, <2>6, <2>8, <2>9 DEF WordsPipeline, Now, auxCall
    <2> QED  BY <1>0, <2>2, <2>10 DEF WordsFilled, Now, auxCall
  <1>10. CASE Store
    <2>1. /\ Len(rx') = Len(rx) + 1
          /\ \A i \in 1..Len(rx) : rx'[i] = rx[i]
          /\ rx'[Len(rx) + 1] = shifter
      BY <1>0, <1>10 DEF Store
    <2>2. shifter # None /\ shifter' = None /\ UNCHANGED <<auxCall, tx>>
      BY <1>10 DEF Store
    <2>3. shifter = Now(Words - rx_len + Len(rx) + 1)
      BY <1>0, <2>2 DEF WordsPipeline
    <2>4. \A i \in 1..Len(rx') : rx'[i] = Now(Words - rx_len + i)
      <3> TAKE i \in 1..Len(rx')
      <3>1. CASE i \in 1..Len(rx)
        BY <1>0, <2>1, <3>1 DEF WordsPipeline
      <3>2. CASE i = Len(rx) + 1
        <4>1. Words - rx_len + Len(rx) + 1 = Words - rx_len + i
          BY <1>0, <1>a, <3>2
        <4> QED  BY <2>1, <2>3, <3>2, <4>1
      <3> QED  BY <1>a, <2>1, <3>1, <3>2
    <2>5. Len(rx') + Shifting' + Len(tx') = rx_len' - tx_len'
      BY <1>0, <1>a, <2>1, <2>2 DEF WordsPipeline, Shifting, auxCall
    <2>6. WordsPipeline'
      BY <1>0, <2>2, <2>4, <2>5 DEF WordsPipeline, Now, auxCall
    <2> QED  BY <1>0, <2>2, <2>6 DEF WordsFilled, Now, auxCall
  <1>11. CASE Lose
    BY <1>11 DEF Lose
  <1>12. CASE UNCHANGED auxVars
    BY <1>0, <1>12 DEF auxVars, auxCall, auxHw, WordsPipeline, Shifting,
                       WordsFilled, Now
  <1> QED  BY <1>1, <1>2, <1>3, <1>4, <1>5, <1>6, <1>7, <1>8, <1>9, <1>10, <1>11, <1>12
           DEF AuxNext, Poll

-----------------------------------------------------------------------------
LEMMA AuxInvariance == AuxSafeSpec => []AuxInv
  <1>1. AuxInv /\ [AuxNext]_auxVars => AuxInv'
    BY AuxTypeNext, StatusNext, WordsCleanNext DEF AuxInv
  <1> QED  BY <1>1, AuxInitInv, PTL DEF AuxSafeSpec

(* Every variable of the polling loop and the controller keeps its type: no *)
(* FIFO is ever overrun by the driver.                                      *)
THEOREM AuxTypeCorrect == AuxSafeSpec => []AuxTypeOK
  <1>1. AuxInv => AuxTypeOK
    BY DEF AuxInv
  <1> QED  BY <1>1, AuxInvariance, PTL

(* read_spi1 returns 0 only with its own words in rx_ctrbuf, in order, as   *)
(* long as no transfer has timed out and no word was lost.                  *)
THEOREM WordsAreOwn == AuxSafeSpec => []OwnWords
  <1>1. AuxInv => OwnWords
    <2> SUFFICES ASSUME AuxInv, pc = "idle", result = "ok", ~dirty PROVE Own
      BY DEF OwnWords
    <2>1. buf \in [Place -> Word \cup {None, Junk}] /\ WordsFilled /\ rx_len = 0
      BY DEF AuxInv, AuxTypeOK, WordsClean
    <2>2. \A i \in Place : buf[i] = Now(i)
      BY <2>1 DEF WordsFilled, Place
    <2> QED  BY <2>1, <2>2 DEF Own, Now
  <1> QED  BY <1>1, AuxInvariance, PTL

(* In the same histories no word goes over the wires while the counter chip *)
(* is not selected.                                                         *)
THEOREM WordsUnderSelect == AuxSafeSpec => WordsAreFramed
  <1>1. AuxInv /\ [AuxNext]_auxVars
          => [shifter' \notin {shifter, None} => cs \/ dirty]_auxVars
    <2> SUFFICES ASSUME AuxInv, AuxNext, shifter' \notin {shifter, None}, ~dirty
                 PROVE  cs
      BY DEF auxVars
    <2>1. Load
      BY DEF AuxNext, Poll, Begin, ReadStatus, bcm2835aux_wr_fifo,
             bcm2835aux_rd_fifo, AuxKeepPolling, AuxGiveUp, Done,
             AuxJiffies, Store, Lose, auxCall, auxHw
    <2>2. Len(rx) \in Nat /\ Len(tx) \in Nat /\ Len(tx) > 0 /\ Shifting \in {0, 1}
      BY <2>1 DEF Load, AuxInv, AuxTypeOK, Shifting
    <2>3. rx_len > 0
      BY <2>2 DEF AuxInv, AuxTypeOK, WordsClean, WordsPipeline
    <2> QED  BY <2>3 DEF AuxInv, WordsClean
  <1> QED  BY <1>1, AuxInvariance, PTL DEF AuxSafeSpec, WordsAreFramed

(* Once the clock has run out, a transfer is over after at most 4 * Words   *)
(* + 2 turns of the loop, whatever the controller does or fails to do: a    *)
(* turn that skips the clock has moved a word.  This is what                *)
(* EveryTransferReturns needs apart from the loop and jiffies going on.     *)
AuxRank ==
    IF pc = "idle" THEN 0
    ELSE 2 * (tx_len + rx_len) + (IF pc = "status" THEN 2 ELSE 1)

AuxRankFalls ==
    [][late /\ pc # "idle" =>
          IF Poll THEN AuxRank' < AuxRank ELSE AuxRank' = AuxRank]_auxVars

THEOREM AuxTransfersEnd ==
    AuxSafeSpec => [](AuxRank \in 0..(4 * Words + 2)) /\ AuxRankFalls
  <1>1. AuxInv => AuxRank \in 0..(4 * Words + 2)
    <2> SUFFICES ASSUME AuxInv PROVE AuxRank \in 0..(4 * Words + 2)
      OBVIOUS
    <2>1. tx_len \in 0..Words /\ rx_len \in 0..Words /\ Words \in Nat
      BY SizeAssumption DEF AuxInv, AuxTypeOK
    <2> QED  BY <2>1 DEF AuxRank
  <1>2. AuxInv /\ [AuxNext]_auxVars =>
            [late /\ pc # "idle" =>
                IF Poll THEN AuxRank' < AuxRank ELSE AuxRank' = AuxRank]_auxVars
    <2> SUFFICES ASSUME AuxInv, AuxNext, late, pc # "idle"
                 PROVE  IF Poll THEN AuxRank' < AuxRank ELSE AuxRank' = AuxRank
      BY DEF auxVars
    <2>1. tx_len \in Nat /\ rx_len \in Nat
      BY SizeAssumption DEF AuxInv, AuxTypeOK
    <2>r. /\ pc = "status" => AuxRank = 2 * (tx_len + rx_len) + 2
          /\ pc = "act" => AuxRank = 2 * (tx_len + rx_len) + 1
          /\ pc' = "idle" => AuxRank' = 0
          /\ pc' = "status" => AuxRank' = 2 * (tx_len' + rx_len') + 2
          /\ pc' = "act" => AuxRank' = 2 * (tx_len' + rx_len') + 1
      BY DEF AuxRank
    <2>2. ASSUME Poll PROVE AuxRank' < AuxRank
      <3>1. CASE ReadStatus
        BY <2>1, <2>r, <3>1 DEF ReadStatus
      <3>2. CASE bcm2835aux_wr_fifo
        BY <2>1, <2>r, <3>2 DEF bcm2835aux_wr_fifo, MayWrite
      <3>3. CASE bcm2835aux_rd_fifo
        BY <2>1, <2>r, <3>3 DEF bcm2835aux_rd_fifo
      <3>4. CASE AuxKeepPolling
        BY <3>4 DEF AuxKeepPolling, MustGiveUp
      <3>5. CASE AuxGiveUp \/ Done
        <4>1. pc \in {"act", "status"} /\ pc' = "idle"
          BY <3>5 DEF AuxGiveUp, Done
        <4> QED  BY <2>1, <2>r, <4>1
      <3> QED  BY <2>2, <3>1, <3>2, <3>3, <3>4, <3>5 DEF Poll
    <2>3. ASSUME ~Poll PROVE AuxRank' = AuxRank
      <3>1. UNCHANGED <<pc, tx_len, rx_len>>
        BY <2>3 DEF AuxNext, Begin, AuxJiffies, Load, Store, Lose, auxCall
      <3> QED  BY <3>1 DEF AuxRank
    <2> QED  BY <2>2, <2>3
  <1> QED  BY <1>1, <1>2, AuxInvariance, PTL DEF AuxSafeSpec, AuxRankFalls
=============================================================================
