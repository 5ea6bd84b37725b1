-------------------------- MODULE UdpBridgeProofs --------------------------
(***************************************************************************)
(* For any number of entries, datagrams and characters, whichever entries   *)
(* refuse values and whenever the program may crash: /proc shows the latest  *)
(* write until SIGINT, nothing goes back to an older datagram, the lines to *)
(* the PC are whole, and SIGINT brings the end closer with every step.      *)
(*                                                                          *)
(* The invariant behind the first two: numbered datagrams wait in the order *)
(* in which they came, all of them younger than the ones in use.            *)
(***************************************************************************)
EXTENDS UdpBridge, TLAPS

USE BridgeAssumption

Applying == recv \in {"open", "put"}

Numbered(d) == d.kind \in {"write", "serial"}

Live == ~stop /\ ~ended

AtInv == Applying => at \in File

(* Before SIGINT nobody closes the socket.                                  *)
OpenInv ==
    Live => /\ sockfd = "socket" /\ ~reused
            /\ \A s \in Sender : sender[s] = "loop"
            /\ recv \notin {"close", "exited"}

LineInv == clean => line = arrived

(* The numbers that have been applied or are about to be.                   *)
InUse ==
    {proc[f] : f \in File} \cup {uart}
        \cup (IF Applying THEN {rx.number} ELSE {})
        \cup (IF ser = "put" THEN {ser_rx.number} ELSE {})

(* What waits is younger than all of them, and in order.                    *)
Waiting ==
    /\ \A n \in InUse : n <= came
    /\ \A i \in 1..Len(inbox) : Numbered(inbox[i]) =>
          /\ inbox[i].number <= came
          /\ \A n \in InUse : n < inbox[i].number
    /\ \A i, j \in 1..Len(inbox) :
          i < j /\ Numbered(inbox[i]) /\ Numbered(inbox[j])
            => inbox[i].number < inbox[j].number

(* What is about to be applied is not older than what it replaces.          *)
Forward ==
    /\ Applying => \A f \in File : proc[f] <= rx.number
    /\ ser = "put" => uart < ser_rx.number

(* What the entries that recvthread has still to go to are meant to show.   *)
AskedInv ==
    Live /\ Applying =>
        \A f \in File \ Stray : at <= f =>
            asked[f] = IF f \in rx.bad THEN proc[f] ELSE rx.number

IInv ==
    /\ TypeOK /\ AtInv /\ OpenInv /\ LineInv /\ Waiting /\ Forward /\ AskedInv
    /\ OneDatagramAtATime

LEMMA ConstantTypes == /\ NumFiles \in File /\ NumFiles \in Nat /\ NumFiles > 0
                       /\ MaxNumber \in Nat /\ InboxSize \in Nat /\ InboxSize > 0
                       /\ Room \in Nat /\ 0 \in Number /\ Nothing \in Datagram
                       /\ \A f \in File : f \in Nat
  BY DEF File, Number, Nothing, Datagram

LEMMA InitInv == Init => IInv
  <1> SUFFICES ASSUME Init PROVE IInv
    OBVIOUS
  <1>1. Len(inbox) = 0 /\ inbox \in Seq(Datagram) /\ ~Applying /\ ser # "put"
    BY DEF Init, Applying
  <1>2. /\ proc \in [File -> Number] /\ \A f \in File : proc[f] = 0
        /\ asked = proc /\ uart = 0 /\ came = 0
    BY ConstantTypes DEF Init
  <1>3. TypeOK
    <2>1. sender \in [Sender -> {"loop", "close", "exited"}]
      BY DEF Init
    <2>2. line \in Buffer /\ arrived \in Buffer
      BY ConstantTypes DEF Init, Buffer
    <2>3. Len(inbox) <= InboxSize
      BY <1>1, ConstantTypes
    <2>4. came \in Number /\ uart \in Number /\ rx \in Datagram /\ ser_rx \in Datagram
            /\ at \in File \cup {NumFiles + 1}
      BY ConstantTypes DEF Init
    <2>5. /\ stop \in BOOLEAN /\ reused \in BOOLEAN /\ ended \in BOOLEAN
          /\ spilled \in BOOLEAN /\ clean \in BOOLEAN
      BY DEF Init
    <2>6. /\ sockfd \in {"socket", "file", "free"}
          /\ reader \in {"loop", "send", "exited"}
          /\ recv \in {"test", "call", "wait", "open", "put", "close", "exited"}
          /\ ser \in {"test", "call", "wait", "put", "exited"}
      BY DEF Init
    <2> QED  BY <1>1, <1>2, <2>1, <2>2, <2>3, <2>4, <2>5, <2>6 DEF TypeOK
  <1>4. AtInv /\ OpenInv /\ LineInv /\ AskedInv
    BY <1>1 DEF Init, AtInv, OpenInv, LineInv, AskedInv
  <1>5. Waiting /\ Forward
    <2>1. \A n \in InUse : n = 0
      BY <1>1, <1>2 DEF InUse
    <2> QED  BY <1>1, <1>2, <2>1 DEF Waiting, Forward
  <1>6. OneDatagramAtATime
    BY <1>1, <1>2 DEF OneDatagramAtATime, Applying
  <1> QED  BY <1>3, <1>4, <1>5, <1>6 DEF IInv

-----------------------------------------------------------------------------
(* The socket as a queue.                                                   *)

LEMMA TakeOne ==
    ASSUME TypeOK, inbox # <<>>
    PROVE  /\ Head(inbox) = inbox[1] /\ Head(inbox) \in Datagram
           /\ 1 \in 1..Len(inbox)
           /\ Tail(inbox) \in Seq(Datagram) /\ Len(Tail(inbox)) = Len(inbox) - 1
           /\ Len(inbox) \in Nat /\ Len(inbox) >= 1
           /\ \A i \in 1..Len(Tail(inbox)) :
                 Tail(inbox)[i] = inbox[i + 1] /\ i + 1 \in 1..Len(inbox)
  BY DEF TypeOK

LEMMA SomethingArrives ==
    ASSUME TypeOK, NumberedComes \/ OtherComes
    PROVE  \E d \in Datagram : /\ Arrive(d) /\ came' \in Number /\ came <= came'
                               /\ Numbered(d) => came < d.number /\ d.number <= came'
  <1>1. came \in Nat /\ came <= MaxNumber
    BY DEF TypeOK, Number
  <1>2. CASE NumberedComes
    <2>1. came' = came + 1 /\ came < MaxNumber /\ came + 1 \in Number
      BY <1>1, <1>2, ConstantTypes DEF NumberedComes, Number
    <2>2. PICK k \in {"write", "serial"}, b \in SUBSET Refusing :
              Arrive([kind |-> k, number |-> came + 1, bad |-> b])
      BY <1>2 DEF NumberedComes
    <2>3. [kind |-> k, number |-> came + 1, bad |-> b] \in Datagram
      BY <2>1 DEF Datagram
    <2> QED  BY <1>1, <2>1, <2>2, <2>3
  <1>3. CASE OtherComes
    <2>1. PICK k \in {"short", "other"} :
              Arrive([kind |-> k, number |-> 0, bad |-> {}]) /\ came' = came
      BY <1>3 DEF OtherComes
    <2>2. /\ [kind |-> k, number |-> 0, bad |-> {}] \in Datagram
          /\ ~Numbered([kind |-> k, number |-> 0, bad |-> {}])
      BY ConstantTypes DEF Datagram, Numbered
    <2>3. came' \in Number /\ came <= came'
      BY <1>1, <2>1, ConstantTypes DEF Number
    <2> QED  BY <2>1, <2>2, <2>3
  <1> QED  BY <1>2, <1>3

LEMMA InUseTypes ==
    ASSUME TypeOK
    PROVE  /\ \A n \in InUse : n \in Nat
           /\ \A i \in 1..Len(inbox) : inbox[i] \in Datagram
           /\ \A d \in Datagram : d.number \in Nat
           /\ came \in Nat /\ uart \in InUse
           /\ \A f \in File : proc[f] \in InUse
           /\ Applying => rx.number \in InUse
           /\ ser = "put" => ser_rx.number \in InUse
  <1>1. /\ proc \in [File -> Number] /\ uart \in Number /\ rx \in Datagram
        /\ ser_rx \in Datagram /\ came \in Number /\ inbox \in Seq(Datagram)
    BY DEF TypeOK
  <1>2. \A n \in Number : n \in Nat
    BY DEF Number
  <1>3. \A d \in Datagram : d.number \in Number
    BY DEF Datagram
  <1>4. \A i \in 1..Len(inbox) : inbox[i] \in Datagram
    BY <1>1
  <1>5. \A n \in InUse : n \in Number
    BY <1>1, <1>3 DEF InUse
  <1> QED  BY <1>1, <1>2, <1>3, <1>4, <1>5 DEF InUse

(* Neither the queue nor the numbers in use change, or fewer are in use.    *)
LEMMA WaitingSame ==
    ASSUME Waiting, UNCHANGED <<inbox, came>>, InUse' \subseteq InUse
    PROVE  Waiting'
  BY DEF Waiting, Numbered

(* The head of the queue is taken, and perhaps put to use.                  *)
LEMMA WaitingTake ==
    ASSUME TypeOK, Waiting, inbox # <<>>, inbox' = Tail(inbox), came' = came,
           \A n \in InUse' :
               n \in InUse \/ (Numbered(inbox[1]) /\ n = inbox[1].number)
    PROVE  Waiting'
  <1>1. /\ Len(inbox) \in Nat /\ Len(inbox) >= 1 /\ 1 \in 1..Len(inbox)
        /\ \A i \in 1..Len(inbox') :
              inbox'[i] = inbox[i + 1] /\ i + 1 \in 1..Len(inbox) /\ 1 < i + 1
    BY DEF TypeOK
  <1>2. \A n \in InUse' : n <= came'
    BY <1>1 DEF Waiting
  <1>3. ASSUME NEW i \in 1..Len(inbox'), Numbered(inbox'[i])
        PROVE  inbox'[i].number <= came' /\ \A n \in InUse' : n < inbox'[i].number
    <2>1. /\ inbox'[i] = inbox[i + 1] /\ i + 1 \in 1..Len(inbox) /\ 1 < i + 1
          /\ Numbered(inbox[i + 1])
      BY <1>1, <1>3
    <2>2. inbox[i + 1].number <= came /\ \A n \in InUse : n < inbox[i + 1].number
      BY <2>1 DEF Waiting
    <2>3. Numbered(inbox[1]) => inbox[1].number < inbox[i + 1].number
      BY <1>1, <2>1 DEF Waiting
    <2> QED  BY <2>1, <2>2, <2>3
  <1>4. ASSUME NEW i \in 1..Len(inbox'), NEW j \in 1..Len(inbox'), i < j,
               Numbered(inbox'[i]), Numbered(inbox'[j])
        PROVE  inbox'[i].number < inbox'[j].number
    <2>1. /\ inbox'[i] = inbox[i + 1] /\ i + 1 \in 1..Len(inbox)
          /\ inbox'[j] = inbox[j + 1] /\ j + 1 \in 1..Len(inbox) /\ i + 1 < j + 1
      BY <1>1, <1>4
    <2> QED  BY <1>4, <2>1 DEF Waiting
  <1> QED  BY <1>2, <1>3, <1>4 DEF Waiting, Numbered

(* A younger datagram, or one without a number, joins the queue.            *)
LEMMA WaitingArrive ==
    ASSUME TypeOK, Waiting, NEW d \in Datagram, Arrive(d), came' \in Number,
           came <= came', Numbered(d) => came < d.number /\ d.number <= came'
    PROVE  Waiting'
  <1>1. /\ Len(inbox) \in Nat /\ Len(inbox') = Len(inbox) + 1
        /\ inbox'[Len(inbox) + 1] = d
        /\ \A i \in 1..Len(inbox) : inbox'[i] = inbox[i] /\ inbox[i].number \in Nat
        /\ \A n \in InUse : n \in Nat
        /\ came \in Nat /\ came' \in Nat /\ d.number \in Nat
    BY InUseTypes DEF Arrive, TypeOK, Number
  <1>2. InUse' = InUse
    BY DEF Arrive, receiving, taking, others, serial, InUse, Applying
  <1>3. \A i \in 1..Len(inbox') : i \in 1..Len(inbox) \/ i = Len(inbox) + 1
    BY <1>1
  <1>4. \A n \in InUse' : n <= came'
    BY <1>1, <1>2 DEF Waiting
  <1>5. ASSUME NEW i \in 1..Len(inbox'), Numbered(inbox'[i])
        PROVE  inbox'[i].number <= came' /\ \A n \in InUse' : n < inbox'[i].number
    <2>1. CASE i \in 1..Len(inbox)
      <3>1. inbox'[i] = inbox[i] /\ inbox[i].number \in Nat
        BY <1>1, <2>1
      <3>2. inbox[i].number <= came /\ \A n \in InUse : n < inbox[i].number
        BY <1>5, <2>1, <3>1 DEF Waiting
      <3> QED  BY <1>1, <1>2, <3>1, <3>2
    <2>2. CASE i = Len(inbox) + 1
      <3>1. inbox'[i] = d /\ came < d.number /\ d.number <= came'
        BY <1>1, <1>5, <2>2
      <3>2. \A n \in InUse : n <= came
        BY DEF Waiting
      <3> QED  BY <1>1, <1>2, <3>1, <3>2
    <2> QED  BY <1>3, <2>1, <2>2
  <1>6. ASSUME NEW i \in 1..Len(inbox'), NEW j \in 1..Len(inbox'), i < j,
               Numbered(inbox'[i]), Numbered(inbox'[j])
        PROVE  inbox'[i].number < inbox'[j].number
    <2>1. i \in 1..Len(inbox) /\ inbox'[i] = inbox[i]
      BY <1>1, <1>3, <1>6
    <2>2. CASE j \in 1..Len(inbox)
      <3>1. inbox'[j] = inbox[j]
        BY <1>1, <2>2
      <3> QED  BY <1>6, <2>1, <2>2, <3>1 DEF Waiting
    <2>3. CASE j = Len(inbox) + 1
      <3>1. inbox'[j] = d /\ came < d.number
        BY <1>1, <1>6, <2>3
      <3>2. inbox[i].number <= came /\ inbox[i].number \in Nat
        BY <1>1, <1>6, <2>1 DEF Waiting
      <3> QED  BY <1>1, <2>1, <3>1, <3>2
    <2> QED  BY <1>3, <2>2, <2>3
  <1> QED  BY <1>4, <1>5, <1>6 DEF Waiting, Numbered

-----------------------------------------------------------------------------
(* A datagram that is taken, and what becomes of it.                        *)
Taken == IsMessage(Head(inbox)) /\ rx'.kind = "write"

LEMMA TypeNext == IInv /\ [Next]_vars => TypeOK' /\ AtInv' /\ LineInv'
  <1> SUFFICES ASSUME IInv, [Next]_vars PROVE TypeOK' /\ AtInv' /\ LineInv'
    OBVIOUS
  <1> USE ConstantTypes
  <1> USE DEF IInv, TypeOK, AtInv, LineInv, Applying, taking, receiving, serial,
              reading, others
  <1>1. CASE RecvTest \/ RecvCall
    BY <1>1 DEF RecvTest, RecvNext, RecvCall
  <1>1a. CASE RecvClose
    <2>1. rx' \in Datagram /\ at' \in File \cup {NumFiles + 1}
      BY <1>1a DEF RecvClose
    <2> QED  BY <1>1a, <2>1 DEF RecvClose
  <1>2. CASE RecvTake
    <2>1. rx' \in Datagram
      BY <1>2, TakeOne DEF RecvTake, Received
    <2>2. inbox' \in Seq(Datagram) /\ Len(inbox') <= InboxSize
      BY <1>2, TakeOne DEF RecvTake
    <2>3. at' \in File \cup {NumFiles + 1} /\ AtInv' /\ recv' \in {"open", "test"}
      BY <1>2 DEF RecvTake, File
    <2>4. asked' \in [File -> Number]
      <3>1. rx'.number \in Number
        BY <2>1 DEF Datagram
      <3>2. asked' = asked
              \/ asked' = [f \in File |->
                              IF f \in rx'.bad THEN asked[f] ELSE rx'.number]
        BY <1>2 DEF RecvTake
      <3> QED  BY <3>1, <3>2
    <2>5. UNCHANGED <<stop, sockfd, came, reused, proc, others>>
      BY <1>2 DEF RecvTake
    <2> QED  BY <2>1, <2>2, <2>3, <2>4, <2>5
  <1>3. CASE OpenFile
    BY <1>3 DEF OpenFile
  <1>4. CASE PutFile
    <2>1. at \in File /\ at' = at + 1
      BY <1>4 DEF PutFile
    <2>2. at' \in File \cup {NumFiles + 1} /\ (~LastFile => at' \in File)
      BY <2>1 DEF File, LastFile
    <2>3. proc' \in [File -> Number]
      <3>1. rx.number \in Number
        BY DEF Datagram
      <3>2. proc' = proc \/ proc' = [proc EXCEPT ![at] = rx.number]
        BY <1>4 DEF PutFile
      <3> QED  BY <3>1, <3>2
    <2>4. recv' \in {"test", "open"} /\ (Applying' => ~LastFile)
      BY <1>4 DEF PutFile
    <2>5. sockfd' \in {"socket", "file", "free"}
            /\ UNCHANGED <<stop, inbox, came, rx, reused, asked, others>>
      BY <1>4 DEF PutFile
    <2> QED  BY <2>2, <2>3, <2>4, <2>5
  <1>5. CASE SerialTest \/ SerialCall \/ PutSerial
    BY <1>5 DEF SerialTest, SerialCall, PutSerial, Datagram
  <1>6. CASE SerialTake
    <2>1. inbox' \in Seq(Datagram) /\ Len(inbox') <= InboxSize
            /\ Head(inbox) \in Datagram
      BY <1>6, TakeOne DEF SerialTake
    <2> QED  BY <1>6, <2>1 DEF SerialTake
  <1>a. ASSUME NEW c \in Character, AppendCharacter(c)
        PROVE  /\ line' \in Buffer /\ spilled' \in BOOLEAN
               /\ reader' \in {"send", "loop"}
               /\ ~spilled' => line' = (IF c = "NUL" THEN line ELSE line + 1)
    <2>1. line \in Nat /\ line + 1 \in Nat
      BY DEF Buffer
    <2>2. ASSUME spilled' PROVE line' \in Buffer
      BY <1>a, <2>2 DEF AppendCharacter, Buffer
    <2>3. ASSUME ~spilled'
          PROVE  line' \in Buffer /\ line' = (IF c = "NUL" THEN line ELSE line + 1)
      <3> DEFINE length == line + (IF c = "NUL" THEN 0 ELSE 1)
      <3>1. /\ spilled' = (spilled \/ length > Room)
            /\ line' = IF spilled' THEN Room + 1 ELSE length
        BY <1>a DEF AppendCharacter
      <3>2. ~(length > Room)
        BY <2>3, <3>1, Zenon
      <3>3. line' = length
        BY <2>3, <3>1
      <3>4. length \in Nat /\ length = IF c = "NUL" THEN line ELSE line + 1
        BY <2>1
      <3>5. length \in Buffer
        BY <3>2, <3>4 DEF Buffer
      <3> QED  BY <3>3, <3>4, <3>5
    <2>4. spilled' \in BOOLEAN /\ reader' \in {"send", "loop"}
      BY <1>a DEF AppendCharacter
    <2> QED  BY <2>2, <2>3, <2>4
  <1>7. CASE ReadCharacter
    <2>1. PICK c \in Character :
             /\ AppendCharacter(c)
             /\ clean' = (clean /\ ~spilled')
             /\ arrived' = IF clean' /\ c # "NUL" THEN arrived + 1
                           ELSE IF clean' THEN arrived ELSE 0
      BY <1>7 DEF ReadCharacter
    <2>2. clean' \in BOOLEAN /\ (clean' => clean /\ ~spilled')
      BY <2>1, Zenon
    <2>3. clean' => arrived' = line'
      BY <1>a, <2>1, <2>2
    <2>4. arrived' \in Buffer
      <3>1. CASE clean'
        BY <1>a, <2>1, <2>3, <3>1
      <3>2. CASE ~clean'
        BY <2>1, <3>2 DEF Buffer
      <3> QED  BY <3>1, <3>2
    <2>5. line' \in Buffer /\ spilled' \in BOOLEAN /\ reader' \in {"send", "loop"}
      BY <1>a, <2>1
    <2>6. UNCHANGED <<stop, sockfd, inbox, came, receiving, serial, sender, ended>>
      BY <1>7 DEF ReadCharacter
    <2> QED  BY <2>2, <2>3, <2>4, <2>5, <2>6
  <1>7a. CASE ReadFails
    <2>1. line' \in Buffer /\ spilled' \in BOOLEAN /\ reader' \in {"send", "loop"}
      BY <1>a, <1>7a DEF ReadFails
    <2>2. clean' \in BOOLEAN /\ ~clean'
      BY <1>7a DEF ReadFails
    <2>4. arrived' \in Buffer
      BY <1>7a DEF ReadFails, Buffer
    <2>3. UNCHANGED <<stop, sockfd, inbox, came, receiving, serial, sender, ended>>
      BY <1>7a DEF ReadFails
    <2> QED  BY <2>1, <2>2, <2>3, <2>4
  <1>8. CASE SendLine \/ ReaderLeaves
    <2>1. line' = 0 /\ arrived' = 0 /\ 0 \in Buffer
      BY <1>8 DEF SendLine, ReaderLeaves, EmptyLine, Buffer
    <2>3. clean' \in BOOLEAN
      BY <1>8, Zenon DEF SendLine, ReaderLeaves
    <2>2. reader' \in {"loop", "exited"} /\ UNCHANGED <<stop, sockfd, inbox, came,
                                    receiving, serial, sender, spilled, ended>>
      BY <1>8 DEF SendLine, ReaderLeaves
    <2> QED  BY <2>1, <2>2, <2>3
  <1>9. ASSUME NEW s \in Sender, sending(s) PROVE TypeOK' /\ AtInv' /\ LineInv'
    <2>1. sender' \in [Sender -> {"loop", "close", "exited"}]
      BY <1>9 DEF sending, Leave, CloseSocket
    <2> QED  BY <1>9, <2>1 DEF sending, Leave, CloseSocket
  <1>9a. CASE OpenFails \/ Overrun
    <2>1. /\ recv' = "exited" /\ ser' = "exited" /\ reader' = "exited"
          /\ sockfd' = "free" /\ inbox' = <<>> /\ ended' = TRUE /\ reused' = FALSE
          /\ rx' = Nothing /\ ser_rx' = Nothing /\ at' = NumFiles + 1
          /\ line' = 0 /\ arrived' = 0 /\ spilled' = FALSE /\ clean' = FALSE
          /\ UNCHANGED <<stop, came, proc, asked, uart>>
      BY <1>9a DEF OpenFails, Overrun, Crash
    <2>2. sender' \in [Sender -> {"loop", "close", "exited"}]
      BY <1>9a DEF OpenFails, Overrun, Crash
    <2>3. inbox' \in Seq(Datagram) /\ Len(inbox') <= InboxSize /\ 0 \in Buffer
      BY <2>1 DEF Buffer
    <2> QED  BY <2>1, <2>2, <2>3
  <1>10. CASE inthand
    BY <1>10 DEF inthand
  <1>10a. CASE main
    <2>1. ended' \in BOOLEAN /\ UNCHANGED <<stop, sockfd, inbox, came, receiving,
                                           serial, sender, reading>>
      BY <1>10a DEF main
    <2> QED  BY <2>1
  <1>11. CASE NumberedComes \/ OtherComes
    <2>1. PICK d \in Datagram : Arrive(d) /\ came' \in Number
      BY <1>11, SomethingArrives
    <2>2. inbox' \in Seq(Datagram) /\ Len(inbox') <= InboxSize
      BY <2>1 DEF Arrive
    <2> QED  BY <2>1, <2>2 DEF Arrive
  <1>12. CASE UNCHANGED vars
    BY <1>12 DEF vars
  <1> QED  BY <1>1, <1>1a, <1>2, <1>3, <1>4, <1>5, <1>6, <1>7, <1>7a, <1>8, <1>9, <1>9a,
              <1>10, <1>10a, <1>11, <1>12
           DEF Next, recvthread, serial_write, serial_read

LEMMA LiveBefore == TypeOK /\ [Next]_vars /\ Live' => Live
  <1> SUFFICES ASSUME TypeOK, [Next]_vars, ~stop', ~ended' PROVE ~stop /\ ~ended
    BY DEF Live
  <1> USE DEF taking, receiving, serial, reading, others
  <1>1. CASE recvthread
    BY <1>1 DEF recvthread, RecvTest, RecvCall, RecvTake, OpenFile, PutFile, RecvClose
  <1>2. CASE serial_write
    BY <1>2 DEF serial_write, SerialTest, SerialCall, SerialTake, PutSerial
  <1>3. CASE serial_read
    BY <1>3 DEF serial_read, ReadCharacter, ReadFails, SendLine, ReaderLeaves
  <1>4. ASSUME NEW s \in Sender, sending(s) PROVE ~stop /\ ~ended
    BY <1>4 DEF sending, Leave, CloseSocket
  <1>5. CASE OpenFails \/ Overrun \/ inthand \/ main
    BY <1>5 DEF OpenFails, Overrun, Crash, inthand, main
  <1>6. CASE NumberedComes \/ OtherComes
    <2>1. PICK d \in Datagram : Arrive(d)
      BY <1>6, SomethingArrives
    <2> QED  BY <2>1 DEF Arrive
  <1>7. CASE UNCHANGED vars
    BY <1>7 DEF vars
  <1> QED  BY <1>1, <1>2, <1>3, <1>4, <1>5, <1>6, <1>7 DEF Next

LEMMA OpenNext == IInv /\ [Next]_vars => OpenInv'
  <1> SUFFICES ASSUME IInv, [Next]_vars, Live' PROVE OpenInv'
    BY DEF OpenInv
  <1>0. Live /\ ~stop /\ ~ended /\ ~stop' /\ ~ended'
    BY LiveBefore DEF IInv, Live
  <1>1. /\ sockfd = "socket" /\ ~reused /\ recv \notin {"close", "exited"}
        /\ \A s \in Sender : sender[s] = "loop"
    BY <1>0 DEF IInv, OpenInv
  <1> USE DEF OpenInv, taking, receiving, serial, reading, others
  <1>2. CASE recvthread
    BY <1>0, <1>1, <1>2 DEF recvthread, RecvTest, RecvNext, RecvCall, RecvTake,
                            OpenFile, PutFile, RecvClose
  <1>3. CASE serial_write
    BY <1>1, <1>3 DEF serial_write, SerialTest, SerialCall, SerialTake, PutSerial
  <1>4. CASE serial_read
    BY <1>1, <1>4 DEF serial_read, ReadCharacter, ReadFails, SendLine, ReaderLeaves
  <1>5. ASSUME NEW s \in Sender, sending(s) PROVE FALSE
    BY <1>0, <1>1, <1>5 DEF sending, Leave, CloseSocket
  <1>6. CASE inthand \/ main \/ NumberedComes \/ OtherComes
    BY <1>1, <1>6 DEF inthand, main, NumberedComes, OtherComes, Arrive
  <1>7. CASE OpenFails \/ Overrun
    BY <1>0, <1>7 DEF OpenFails, Overrun, Crash
  <1>8. CASE UNCHANGED vars
    BY <1>1, <1>8 DEF vars
  <1> QED  BY <1>2, <1>3, <1>4, <1>5, <1>6, <1>7, <1>8 DEF Next

LEMMA WaitingNext == IInv /\ [Next]_vars => Waiting' /\ Forward'
  <1> SUFFICES ASSUME IInv, [Next]_vars PROVE Waiting' /\ Forward'
    OBVIOUS
  <1> USE ConstantTypes
  <1> USE DEF taking, others
  <1>t. TypeOK /\ AtInv /\ Waiting /\ Forward
    BY DEF IInv
  <1>u. /\ \A n \in InUse : n \in Nat
        /\ \A d \in Datagram : d.number \in Nat
        /\ uart \in InUse /\ \A f \in File : proc[f] \in InUse
        /\ Applying => rx.number \in InUse
        /\ ser = "put" => ser_rx.number \in InUse
    BY <1>t, InUseTypes
  <1>s. ASSUME UNCHANGED <<proc, rx, uart, ser_rx>>, Applying' = Applying,
               ser' = "put" <=> ser = "put"
        PROVE  InUse' = InUse /\ Forward'
    BY <1>s, <1>t DEF InUse, Forward
  <1>1. CASE RecvTest \/ RecvCall \/ OpenFile
    <2>1. /\ UNCHANGED <<proc, rx, inbox, came, uart, ser_rx, ser>>
          /\ Applying' = Applying
      BY <1>1 DEF RecvTest, RecvNext, RecvCall, OpenFile, Applying, serial
    <2> QED  BY <1>s, <1>t, <2>1, WaitingSame
  <1>1a. CASE RecvClose \/ OpenFails \/ Overrun
    <2>1. /\ UNCHANGED <<proc, came, uart>> /\ ~Applying'
          /\ \/ UNCHANGED <<inbox, ser, ser_rx>>
             \/ inbox' = <<>> /\ ser' = "exited"
      BY <1>1a DEF RecvClose, OpenFails, Overrun, Crash, Applying, serial
    <2>2. InUse' \subseteq InUse
      BY <2>1 DEF InUse
    <2>3. Forward'
      BY <1>t, <2>1 DEF Forward
    <2>4. CASE UNCHANGED inbox
      BY <1>t, <2>1, <2>2, <2>3, <2>4, WaitingSame
    <2>5. CASE inbox' = <<>>
      BY <1>t, <2>1, <2>2, <2>3, <2>5 DEF Waiting
    <2> QED  BY <2>1, <2>3, <2>4, <2>5
  <1>2. CASE RecvTake
    <2>1. /\ recv = "wait" /\ inbox # <<>> /\ inbox' = Tail(inbox) /\ proc' = proc
          /\ came' = came /\ rx' = Received(Head(inbox), rx) /\ ~Applying
          /\ UNCHANGED <<ser, ser_rx, uart>>
      BY <1>2 DEF RecvTake, Applying, serial
    <2>2. Head(inbox) = inbox[1] /\ 1 \in 1..Len(inbox)
      BY <1>t, <2>1 DEF TypeOK
    <2>3. CASE IsMessage(Head(inbox)) /\ rx'.kind = "write"
      <3>1. rx' = inbox[1] /\ Numbered(inbox[1]) /\ Applying'
        BY <1>2, <2>1, <2>2, <2>3 DEF RecvTake, Received, IsMessage, Numbered, Applying
      <3>2. \A n \in InUse' : n \in InUse \/ n = inbox[1].number
        BY <2>1, <3>1 DEF InUse
      <3>3. Waiting'
        BY <1>t, <2>1, <3>1, <3>2, WaitingTake
      <3>4. \A n \in InUse : n < inbox[1].number
        BY <1>t, <2>2, <3>1 DEF Waiting
      <3>5. \A f \in File : proc'[f] <= rx'.number
        <4>1. inbox[1].number \in Nat
          BY <1>t, <1>u, <2>2, InUseTypes
        <4> QED  BY <1>u, <2>1, <3>1, <3>4, <4>1
      <3>6. ser' = "put" => uart' < ser_rx'.number
        BY <1>t, <2>1 DEF Forward
      <3> QED  BY <3>3, <3>5, <3>6 DEF Forward
    <2>4. CASE ~(IsMessage(Head(inbox)) /\ rx'.kind = "write")
      <3>1. ~Applying'
        BY <1>2, <2>4 DEF RecvTake, Applying
      <3>2. \A n \in InUse' : n \in InUse
        BY <2>1, <3>1 DEF InUse
      <3>3. Waiting'
        BY <1>t, <2>1, <3>2, WaitingTake
      <3>4. ser' = "put" => uart' < ser_rx'.number
        BY <1>t, <2>1 DEF Forward
      <3> QED  BY <3>1, <3>3, <3>4 DEF Forward
    <2> QED  BY <2>3, <2>4
  <1>3. CASE PutFile
    <2>1. /\ Applying /\ at \in File /\ proc \in [File -> Number] /\ rx' = rx
          /\ UNCHANGED <<inbox, came, ser, ser_rx, uart>>
          /\ proc' = proc \/ proc' = [proc EXCEPT ![at] = rx.number]
      BY <1>3, <1>t DEF PutFile, Applying, AtInv, TypeOK, serial
    <2>2. \A f \in File : proc'[f] = proc[f] \/ proc'[f] = rx.number
      BY <2>1
    <2>3. InUse' \subseteq InUse
      BY <1>u, <2>1, <2>2 DEF InUse
    <2>4. rx.number \in Nat /\ \A f \in File : proc[f] <= rx.number
      BY <1>t, <1>u, <2>1 DEF Forward
    <2>5. \A f \in File : proc'[f] <= rx'.number
      BY <2>1, <2>2, <2>4
    <2>6. ser' = "put" => uart' < ser_rx'.number
      BY <1>t, <2>1 DEF Forward
    <2> QED  BY <1>t, <2>1, <2>3, <2>5, <2>6, WaitingSame DEF Forward
  <1>4. CASE SerialTest \/ SerialCall
    <2>1. /\ UNCHANGED <<proc, rx, recv, inbox, came, uart, ser_rx>>
          /\ ser # "put" /\ ser' # "put"
      BY <1>4 DEF SerialTest, SerialCall, receiving
    <2> QED  BY <1>s, <1>t, <2>1, WaitingSame DEF Applying
  <1>5. CASE SerialTake
    <2>1. /\ ser = "wait" /\ inbox # <<>> /\ inbox' = Tail(inbox) /\ came' = came
          /\ UNCHANGED <<proc, rx, recv, uart>> /\ Applying' = Applying
      BY <1>5 DEF SerialTake, receiving, Applying
    <2>2. Head(inbox) = inbox[1] /\ 1 \in 1..Len(inbox)
      BY <1>t, <2>1 DEF TypeOK
    <2>3. CASE IsMessage(Head(inbox)) /\ Head(inbox).kind = "serial"
      <3>1. ser' = "put" /\ ser_rx' = inbox[1] /\ Numbered(inbox[1])
        BY <1>5, <2>2, <2>3 DEF SerialTake, Numbered
      <3>2. \A n \in InUse' : n \in InUse \/ n = inbox[1].number
        BY <2>1, <3>1 DEF InUse
      <3>3. Waiting'
        BY <1>t, <2>1, <3>1, <3>2, WaitingTake
      <3>4. uart < inbox[1].number
        BY <1>t, <1>u, <2>2, <3>1 DEF Waiting
      <3>5. Applying' => \A f \in File : proc'[f] <= rx'.number
        BY <1>t, <2>1 DEF Forward
      <3> QED  BY <2>1, <3>1, <3>3, <3>4, <3>5 DEF Forward
    <2>4. CASE ~(IsMessage(Head(inbox)) /\ Head(inbox).kind = "serial")
      <3>1. ser' = "test"
        BY <1>5, <2>4 DEF SerialTake
      <3>2. \A n \in InUse' : n \in InUse
        BY <2>1, <3>1 DEF InUse
      <3>3. Waiting'
        BY <1>t, <2>1, <3>2, WaitingTake
      <3>4. Applying' => \A f \in File : proc'[f] <= rx'.number
        BY <1>t, <2>1 DEF Forward
      <3> QED  BY <3>1, <3>3, <3>4 DEF Forward
    <2> QED  BY <2>3, <2>4
  <1>6. CASE PutSerial
    <2>1. /\ ser = "put" /\ ser' = "test" /\ uart' = ser_rx.number
          /\ UNCHANGED <<proc, rx, recv, inbox, came>> /\ Applying' = Applying
      BY <1>6 DEF PutSerial, receiving, Applying
    <2>2. InUse' \subseteq InUse
      BY <1>u, <2>1 DEF InUse
    <2>3. Applying' => \A f \in File : proc'[f] <= rx'.number
      BY <1>t, <2>1 DEF Forward
    <2> QED  BY <1>t, <2>1, <2>2, <2>3, WaitingSame DEF Forward
  <1>7. CASE NumberedComes \/ OtherComes
    <2>1. PICK d \in Datagram : /\ Arrive(d) /\ came' \in Number /\ came <= came'
                                /\ Numbered(d) => came < d.number /\ d.number <= came'
      BY <1>7, <1>t, SomethingArrives
    <2>2. UNCHANGED <<proc, rx, recv, uart, ser_rx, ser>>
      BY <2>1 DEF Arrive, receiving, serial
    <2> QED  BY <1>s, <1>t, <2>1, <2>2, WaitingArrive DEF Applying
  <1>8. CASE UNCHANGED <<receiving, serial, inbox, came>>
    <2>1. UNCHANGED <<proc, rx, recv, uart, ser_rx, ser, inbox, came>>
      BY <1>8 DEF receiving, serial
    <2> QED  BY <1>s, <1>t, <2>1, WaitingSame DEF Applying
  <1> QED  BY <1>1, <1>1a, <1>2, <1>3, <1>4, <1>5, <1>6, <1>7, <1>8
           DEF Next, recvthread, serial_write, serial_read, ReadCharacter, ReadFails,
               SendLine, ReaderLeaves, sending, Leave, CloseSocket, inthand, main, vars

LEMMA DatagramNext == IInv /\ [Next]_vars => AskedInv' /\ OneDatagramAtATime'
  <1> SUFFICES ASSUME IInv, [Next]_vars, Live' PROVE AskedInv' /\ OneDatagramAtATime'
    BY DEF AskedInv, OneDatagramAtATime, Live
  <1> USE ConstantTypes
  <1>0. Live
    BY LiveBefore DEF IInv
  <1>1. \A f \in File \ Stray :
            IF Applying /\ at <= f THEN proc[f] < rx.number ELSE proc[f] = asked[f]
    BY <1>0 DEF IInv, OneDatagramAtATime, Applying, Live
  <1>2. Applying => \A f \in File \ Stray : at <= f =>
                        asked[f] = IF f \in rx.bad THEN proc[f] ELSE rx.number
    BY <1>0 DEF IInv, AskedInv
  <1>t. /\ proc \in [File -> Number] /\ asked \in [File -> Number] /\ rx \in Datagram
        /\ \A d \in Datagram : d.number \in Nat
        /\ \A f \in File : f \in Nat /\ proc[f] \in Nat
    <2>1. proc \in [File -> Number] /\ asked \in [File -> Number] /\ rx \in Datagram
      BY DEF IInv, TypeOK
    <2>2. \A d \in Datagram : d.number \in Nat
      BY DEF Datagram, Number
    <2>3. \A f \in File : f \in Nat /\ proc[f] \in Nat
      BY <2>1 DEF Number
    <2> QED  BY <2>1, <2>2, <2>3
  <1>a. ASSUME UNCHANGED <<proc, asked, rx, at>>, Applying' = Applying
        PROVE  AskedInv' /\ OneDatagramAtATime'
    <2>1. AskedInv'
      BY <1>2, <1>a DEF AskedInv
    <2>2. OneDatagramAtATime'
      BY <1>1, <1>a DEF OneDatagramAtATime, Applying
    <2> QED  BY <2>1, <2>2
  <1>3. CASE RecvTest \/ RecvCall \/ OpenFile
    BY <1>3, <1>a DEF RecvTest, RecvNext, RecvCall, OpenFile, taking, Applying
  <1>4. CASE RecvTake
    <2>1. /\ recv = "wait" /\ inbox # <<>> /\ ~Applying /\ proc' = proc
          /\ rx' = Received(Head(inbox), rx)
      BY <1>4 DEF RecvTake, Applying
    <2>2. CASE Taken
      <3>1. /\ recv' = "open" /\ at' = 1 /\ Applying' /\ rx' = inbox[1]
            /\ Numbered(inbox[1]) /\ 1 \in 1..Len(inbox)
            /\ asked' = [f \in File |-> IF f \in rx'.bad THEN asked[f] ELSE rx'.number]
        BY <1>4, <2>1, <2>2, TakeOne
           DEF IInv, RecvTake, Taken, Received, IsMessage, Numbered, Applying
      <3>2. \A f \in File : proc[f] < rx'.number
        BY <3>1, InUseTypes DEF IInv, Waiting
      <3>3. \A f \in File : at' <= f
        BY <3>1 DEF File
      <3>4. \A f \in File \ Stray :
               asked'[f] = IF f \in rx'.bad THEN proc'[f] ELSE rx'.number
        BY <1>1, <2>1, <3>1
      <3> QED  BY <2>1, <3>1, <3>2, <3>3, <3>4 DEF AskedInv, OneDatagramAtATime
    <2>3. CASE ~Taken
      <3>1. ~Applying' /\ asked' = asked /\ recv' = "test"
        BY <1>4, <2>3 DEF RecvTake, Taken, Applying
      <3> QED  BY <1>1, <2>1, <3>1 DEF AskedInv, OneDatagramAtATime
    <2> QED  BY <2>2, <2>3
  <1>5. CASE PutFile
    <2>1. /\ Applying /\ at \in File /\ at' = at + 1 /\ ~reused
          /\ UNCHANGED <<rx, asked>> /\ proc' \in [File -> Nat]
      BY <1>0, <1>5, <1>t DEF IInv, OpenInv, PutFile, Applying, AtInv
    <2>2. \A f \in File : f # at => proc'[f] = proc[f]
      BY <1>5, <1>t, <2>1 DEF PutFile
    <2>3. at \notin Stray => proc'[at] = asked[at]
      <3>1. at \notin Stray => asked[at] = IF at \in rx.bad THEN proc[at] ELSE rx.number
        BY <1>2, <1>t, <2>1
      <3>2. CASE at \in rx.bad
        BY <1>5, <3>1, <3>2 DEF PutFile, Lost
      <3>3. CASE at \notin rx.bad
        BY <1>5, <1>t, <2>1, <3>1, <3>3 DEF PutFile, Lost
      <3> QED  BY <3>2, <3>3
    <2>4. \A f \in File : (at' <= f <=> at <= f /\ f # at) /\ (~(at <= f) => f # at)
      BY <2>1 DEF File
    <2>5. \A f \in File \ Stray :
             IF at' <= f THEN proc'[f] < rx'.number ELSE proc'[f] = asked'[f]
      <3> TAKE f \in File \ Stray
      <3>1. CASE f = at
        BY <2>1, <2>3, <2>4, <3>1
      <3>2. CASE f # at
        BY <1>1, <2>1, <2>2, <2>4, <3>2
      <3> QED  BY <3>1, <3>2
    <2>6. CASE LastFile
      <3>1. ~Applying' /\ \A f \in File : ~(at' <= f)
        BY <1>5, <2>1, <2>6 DEF PutFile, LastFile, Applying, File
      <3> QED  BY <2>5, <3>1 DEF AskedInv, OneDatagramAtATime, Applying
    <2>7. CASE ~LastFile
      <3>1. Applying' /\ recv' = "open"
        BY <1>5, <2>7 DEF PutFile, Applying
      <3>2. AskedInv'
        BY <1>2, <2>1, <2>2, <2>4 DEF AskedInv
      <3> QED  BY <2>5, <3>1, <3>2 DEF OneDatagramAtATime
    <2> QED  BY <2>6, <2>7
  <1>6. CASE RecvClose \/ OpenFails \/ Overrun
    <2>1. RecvClose
      BY <1>6 DEF OpenFails, Overrun, Crash, Live
    <2> QED  BY <1>0, <2>1 DEF IInv, OpenInv, RecvClose
  <1>7. CASE UNCHANGED receiving
    BY <1>7, <1>a DEF receiving, taking, Applying
  <1> QED  BY <1>3, <1>4, <1>5, <1>6, <1>7
           DEF Next, recvthread, serial_write, SerialTest, SerialCall, SerialTake,
               PutSerial, serial_read, ReadCharacter, ReadFails, SendLine, ReaderLeaves,
               sending, Leave, CloseSocket, inthand, main, NumberedComes, OtherComes,
               Arrive, vars

LEMMA Invariance == SafeSpec => []IInv
  <1>1. IInv /\ [Next]_vars => IInv'
    BY TypeNext, OpenNext, WaitingNext, DatagramNext DEF IInv
  <1> QED  BY <1>1, InitInv, PTL DEF SafeSpec

-----------------------------------------------------------------------------
(* Every variable of the bridge keeps its type: no thread leaves its list   *)
(* of files or its buffers.                                                 *)
THEOREM TypeCorrect == SafeSpec => []TypeOK
  <1>1. IInv => TypeOK
    BY DEF IInv
  <1> QED  BY <1>1, Invariance, PTL

(* Until SIGINT every entry of /proc shows the latest write that suits it,  *)
(* except those recvthread has not come to yet; no datagram is applied      *)
(* twice, whichever entries refuse and whenever an open fails.              *)
THEOREM OneAtATime == SafeSpec => []OneDatagramAtATime
  <1>1. IInv => OneDatagramAtATime
    BY DEF IInv
  <1> QED  BY <1>1, Invariance, PTL

(* Every line that is read without a failure goes to the PC with its own    *)
(* characters only, as long as none has been too long for the buffer.       *)
THEOREM WholeLines == SafeSpec => []LinesAreWhole
  <1>1. IInv => LinesAreWhole
    BY DEF IInv, LineInv, LinesAreWhole
  <1> QED  BY <1>1, Invariance, PTL

-----------------------------------------------------------------------------
(* The order of datagrams, also while the program ends.                     *)

(* Neither an entry of /proc nor the UART ever goes back to a datagram that *)
(* arrived earlier, not even while the program ends and the threads close   *)
(* each other's files: two threads take datagrams from one socket, each     *)
(* gets only some of them and throws away those it does not look for.       *)
NothingGoesBack == [][(\A f \in File : proc[f] <= proc'[f]) /\ uart <= uart']_vars

THEOREM NothingIsOlder == SafeSpec => NothingGoesBack
  <1>1. IInv /\ [Next]_vars =>
            [(\A f \in File : proc[f] <= proc'[f]) /\ uart <= uart']_vars
    <2> SUFFICES ASSUME IInv, Next
                 PROVE  (\A f \in File : proc[f] <= proc'[f]) /\ uart <= uart'
      BY DEF vars
    <2> USE DEF taking, receiving, serial, others
    <2>1. /\ \A f \in File : proc[f] \in Nat
          /\ uart \in Nat /\ proc \in [File -> Number]
      BY InUseTypes DEF IInv, TypeOK
    <2>2. CASE PutFile
      <3>1. Applying /\ \A f \in File : proc[f] <= rx.number
        BY <2>2 DEF PutFile, Applying, IInv, Forward
      <3>2. \A f \in File : proc'[f] = proc[f] \/ proc'[f] = rx.number
        BY <2>1, <2>2 DEF PutFile
      <3>3. \A f \in File : proc[f] <= proc'[f]
        BY <2>1, <3>1, <3>2
      <3>4. uart' = uart
        BY <2>2 DEF PutFile
      <3> QED  BY <2>1, <3>3, <3>4
    <2>3. CASE PutSerial
      <3>1. uart < ser_rx.number /\ uart' = ser_rx.number /\ proc' = proc
        BY <2>3 DEF PutSerial, IInv, Forward
      <3>2. ser_rx.number \in Nat
        BY InUseTypes DEF IInv, TypeOK
      <3> QED  BY <2>1, <3>1, <3>2
    <2>4. CASE ~PutFile /\ ~PutSerial
      <3>1. UNCHANGED <<proc, uart>>
        BY <2>4 DEF Next, recvthread, RecvTest, RecvCall, RecvTake, OpenFile, RecvClose,
               serial_write, SerialTest, SerialCall, SerialTake, serial_read,
               ReadCharacter, ReadFails, SendLine, ReaderLeaves, sending, Leave,
               CloseSocket, OpenFails, Overrun, Crash, inthand, main, NumberedComes,
               OtherComes, Arrive
      <3> QED  BY <2>1, <3>1
    <2> QED  BY <2>2, <2>3, <2>4
  <1> QED  BY <1>1, Invariance, PTL DEF SafeSpec, NothingGoesBack

-----------------------------------------------------------------------------
(* The end of the program.                                                  *)

(* The steps a thread may still take once stop is set.  A receiver takes    *)
(* one of them by receiving a datagram: it needs at most one more.          *)
RecvRank ==
    CASE recv = "exited" -> 0
      [] recv = "close"  -> 1
      [] recv = "test"   -> 2
      [] recv = "put"    -> 3 + 2 * (NumFiles - at)
      [] recv = "open"   -> 4 + 2 * (NumFiles - at)
      [] recv = "wait"   -> 5 + 2 * NumFiles
      [] recv = "call"   -> 6 + 2 * NumFiles

SerialRank ==
    CASE ser = "exited" -> 0
      [] ser = "test"   -> 1
      [] ser = "put"    -> 2
      [] ser = "wait"   -> 3
      [] ser = "call"   -> 4

SenderRank(s) ==
    CASE sender[s] = "exited" -> 0
      [] sender[s] = "close"  -> 1
      [] sender[s] = "loop"   -> 2

ReaderRank ==
    CASE reader = "exited" -> 0
      [] reader = "loop"   -> 1
      [] reader = "send"   -> 2

MainRank == IF ended THEN 0 ELSE 1

StopRank ==
    RecvRank + SerialRank + SenderRank("send_slow_thread")
        + SenderRank("send_fast_thread") + ReaderRank + MainRank

Thread ==
    \/ recvthread \/ serial_write \/ serial_read
    \/ \E s \in Sender : sending(s)
    \/ OpenFails \/ Overrun \/ main

(* After SIGINT no thread goes round its loop again: every step of one      *)
(* brings the end of the program closer, and when none is left the program  *)
(* has ended.  This is what StopEnds needs apart from the threads and the   *)
(* datagrams that wake the receivers.                                       *)
StopRankFalls ==
    [][stop => IF Thread THEN StopRank' < StopRank ELSE StopRank' = StopRank]_vars

RankType ==
    /\ RecvRank \in Nat /\ SerialRank \in Nat /\ ReaderRank \in Nat /\ MainRank \in Nat
    /\ SenderRank("send_slow_thread") \in Nat /\ SenderRank("send_fast_thread") \in Nat

LEMMA RankTypes == TypeOK /\ AtInv => RankType
  <1> SUFFICES ASSUME TypeOK, AtInv PROVE RankType
    OBVIOUS
  <1> USE ConstantTypes
  <1>1. RecvRank \in Nat
    <2>1. recv \in {"test", "call", "wait", "open", "put", "close", "exited"}
      BY DEF TypeOK
    <2>2. recv \in {"open", "put"} => NumFiles - at \in Nat
      BY DEF AtInv, Applying, File
    <2> QED  BY <2>1, <2>2 DEF RecvRank
  <1>2. SerialRank \in Nat /\ ReaderRank \in Nat /\ MainRank \in Nat
    BY DEF TypeOK, SerialRank, ReaderRank, MainRank
  <1>3. /\ sender["send_slow_thread"] \in {"loop", "close", "exited"}
        /\ sender["send_fast_thread"] \in {"loop", "close", "exited"}
    BY DEF TypeOK, Sender
  <1>4. /\ SenderRank("send_slow_thread") \in Nat
        /\ SenderRank("send_fast_thread") \in Nat
    BY <1>3 DEF SenderRank
  <1> QED  BY <1>1, <1>2, <1>4 DEF RankType

(* A step of recvthread after SIGINT, and one of the other threads.         *)
LEMMA RecvRankFalls ==
    ASSUME TypeOK, AtInv, stop, recvthread
    PROVE  RecvRank' < RecvRank
  <1> USE ConstantTypes
  <1>1. CASE RecvTest
    BY <1>1 DEF RecvTest, RecvNext, RecvRank
  <1>2. CASE RecvCall
    <2>1. recv = "call" /\ recv' \in {"wait", "test"}
      BY <1>2 DEF RecvCall
    <2> QED  BY <2>1 DEF RecvRank
  <1>3. CASE RecvTake
    <2>1. recv = "wait" /\ (recv' = "test" \/ (recv' = "open" /\ at' = 1))
      BY <1>3 DEF RecvTake
    <2> QED  BY <2>1 DEF RecvRank
  <1>4. CASE OpenFile
    <2>1. recv = "open" /\ recv' = "put" /\ at' = at /\ at \in File
      BY <1>4 DEF OpenFile, AtInv, Applying
    <2> QED  BY <2>1 DEF RecvRank, File
  <1>5. CASE PutFile
    <2>1. /\ recv = "put" /\ at' = at + 1 /\ at \in File
          /\ recv' = IF at = NumFiles THEN "test" ELSE "open"
      BY <1>5 DEF PutFile, AtInv, Applying, LastFile
    <2> QED  BY <2>1 DEF RecvRank, File
  <1>6. CASE RecvClose
    BY <1>6 DEF RecvClose, RecvRank
  <1> QED  BY <1>1, <1>2, <1>3, <1>4, <1>5, <1>6 DEF recvthread

LEMMA SerialRankFalls ==
    ASSUME stop, serial_write
    PROVE  SerialRank' < SerialRank
  <1>1. \/ ser = "test" /\ ser' = "exited"
        \/ ser = "call" /\ ser' \in {"wait", "test"}
        \/ ser = "wait" /\ ser' \in {"put", "test"}
        \/ ser = "put" /\ ser' = "test"
    BY DEF serial_write, SerialTest, SerialCall, SerialTake, PutSerial
  <1> QED  BY <1>1 DEF SerialRank

LEMMA ReaderRankFalls ==
    ASSUME stop, serial_read
    PROVE  ReaderRank' < ReaderRank
  <1>1. \/ reader = "send" /\ reader' = "loop"
        \/ reader = "loop" /\ reader' = "exited"
    BY DEF serial_read, ReadCharacter, ReadFails, SendLine, ReaderLeaves
  <1> QED  BY <1>1 DEF ReaderRank

LEMMA SenderRankFalls ==
    ASSUME TypeOK, NEW s \in Sender, sending(s)
    PROVE  /\ SenderRank(s)' < SenderRank(s)
           /\ \A t \in Sender \ {s} : SenderRank(t)' = SenderRank(t)
  <1>1. sender \in [Sender -> {"loop", "close", "exited"}]
    BY DEF TypeOK
  <1>2. /\ \/ sender[s] = "loop" /\ sender'[s] = "close"
           \/ sender[s] = "close" /\ sender'[s] = "exited"
        /\ \A t \in Sender \ {s} : sender'[t] = sender[t]
    BY <1>1 DEF sending, Leave, CloseSocket
  <1>3. SenderRank(s)' < SenderRank(s)
    BY <1>2 DEF SenderRank
  <1>4. ASSUME NEW t \in Sender \ {s} PROVE SenderRank(t)' = SenderRank(t)
    BY <1>2 DEF SenderRank
  <1> QED  BY <1>3, <1>4

THEOREM StopComesCloser ==
    SafeSpec => /\ [](StopRank \in Nat /\ (StopRank = 0 => ended))
                /\ StopRankFalls
  <1>1. IInv => StopRank \in Nat /\ (StopRank = 0 => ended)
    <2> SUFFICES ASSUME IInv PROVE StopRank \in Nat /\ (StopRank = 0 => ended)
      OBVIOUS
    <2>1. ~ended => MainRank = 1
      BY DEF MainRank
    <2> QED  BY <2>1, RankTypes DEF IInv, RankType, StopRank
  <1>r. IInv => RankType
    BY RankTypes DEF IInv
  <1>2. IInv /\ RankType /\ RankType' /\ [Next]_vars =>
            [stop => IF Thread THEN StopRank' < StopRank ELSE StopRank' = StopRank]_vars
    <2> SUFFICES ASSUME IInv, RankType, RankType', Next, stop
                 PROVE  IF Thread THEN StopRank' < StopRank ELSE StopRank' = StopRank
      BY DEF vars
    <2>t. /\ RecvRank \in Nat /\ SerialRank \in Nat /\ ReaderRank \in Nat
          /\ MainRank \in Nat
          /\ SenderRank("send_slow_thread") \in Nat
          /\ SenderRank("send_fast_thread") \in Nat
      BY DEF RankType
    <2>a. UNCHANGED receiving => RecvRank' = RecvRank
      BY DEF receiving, taking, RecvRank
    <2>b. UNCHANGED serial => SerialRank' = SerialRank
      BY DEF serial, SerialRank
    <2>c. UNCHANGED reading => ReaderRank' = ReaderRank
      BY DEF reading, ReaderRank
    <2>d. UNCHANGED sender => \A s \in Sender : SenderRank(s)' = SenderRank(s)
      BY DEF SenderRank
    <2>e. UNCHANGED ended => MainRank' = MainRank
      BY DEF MainRank
    <2>s. "send_slow_thread" \in Sender /\ "send_fast_thread" \in Sender
      BY DEF Sender
    <2>u. /\ RecvRank' \in Nat /\ SerialRank' \in Nat /\ ReaderRank' \in Nat
          /\ MainRank' \in Nat
          /\ SenderRank("send_slow_thread")' \in Nat
          /\ SenderRank("send_fast_thread")' \in Nat
      BY DEF RankType
    <2>1. ASSUME recvthread PROVE StopRank' < StopRank
      <3>1. RecvRank' < RecvRank
        BY <2>1, RecvRankFalls DEF IInv
      <3>2. UNCHANGED <<serial, reading, sender, ended>>
        BY <2>1 DEF recvthread, RecvTest, RecvCall, RecvTake, OpenFile, PutFile,
                    RecvClose, others
      <3>3. /\ SerialRank' = SerialRank /\ ReaderRank' = ReaderRank
            /\ MainRank' = MainRank
            /\ SenderRank("send_slow_thread")' = SenderRank("send_slow_thread")
            /\ SenderRank("send_fast_thread")' = SenderRank("send_fast_thread")
        BY <2>b, <2>c, <2>d, <2>e, <2>s, <3>2
      <3> QED  BY <2>t, <2>u, <3>1, <3>3 DEF StopRank
    <2>2. ASSUME serial_write PROVE StopRank' < StopRank
      <3>1. SerialRank' < SerialRank
        BY <2>2, SerialRankFalls
      <3>2. UNCHANGED <<receiving, reading, sender, ended>>
        BY <2>2 DEF serial_write, SerialTest, SerialCall, SerialTake, PutSerial
      <3>3. /\ RecvRank' = RecvRank /\ ReaderRank' = ReaderRank
            /\ MainRank' = MainRank
            /\ SenderRank("send_slow_thread")' = SenderRank("send_slow_thread")
            /\ SenderRank("send_fast_thread")' = SenderRank("send_fast_thread")
        BY <2>a, <2>c, <2>d, <2>e, <2>s, <3>2
      <3> QED  BY <2>t, <2>u, <3>1, <3>3 DEF StopRank
    <2>3. ASSUME serial_read PROVE StopRank' < StopRank
      <3>1. ReaderRank' < ReaderRank
        BY <2>3, ReaderRankFalls
      <3>2. UNCHANGED <<receiving, serial, sender, ended>>
        BY <2>3 DEF serial_read, ReadCharacter, ReadFails, SendLine, ReaderLeaves
      <3>3. /\ RecvRank' = RecvRank /\ SerialRank' = SerialRank
            /\ MainRank' = MainRank
            /\ SenderRank("send_slow_thread")' = SenderRank("send_slow_thread")
            /\ SenderRank("send_fast_thread")' = SenderRank("send_fast_thread")
        BY <2>a, <2>b, <2>d, <2>e, <2>s, <3>2
      <3> QED  BY <2>t, <2>u, <3>1, <3>3 DEF StopRank
    <2>4. ASSUME NEW s \in Sender, sending(s) PROVE StopRank' < StopRank
      <3>1. /\ SenderRank(s)' < SenderRank(s)
            /\ \A x \in Sender \ {s} : SenderRank(x)' = SenderRank(x)
        BY <2>4, SenderRankFalls DEF IInv
      <3>2. UNCHANGED <<receiving, serial, reading, ended>>
        BY <2>4 DEF sending, Leave, CloseSocket
      <3>3. /\ RecvRank' = RecvRank /\ SerialRank' = SerialRank
            /\ ReaderRank' = ReaderRank /\ MainRank' = MainRank
        BY <2>a, <2>b, <2>c, <2>e, <3>2
      <3>4. CASE s = "send_slow_thread"
        <4>1. SenderRank("send_fast_thread")' = SenderRank("send_fast_thread")
          BY <2>s, <3>1, <3>4
        <4>2. SenderRank("send_slow_thread")' < SenderRank("send_slow_thread")
          BY <3>1, <3>4
        <4> QED  BY <2>t, <2>u, <3>3, <4>1, <4>2 DEF StopRank
      <3>5. CASE s = "send_fast_thread"
        <4>1. SenderRank("send_slow_thread")' = SenderRank("send_slow_thread")
          BY <2>s, <3>1, <3>5
        <4>2. SenderRank("send_fast_thread")' < SenderRank("send_fast_thread")
          BY <3>1, <3>5
        <4> QED  BY <2>t, <2>u, <3>3, <4>1, <4>2 DEF StopRank
      <3> QED  BY <3>4, <3>5 DEF Sender
    <2>5. ASSUME main PROVE StopRank' < StopRank
      <3>1. MainRank = 1 /\ MainRank' = 0
        BY <2>5 DEF main, MainRank
      <3>2. UNCHANGED <<receiving, serial, reading, sender>>
        BY <2>5 DEF main
      <3>3. /\ RecvRank' = RecvRank /\ SerialRank' = SerialRank
            /\ ReaderRank' = ReaderRank
            /\ SenderRank("send_slow_thread")' = SenderRank("send_slow_thread")
            /\ SenderRank("send_fast_thread")' = SenderRank("send_fast_thread")
        BY <2>a, <2>b, <2>c, <2>d, <2>s, <3>2
      <3> QED  BY <2>t, <2>u, <3>1, <3>3 DEF StopRank
    <2>5a. ASSUME OpenFails \/ Overrun PROVE StopRank' < StopRank
      <3>1. /\ recv' = "exited" /\ ser' = "exited" /\ reader' = "exited" /\ ended'
            /\ \A s \in Sender : sender'[s] = "exited"
        BY <2>5a DEF OpenFails, Overrun, Crash
      <3>2. StopRank' = 0
        <4>1. RecvRank' = 0 /\ SerialRank' = 0 /\ ReaderRank' = 0 /\ MainRank' = 0
          BY <3>1 DEF RecvRank, SerialRank, ReaderRank, MainRank
        <4>2. /\ SenderRank("send_slow_thread")' = 0
              /\ SenderRank("send_fast_thread")' = 0
          BY <2>s, <3>1 DEF SenderRank
        <4> QED  BY <4>1, <4>2 DEF StopRank
      <3>3. RecvRank > 0 \/ MainRank > 0
        <4>1. CASE Overrun
          BY <4>1 DEF Overrun, MainRank
        <4>2. CASE OpenFails
          <5>1. recv = "open" /\ at \in 1..NumFiles /\ NumFiles \in Nat
            BY <4>2 DEF OpenFails, IInv, AtInv, Applying, File
          <5> QED  BY <5>1 DEF RecvRank
        <4> QED  BY <2>5a, <4>1, <4>2
      <3>4. StopRank > 0
        BY <2>t, <3>3 DEF StopRank
      <3> QED  BY <2>t, <3>2, <3>4 DEF StopRank
    <2>6. ASSUME Thread PROVE StopRank' < StopRank
      BY <2>1, <2>2, <2>3, <2>4, <2>5, <2>5a, <2>6 DEF Thread
    <2>7. ASSUME ~Thread PROVE StopRank' = StopRank
      <3>1. NumberedComes \/ OtherComes
        BY <2>7 DEF Next, Thread, inthand
      <3>2. UNCHANGED <<receiving, serial, reading, sender, ended>>
        BY <3>1 DEF NumberedComes, OtherComes, Arrive, others
      <3> QED  BY <2>a, <2>b, <2>c, <2>d, <2>e, <2>s, <3>2 DEF StopRank
    <2> QED  BY <2>6, <2>7
  <1> QED  BY <1>1, <1>r, <1>2, Invariance, PTL DEF SafeSpec, StopRankFalls
=============================================================================
