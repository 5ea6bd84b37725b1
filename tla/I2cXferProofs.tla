--------------------------- MODULE I2cXferProofs ---------------------------
(***************************************************************************)
(* For any calls of one or two messages: a call that no earlier handler     *)
(* meets starts its own messages only, succeeds with all of its bytes or    *)
(* fails for a reason, and leaves the bus quiet.                            *)
(*                                                                          *)
(* The invariant behind it says, for such a call, which message caller and  *)
(* handler are at, in which situation engine, FIFO and driver are together, *)
(* what the handler under way may conclude from the status it has read, and *)
(* what an end means.                                                       *)
(***************************************************************************)
EXTENDS I2cXfer, FiniteSetTheorems, SequenceTheorems, TLAPS

(* The handler's end has left nothing behind.                               *)
Clean == engine = Off /\ fifo = <<>> /\ ~done /\ ~err

(* There is a reason for an error.                                          *)
Earned == nacked \/ before = "timeout" \/ overtaken

(* What an end of this call means: success that all has been moved, an      *)
(* error that there was a reason.                                           *)
Outcome(e) == IF e = "none" THEN sent = ToWrite /\ got = ToRead ELSE Earned

Before == IF curr_msg = 2 THEN msgs[1].len ELSE 0
Cur    == msgs[curr_msg]

(* The handler has the FIFO filled and goes on to the second message.       *)
Turning == {"next", "load", "test", "take", "go"}

(* The handler has not yet come to an end of the call.                      *)
Running == {"off", "body", "fill"} \cup Turning

(* The situations of a transfer that goes as it should.  The engine waits   *)
(* for the bytes of the message or sends them; the handler is about to give *)
(* it the second message, has given it, or the engine reads.                *)
Writing ==
    /\ ~Cur.read /\ engine.next = <<>> /\ ~engine.read
    /\ remaining <= Cur.len
    /\ engine.left = Len(fifo) + remaining
    /\ sent + Len(fifo) + remaining = Before + Cur.len

Leaving ==
    /\ engine.next = <<>> /\ ~engine.read
    /\ engine.left = Len(fifo)
    /\ sent + Len(fifo) = msgs[1].len
    /\ isr = "go" => remaining = msgs[2].len

Behind ==
    /\ curr_msg = 2 /\ remaining = Cur.len /\ engine.next = <<Cur>>
    /\ ~overtaken
    /\ ~engine.read /\ engine.left = Len(fifo) /\ engine.left > 0
    /\ sent + Len(fifo) = Before

Receiving ==
    /\ Cur.read /\ remaining = Cur.len /\ num_msgs = 0 /\ engine.next = <<>>
    /\ engine.read /\ Len(fifo) + engine.left = Cur.len
    /\ sent = Before

(* Between two runs of the handler all bytes of a message are yet to be     *)
(* written, or none are.                                                    *)
Waiting == Writing /\ remaining = Cur.len /\ fifo = <<>>
Written == Writing /\ remaining = 0 /\ num_msgs = 0

Situation ==
    IF isr = "fill" THEN Writing
    ELSE IF isr \in Turning THEN Leaving
    ELSE Behind \/ Waiting \/ Written \/ Receiving

Good ==
    /\ curr_msg \in 1..Len(msgs)
    /\ \A i \in 1..Len(fifo) : fifo[i] = call
    /\ engine.on /\ (engine.active <=> engine.left > 0)
    /\ got = 0
    /\ curr_msg = 1 \/ isr \in Turning => ~overtaken
    /\ Situation

(* The DONE of a call that timed out, or of the first message, is there.    *)
Stale ==
    /\ remaining = Cur.len /\ isr \in {"off", "body"}
    /\ IF curr_msg = 1 THEN before = "timeout" ELSE overtaken

(* The handler believes in it, and the bus fails meanwhile.                 *)
StaleFailed == Earned /\ Len(fifo) < remaining /\ (fifo # <<>> => Cur.read)

RunInv ==
    pc = "wait" /\ ~straggler /\ completion = 0 /\ isr \in Running =>
        /\ IF err THEN nacked \/ before = "timeout"
                  ELSE /\ Good
                       /\ done => ~engine.active \/ Stale
                       /\ ~engine.active => done
        /\ isr = "body" =>
             /\ val = "err" => err
             /\ val \in {"done", "donerxd"} =>
                    done /\ (err => StaleFailed /\ ~engine.active)
             /\ val = "donerxd" => Cur.read \/ Earned
             /\ val = "txw" /\ ~err => Waiting /\ ~done
             /\ val # "none"

ClosingInv ==
    pc = "wait" /\ ~straggler /\ isr \in {"clear", "complete"} =>
        /\ completion = 0
        /\ Outcome(msg_err)
        /\ isr = "clear" /\ msg_err = "none" => ~engine.active
        /\ isr = "complete" => Clean

EndInv ==
    ~straggler =>
        /\ pc = "wait" /\ completion > 0 => isr = "off" /\ Clean /\ Outcome(msg_err)
        /\ pc = "check" => isr = "off" /\ Clean /\ Outcome(msg_err)
        /\ pc = "idle" /\ result # "timeout" => isr = "off" /\ Clean
        /\ pc = "idle" /\ result = "ok" => Outcome("none")
        /\ pc = "idle" /\ result = "error" => Outcome("err")

StartInv ==
    pc \in Starting /\ ~straggler =>
        /\ isr = "off" /\ completion = 0
        /\ got = 0 /\ ~overtaken
        /\ ~engine.on => sent = 0 /\ ~nacked

(* Which messages caller and handler are at, and how many are left.         *)
DriverInv ==
    ~straggler =>
        /\ pc \in Starting =>
             /\ curr_msg = 1
             /\ num_msgs = IF pc = "go" THEN Len(msgs) - 1 ELSE Len(msgs)
             /\ pc # "load" => msg = 1
             /\ pc = "go" => remaining = msgs[1].len
        /\ pc \notin Starting /\ curr_msg # 0 =>
             /\ curr_msg \in 1..Len(msgs)
             /\ num_msgs = CASE isr = "next" -> 1
                             [] isr \in {"load", "test", "take"} -> 1
                             [] OTHER -> Len(msgs) - curr_msg
             /\ isr = "next" => curr_msg = 1 /\ Len(msgs) = 2
             /\ isr \in Turning \ {"next"} => curr_msg = 2
             /\ isr \in {"test", "take", "go"} => isr_msg = 2

(* The handler is giving the engine bytes or the second message.            *)
Feeding == isr \in Turning \cup {"fill"} \/ (isr = "body" /\ val = "txw")

(* Only a timeout switches the engine off without clearing the status.      *)
StatusInv ==
    /\ engine.active => engine.on
    /\ (done \/ err) /\ ~engine.on =>
         /\ \/ pc = "idle" /\ result = "timeout"
            \/ pc \in Starting /\ before = "timeout"
               /\ (pc \in {"load", "test"} => num_msgs # 0 \/ isr = "go")
            \/ pc \in {"wait", "clear"} /\ isr = "go"
         /\ pc # "idle" /\ Feeding => completion = 0

CallInv ==
    /\ pc # "idle" => msgs \in Calls
    /\ curr_msg = 0 => /\ pc = "idle" /\ isr = "off" /\ engine = Off /\ ~done /\ ~err
                       /\ num_msgs = 0 /\ msgs = <<>>

IInv ==
    /\ TypeOK /\ CallInv /\ StatusInv /\ StartInv /\ DriverInv
    /\ RunInv /\ ClosingInv /\ EndInv

-----------------------------------------------------------------------------
(* Messages and queues.                                                     *)

LEMMA MessageTypes ==
    ASSUME NEW c \in Calls
    PROVE  /\ c \in Seq(Message) /\ Len(c) \in {1, 2} /\ c # <<>>
           /\ \A i \in 1..Len(c) : /\ c[i] \in Message /\ c[i].read \in BOOLEAN
                                   /\ c[i].len \in Nat /\ c[i].len > 0
           /\ Len(c) = 2 => ~c[1].read
  <1>1. c \in Seq(Message) /\ Len(c) \in {1, 2} /\ (Len(c) = 2 => ~c[1].read)
    BY CallAssumption
  <1>2. \A i \in 1..Len(c) : c[i] \in Message
    BY <1>1
  <1>3. ASSUME NEW i \in 1..Len(c)
        PROVE  c[i].read \in BOOLEAN /\ c[i].len \in Nat /\ c[i].len > 0
    BY <1>2 DEF Message
  <1>4. c # <<>>
    BY <1>1
  <1> QED  BY <1>1, <1>2, <1>3, <1>4

LEMMA MessagesAt ==
    ASSUME TypeOK, NEW i \in Nat
    PROVE  /\ MessageAt(i) \subseteq Message
           /\ i \in 1..Len(msgs) => MessageAt(i) = {msgs[i]}
  <1>1. ASSUME NEW c \in Calls, NEW j \in 1..Len(c) PROVE c[j] \in Message
    BY <1>1, MessageTypes
  <1>2. CASE i \in 1..Len(msgs)
    <2>1. msgs \in Calls
      BY <1>2 DEF TypeOK
    <2>2. MessageAt(i) = {msgs[i]}
      BY <1>2 DEF MessageAt
    <2> QED  BY <1>1, <1>2, <2>1, <2>2
  <1>3. CASE ~(i \in 1..Len(msgs))
    <2>1. MessageAt(i) = UNION {{c[j] : j \in 1..Len(c)} : c \in Calls}
      BY <1>3 DEF MessageAt
    <2> QED  BY <1>1, <1>3, <2>1
  <1> QED  BY <1>2, <1>3

LEMMA Draining ==
    ASSUME NEW f \in Seq({0, 1}), NEW n \in 0..Len(f),
           NEW g, g = SubSeq(f, n + 1, Len(f))
    PROVE  g \in Seq({0, 1}) /\ Len(g) = Len(f) - n /\ (g = <<>> <=> n = Len(f))
  <1>2. n + 1 \in Int /\ Len(f) \in Int /\ Len(f) \in Nat /\ n \in Nat
    BY LenProperties
  <1>1. \A i \in n + 1..Len(f) : f[i] \in {0, 1}
    <2> TAKE i \in n + 1..Len(f)
    <2>1. i \in 1..Len(f)
      BY <1>2
    <2> QED  BY <2>1, ElementOfSeq
  <1>3. g \in Seq({0, 1}) /\ Len(g) = IF n + 1 <= Len(f) THEN Len(f) - (n + 1) + 1 ELSE 0
    BY <1>1, <1>2, SubSeqProperties
  <1>4. Len(g) = Len(f) - n
    BY <1>2, <1>3
  <1>5. g = <<>> <=> Len(g) = 0
    BY <1>3, EmptySeq
  <1> QED  BY <1>2, <1>3, <1>4, <1>5

(* All bytes drained are of this call.                                      *)
LEMMA Counting ==
    ASSUME NEW f \in Seq({0, 1}), NEW n \in 0..Len(f), NEW c,
           \A i \in 1..Len(f) : f[i] = c
    PROVE  Cardinality({i \in 1..n : f[i] = c}) = n
  <1>1. Len(f) \in Nat /\ n \in Nat
    BY LenProperties
  <1>2. {i \in 1..n : f[i] = c} = 1..n
    BY <1>1
  <1>3. Cardinality(1..n) = IF 1 > n THEN 0 ELSE n - 1 + 1
    BY <1>1, FS_Interval
  <1>4. Cardinality(1..n) = n
    BY <1>1, <1>3
  <1> QED  BY <1>2, <1>4, Zenon

LEMMA CardinalityIsNat ==
    ASSUME NEW n \in Nat, NEW f, NEW c
    PROVE  Cardinality({i \in 1..n : f[i] = c}) \in Nat
  <1>1. IsFiniteSet(1..n) /\ {i \in 1..n : f[i] = c} \subseteq 1..n
    BY FS_Interval
  <1>2. IsFiniteSet({i \in 1..n : f[i] = c})
    BY <1>1, FS_Subset
  <1> QED  BY <1>2, FS_CardinalityType

LEMMA Drains ==
    ASSUME TypeOK
    PROVE  Drained \in 0..Len(fifo) /\ Drained <= remaining
  <1>1. Len(fifo) \in Nat /\ remaining \in Nat
    BY LenProperties DEF TypeOK
  <1> QED  BY <1>1 DEF Drained, LesserOf

-----------------------------------------------------------------------------
LEMMA OffIsEngine == Off \in Engine /\ ~Off.active /\ ~Off.on
  BY DEF Off, Engine

LEMMA InitInv == Init => IInv
  <1> SUFFICES ASSUME Init PROVE IInv
    OBVIOUS
  <1>1. TypeOK
    <2>1. msgs = <<>> /\ fifo \in Seq({0, 1}) /\ msgs \in Calls \cup {<<>>}
      BY DEF Init
    <2>2. engine \in Engine
      BY OffIsEngine DEF Init
    <2>3. /\ done \in BOOLEAN /\ err \in BOOLEAN /\ nacked \in BOOLEAN
          /\ overtaken \in BOOLEAN /\ straggler \in BOOLEAN
      BY DEF Init
    <2>4. num_msgs \in Int /\ 0 \in 0..MaxMsg
      BY MaxMsgAssumption DEF Init
    <2>5. /\ pc = "idle" /\ call = 0 /\ curr_msg = 0 /\ remaining = 0 /\ completion = 0
          /\ msg = 0 /\ isr_msg = 0
          /\ msg_err = "none" /\ result = "none" /\ isr = "off" /\ val = "none"
          /\ sent = 0 /\ got = 0 /\ before = "none"
      BY DEF Init
    <2> QED  BY <2>1, <2>2, <2>3, <2>4, <2>5 DEF TypeOK, Results
  <1>2. CallInv /\ StatusInv /\ StartInv /\ DriverInv
    BY DEF Init, CallInv, StatusInv, StartInv, DriverInv, Off, Starting, Feeding, Turning
  <1>3. RunInv /\ ClosingInv /\ EndInv
    BY DEF Init, RunInv, ClosingInv, EndInv, Clean
  <1> QED  BY <1>1, <1>2, <1>3 DEF IInv

-----------------------------------------------------------------------------
(* Types, and what the status register may hold with the engine off.        *)

LEMMA Takes ==
    ASSUME TypeOK, NEW i \in Nat, TakeMessage(i)
    PROVE  /\ num_msgs' \in Int /\ num_msgs' = num_msgs - 1
           /\ remaining' \in Nat /\ remaining' > 0
           /\ i \in 1..Len(msgs) => remaining' = msgs[i].len
  <1>1. PICK m \in MessageAt(i) : remaining' = m.len
    BY DEF TakeMessage
  <1>2. m.len \in Nat /\ m.len > 0
    BY MessagesAt DEF Message
  <1>3. num_msgs' = num_msgs - 1 /\ num_msgs \in Int
    BY DEF TakeMessage, TypeOK
  <1>4. i \in 1..Len(msgs) => remaining' = msgs[i].len
    BY <1>1, MessagesAt
  <1> QED  BY <1>1, <1>2, <1>3, <1>4

LEMMA Starts ==
    ASSUME TypeOK, StatusInv, NEW i \in Nat, StartEngine(i)
    PROVE  /\ engine' \in Engine /\ engine'.on /\ engine'.active
           /\ i \in 1..Len(msgs) =>
                engine' = IF engine.active
                          THEN [engine EXCEPT !.next = <<msgs[i]>>]
                          ELSE [active |-> TRUE, on |-> TRUE, read |-> msgs[i].read,
                                left |-> msgs[i].len, next |-> <<>>]
  <1>1. PICK m \in MessageAt(i) :
            engine' = IF engine.active
                      THEN [engine EXCEPT !.next = <<m>>]
                      ELSE [active |-> TRUE, on |-> TRUE, read |-> m.read,
                            left |-> m.len, next |-> <<>>]
    BY DEF StartEngine
  <1>2. m \in Message /\ m.len \in Nat /\ m.len > 0 /\ m.read \in BOOLEAN
    BY MessagesAt DEF Message
  <1>3. i \in 1..Len(msgs) => m = msgs[i]
    BY <1>1, MessagesAt
  <1>4. engine' \in Engine /\ engine'.on /\ engine'.active
    <2>1. CASE engine.active
      <3>1. engine' = [engine EXCEPT !.next = <<m>>] /\ <<m>> \in Seq(Message)
        BY <1>1, <1>2, <2>1
      <3>2. engine' \in Engine
        BY <3>1 DEF TypeOK, Engine
      <3>3. engine'.on = engine.on /\ engine'.active = engine.active
        BY <3>1 DEF TypeOK, Engine
      <3> QED  BY <2>1, <3>2, <3>3 DEF StatusInv
    <2>2. CASE ~engine.active
      <3>1. engine' = [active |-> TRUE, on |-> TRUE, read |-> m.read, left |-> m.len,
                       next |-> <<>>]
        BY <1>1, <2>2
      <3> QED  BY <1>2, <3>1 DEF Engine
    <2> QED  BY <2>1, <2>2
  <1> QED  BY <1>1, <1>3, <1>4

LEMMA Advances ==
    ASSUME TypeOK, StatusInv, engine.active, Advance
    PROVE  engine' \in Engine /\ engine'.on /\ done' \in BOOLEAN
  <1>1. engine.on
    BY DEF StatusInv
  <1>2. CASE engine.left > 1
    <2>1. engine' = [engine EXCEPT !.left = engine.left - 1] /\ done' = done
      BY <1>2 DEF Advance
    <2>2. engine \in Engine /\ engine.left - 1 \in Nat
      BY <1>2 DEF TypeOK, Engine
    <2>3. engine' \in Engine
      BY <2>1, <2>2 DEF Engine
    <2>4. engine'.on
      BY <1>1, <2>1, <2>2 DEF Engine
    <2> QED  BY <2>1, <2>3, <2>4 DEF TypeOK
  <1>3. CASE ~(engine.left > 1) /\ engine.next # <<>>
    <2>1. PICK m \in Message : engine' = [engine EXCEPT !.read = m.read, !.left = m.len,
                                                        !.next = <<>>]
      <3>1. Head(engine.next) \in Message
        BY <1>3 DEF TypeOK, Engine
      <3> QED  BY <1>3, <3>1 DEF Advance
    <2>2. done' = done
      BY <1>3 DEF Advance
    <2>3. m.read \in BOOLEAN /\ m.len \in Nat /\ <<>> \in Seq(Message)
      BY DEF Message
    <2>4. engine' \in Engine
      BY <2>1, <2>3 DEF TypeOK, Engine
    <2>5. engine'.on
      BY <1>1, <2>1 DEF TypeOK, Engine
    <2> QED  BY <2>2, <2>4, <2>5 DEF TypeOK
  <1>4. CASE ~(engine.left > 1) /\ engine.next = <<>>
    <2>1. engine' = [engine EXCEPT !.active = FALSE, !.left = 0] /\ done' = TRUE
      BY <1>4 DEF Advance
    <2> QED  BY <1>1, <2>1 DEF TypeOK, Engine
  <1> QED  BY <1>2, <1>3, <1>4

Basic == TypeOK /\ CallInv /\ StatusInv

LEMMA BasicCaller == Basic /\ bcm2835_i2c_xfer => Basic'
  <1> SUFFICES ASSUME Basic, bcm2835_i2c_xfer PROVE Basic'
    OBVIOUS
  <1> USE DEF driver, handler, status, history
  <1>0. TypeOK /\ CallInv /\ StatusInv
    BY DEF Basic
  <1>1. ASSUME NEW c \in Calls, Begin(c) PROVE Basic'
    <2>1. Len(c) \in {1, 2} /\ c # <<>>
      BY MessageTypes
    <2>2. /\ num_msgs' \in Int /\ num_msgs' # 0 /\ msgs' \in Calls /\ pc' = "load"
          /\ curr_msg' = 1 /\ curr_msg' \in 0..MaxMsg /\ completion' = 0 /\ before' = result
          /\ pc = "idle" /\ UNCHANGED <<isr, val, engine, done, err>>
      BY <1>1, <2>1, MaxMsgAssumption DEF Begin, ReinitCompletion
    <2>3. call' \in {0, 1} /\ straggler' \in BOOLEAN
      BY <1>0, <1>1 DEF Begin, TypeOK
    <2>4. /\ nacked' \in BOOLEAN /\ overtaken' \in BOOLEAN
          /\ UNCHANGED <<msg, remaining, msg_err, result, isr_msg, fifo>>
          /\ sent' = 0 /\ got' = 0
      BY <1>1 DEF Begin
    <2>5. TypeOK'
      BY <1>0, <2>2, <2>3, <2>4 DEF TypeOK, Starting
    <2>6. CallInv'
      BY <2>2 DEF CallInv
    <2>7. StatusInv'
      BY <1>0, <2>2 DEF StatusInv, Starting
    <2> QED  BY <2>5, <2>6, <2>7 DEF Basic
  <1>2. CASE Load
    <2>1. TypeOK'
      BY <1>0, <1>2 DEF Load, TypeOK, Starting
    <2>2. CallInv'
      BY <1>0, <1>2 DEF Load, CallInv
    <2>3. StatusInv'
      BY <1>0, <1>2 DEF Load, StatusInv, Starting, Feeding
    <2> QED  BY <2>1, <2>2, <2>3 DEF Basic
  <1>3. CASE Test
    <2>1. TypeOK'
      BY <1>0, <1>3 DEF Test, TypeOK, Starting
    <2>2. CallInv'
      BY <1>0, <1>3 DEF Test, CallInv
    <2>3. StatusInv'
      BY <1>0, <1>3 DEF Test, StatusInv, Starting, Feeding
    <2> QED  BY <2>1, <2>2, <2>3 DEF Basic
  <1>4. CASE Take
    <2>1. msg \in Nat /\ TakeMessage(msg) /\ pc = "take" /\ pc' = "go"
            /\ UNCHANGED <<msg, msgs, call, curr_msg, completion, msg_err, result,
                           engine, isr, isr_msg, val, fifo, done, err, sent, got,
                           nacked, overtaken, before, straggler>>
      BY <1>0, <1>4 DEF Take, TypeOK
    <2>2. num_msgs' \in Int /\ remaining' \in Nat
      BY <1>0, <2>1, Takes
    <2>3. TypeOK'
      BY <1>0, <2>1, <2>2 DEF TypeOK, Starting
    <2>4. CallInv'
      BY <1>0, <2>1 DEF CallInv
    <2>5. StatusInv'
      BY <1>0, <2>1 DEF StatusInv, Starting, Feeding
    <2> QED  BY <2>3, <2>4, <2>5 DEF Basic
  <1>5. CASE Go
    <2>1. msg \in Nat /\ StartEngine(msg) /\ pc = "go" /\ pc' = "wait" /\ msg' = 0
            /\ UNCHANGED <<msgs, call, curr_msg, num_msgs, remaining, completion,
                           msg_err, result, isr, isr_msg, val, fifo, done, err, sent,
                           got, nacked, overtaken, before>>
      BY <1>0, <1>5 DEF Go, TypeOK
    <2>2. engine' \in Engine /\ engine'.on
      BY <1>0, <2>1, Starts
    <2>3. straggler' \in BOOLEAN /\ 0 \in 0..MaxMsg
      BY <1>0, <1>5, MaxMsgAssumption DEF Go, TypeOK
    <2>4. TypeOK'
      BY <1>0, <2>1, <2>2, <2>3 DEF TypeOK, Starting
    <2>5. CallInv'
      BY <1>0, <2>1 DEF CallInv
    <2>6. StatusInv'
      BY <2>2 DEF StatusInv
    <2> QED  BY <2>4, <2>5, <2>6 DEF Basic
  <1>6. CASE Completed
    <2>1. completion' \in Nat /\ completion > 0
      BY <1>0, <1>6 DEF Completed, TypeOK
    <2>2. TypeOK'
      BY <1>0, <1>6, <2>1 DEF Completed, TypeOK, Starting
    <2>3. CallInv'
      BY <1>0, <1>6 DEF Completed, CallInv
    <2>4. StatusInv'
      BY <1>0, <1>6, <2>1 DEF Completed, StatusInv, Starting, Feeding, Turning
    <2> QED  BY <2>2, <2>3, <2>4 DEF Basic
  <1>7. CASE TimedOut
    <2>1. TypeOK'
      BY <1>0, <1>7 DEF TimedOut, TypeOK, Starting
    <2>2. CallInv'
      BY <1>0, <1>7 DEF TimedOut, CallInv
    <2>3. StatusInv'
      BY <1>0, <1>7 DEF TimedOut, StatusInv, Starting, Feeding
    <2> QED  BY <2>1, <2>2, <2>3 DEF Basic
  <1>8. CASE ReturnTimeout
    <2>1. engine' = Off /\ fifo' = <<>> /\ fifo' \in Seq({0, 1})
      BY <1>8 DEF ReturnTimeout, ClearC
    <2>2. TypeOK'
      BY <1>0, <1>8, <2>1, OffIsEngine DEF ReturnTimeout, TypeOK, Results, Starting
    <2>3. CallInv'
      BY <1>0, <1>8 DEF ReturnTimeout, CallInv
    <2>4. StatusInv'
      BY <1>8, <2>1, OffIsEngine DEF ReturnTimeout, StatusInv
    <2> QED  BY <2>2, <2>3, <2>4 DEF Basic
  <1>9. CASE Return
    <2>1. TypeOK'
      BY <1>0, <1>9 DEF Return, TypeOK, Results, Starting
    <2>2. CallInv'
      BY <1>0, <1>9 DEF Return, CallInv
    <2>3. StatusInv'
      BY <1>0, <1>9 DEF Return, StatusInv, Starting
    <2> QED  BY <2>1, <2>2, <2>3 DEF Basic
  <1> QED  BY <1>1, <1>2, <1>3, <1>4, <1>5, <1>6, <1>7, <1>8, <1>9 DEF bcm2835_i2c_xfer

LEMMA BasicHandler == Basic /\ bcm2835_i2c_isr => Basic'
  <1> SUFFICES ASSUME Basic, bcm2835_i2c_isr PROVE Basic'
    OBVIOUS
  <1> USE DEF driver, status, caller
  <1>0. TypeOK /\ CallInv /\ StatusInv
    BY DEF Basic
  <1>1. CASE IsrEnter
    <2>1. curr_msg # 0
      BY <1>0, <1>1 DEF IsrEnter, CallInv, TXW, Off
    <2>2. val' \in {"err", "done", "donerxd", "txw"} /\ straggler' \in BOOLEAN
      BY <1>0, <1>1 DEF IsrEnter, TypeOK
    <2>3. /\ isr = "off" /\ isr' = "body"
          /\ UNCHANGED <<pc, msg, msgs, call, curr_msg, num_msgs, remaining,
                         completion, msg_err, result, isr_msg, engine, fifo, done,
                         err, sent, got, nacked, overtaken, before>>
      BY <1>1 DEF IsrEnter
    <2>4. TypeOK'
      BY <1>0, <2>2, <2>3 DEF TypeOK
    <2>5. CallInv'
      BY <1>0, <2>1, <2>3 DEF CallInv
    <2>6. val' = "txw" => engine.active
      BY <1>1 DEF IsrEnter, TXW
    <2>7. StatusInv'
      BY <1>0, <2>3, <2>6 DEF StatusInv, Feeding, Turning
    <2> QED  BY <2>4, <2>5, <2>7 DEF Basic
  <1>2. CASE IsrError
    <2>1. TypeOK'
      BY <1>0, <1>2 DEF IsrError, TypeOK
    <2>2. CallInv'
      BY <1>0, <1>2 DEF IsrError, CallInv
    <2>3. StatusInv'
      BY <1>0, <1>2 DEF IsrError, StatusInv, Feeding, Turning
    <2> QED  BY <2>1, <2>2, <2>3 DEF Basic
  <1>3. CASE IsrDone
    <2>1. fifo' \in Seq({0, 1})
      BY <1>0, <1>3, Drains, Draining DEF IsrDone, Rest, TypeOK
    <2>2. remaining' \in Nat
      BY <1>0, <1>3, Drains DEF IsrDone, TypeOK
    <2>3. got' \in Nat
      <3>1. Drained \in Nat
        BY <1>0, Drains
      <3>2. Cardinality({i \in 1..Drained : fifo[i] = call}) \in Nat
        BY <3>1, CardinalityIsNat
      <3> QED  BY <1>0, <1>3, <3>2 DEF IsrDone, TypeOK
    <2>4. msg_err' \in {"none", "err", "len"}
      BY <1>3 DEF IsrDone
    <2>5. /\ isr' = "clear" /\ isr = "body" /\ val' = "none"
          /\ UNCHANGED <<pc, msg, result, nacked, overtaken, before, straggler, msgs,
                         call, curr_msg, num_msgs, completion, isr_msg, engine, done,
                         err, sent>>
      BY <1>3 DEF IsrDone
    <2>6. TypeOK'
      BY <1>0, <2>1, <2>2, <2>3, <2>4, <2>5 DEF TypeOK
    <2>7. CallInv'
      BY <1>0, <2>5 DEF CallInv
    <2>8. StatusInv'
      BY <1>0, <2>5 DEF StatusInv, Feeding, Turning
    <2> QED  BY <2>6, <2>7, <2>8 DEF Basic
  <1>4. CASE IsrTooMany
    <2>1. TypeOK'
      BY <1>0, <1>4 DEF IsrTooMany, TypeOK
    <2>2. CallInv'
      BY <1>0, <1>4 DEF IsrTooMany, CallInv
    <2>3. StatusInv'
      BY <1>0, <1>4 DEF IsrTooMany, StatusInv, Feeding, Turning
    <2> QED  BY <2>1, <2>2, <2>3 DEF Basic
  <1>5. CASE Fill
    <2>1. /\ isr = "fill" \/ (isr = "body" /\ val = "txw")
          /\ isr' = "fill" /\ val' = "none"
          /\ UNCHANGED <<pc, msg, result, nacked, overtaken, before, straggler, msgs,
                         call, curr_msg, num_msgs, completion, msg_err, isr_msg,
                         engine, done, err, sent, got>>
      BY <1>5 DEF Fill
    <2>2. fifo' \in Seq({0, 1}) /\ remaining' \in Nat
      BY <1>0, <1>5, AppendProperties DEF Fill, TypeOK
    <2>3. TypeOK'
      BY <1>0, <2>1, <2>2 DEF TypeOK
    <2>4. CallInv'
      BY <1>0, <2>1 DEF CallInv
    <2>5. StatusInv'
      BY <1>0, <2>1 DEF StatusInv, Feeding, Turning
    <2> QED  BY <2>3, <2>4, <2>5 DEF Basic
  <1>6. CASE IsrMore
    <2>1. TypeOK'
      BY <1>0, <1>6 DEF IsrMore, TypeOK
    <2>2. CallInv'
      BY <1>0, <1>6 DEF IsrMore, CallInv
    <2>3. StatusInv'
      BY <1>0, <1>6 DEF IsrMore, StatusInv, Feeding, Turning
    <2> QED  BY <2>1, <2>2, <2>3 DEF Basic
  <1>7. CASE IsrNext
    <2>1. curr_msg' \in 0..MaxMsg /\ curr_msg' # 0 /\ curr_msg # 0
      BY <1>0, <1>7, MaxMsgAssumption DEF IsrNext, TypeOK, CallInv
    <2>2. TypeOK'
      BY <1>0, <1>7, <2>1 DEF IsrNext, TypeOK, Starting
    <2>3. CallInv'
      BY <1>0, <1>7, <2>1 DEF IsrNext, CallInv
    <2>4. StatusInv'
      BY <1>0, <1>7 DEF IsrNext, StatusInv, Feeding, Turning
    <2> QED  BY <2>2, <2>3, <2>4 DEF Basic
  <1>8. CASE IsrLoad
    <2>1. TypeOK'
      BY <1>0, <1>8 DEF IsrLoad, TypeOK, Starting
    <2>2. CallInv'
      BY <1>0, <1>8 DEF IsrLoad, CallInv
    <2>3. StatusInv'
      BY <1>0, <1>8 DEF IsrLoad, StatusInv, Feeding, Turning
    <2> QED  BY <2>1, <2>2, <2>3 DEF Basic
  <1>9. CASE IsrTest
    <2>1. TypeOK'
      BY <1>0, <1>9 DEF IsrTest, TypeOK, Starting
    <2>2. CallInv'
      BY <1>0, <1>9 DEF IsrTest, CallInv
    <2>3. StatusInv'
      BY <1>0, <1>9 DEF IsrTest, StatusInv, Feeding, Turning
    <2> QED  BY <2>1, <2>2, <2>3 DEF Basic
  <1>10. CASE IsrTake
    <2>1. /\ isr_msg \in Nat /\ TakeMessage(isr_msg) /\ isr = "take" /\ isr' = "go"
          /\ UNCHANGED <<pc, msg, result, nacked, overtaken, before, straggler, msgs,
                         call, curr_msg, completion, msg_err, isr_msg, val, engine,
                         fifo, done, err, sent, got>>
      BY <1>0, <1>10 DEF IsrTake, TypeOK
    <2>2. num_msgs' \in Int /\ remaining' \in Nat
      BY <1>0, <2>1, Takes
    <2>3. TypeOK'
      BY <1>0, <2>1, <2>2 DEF TypeOK, Starting
    <2>4. CallInv'
      BY <1>0, <2>1 DEF CallInv
    <2>5. StatusInv'
      BY <1>0, <2>1 DEF StatusInv, Feeding, Turning
    <2> QED  BY <2>3, <2>4, <2>5 DEF Basic
  <1>11. CASE IsrGo
    <2>1. /\ isr_msg \in Nat /\ StartEngine(isr_msg) /\ isr = "go" /\ isr' = "off"
          /\ isr_msg' = 0
          /\ UNCHANGED <<pc, msg, result, nacked, before, straggler, msgs, call,
                         curr_msg, num_msgs, remaining, completion, msg_err, val,
                         fifo, done, err, sent, got>>
      BY <1>0, <1>11 DEF IsrGo, TypeOK
    <2>2. overtaken' \in BOOLEAN
      BY <1>11 DEF IsrGo
    <2>3. engine' \in Engine /\ engine'.on
      BY <1>0, <2>1, Starts
    <2>4. 0 \in 0..MaxMsg
      BY MaxMsgAssumption
    <2>5. TypeOK'
      BY <1>0, <2>1, <2>2, <2>3, <2>4 DEF TypeOK
    <2>6. CallInv'
      BY <1>0, <2>1 DEF CallInv
    <2>7. StatusInv'
      BY <2>3 DEF StatusInv
    <2> QED  BY <2>5, <2>6, <2>7 DEF Basic
  <1>12. CASE IsrClear
    <2>1. done' = FALSE /\ err' = FALSE /\ engine' = Off /\ fifo' = <<>>
      BY <1>12 DEF IsrClear, ClearC
    <2>2. fifo' \in Seq({0, 1})
      BY <2>1, EmptySeq
    <2>3. ~done' /\ ~err' /\ done' \in BOOLEAN /\ err' \in BOOLEAN
      BY <2>1
    <2>4. /\ isr = "clear" /\ isr' = "complete"
          /\ UNCHANGED <<pc, msg, result, nacked, overtaken, before, straggler, msgs,
                         call, curr_msg, num_msgs, remaining, completion, msg_err,
                         isr_msg, val, sent, got>>
      BY <1>12 DEF IsrClear
    <2>5. TypeOK'
      BY <1>0, <2>1, <2>2, <2>3, <2>4, OffIsEngine DEF TypeOK
    <2>6. CallInv'
      BY <1>0, <2>4 DEF CallInv
    <2>7. StatusInv'
      BY <2>1, <2>3, OffIsEngine DEF StatusInv
    <2> QED  BY <2>5, <2>6, <2>7 DEF Basic
  <1>13. CASE IsrComplete
    <2>1. TypeOK'
      BY <1>0, <1>13 DEF IsrComplete, TypeOK
    <2>2. CallInv'
      BY <1>0, <1>13 DEF IsrComplete, CallInv
    <2>3. StatusInv'
      BY <1>0, <1>13 DEF IsrComplete, StatusInv, Feeding, Turning
    <2> QED  BY <2>1, <2>2, <2>3 DEF Basic
  <1> QED  BY <1>1, <1>2, <1>3, <1>4, <1>5, <1>6, <1>7, <1>8, <1>9, <1>10, <1>11, <1>12,
              <1>13 DEF bcm2835_i2c_isr

LEMMA BasicController == Basic /\ (Controller \/ UNCHANGED vars) => Basic'
  <1> SUFFICES ASSUME Basic, Controller \/ UNCHANGED vars PROVE Basic'
    OBVIOUS
  <1> USE DEF driver, status, history, rest
  <1>0. TypeOK /\ CallInv /\ StatusInv
    BY DEF Basic
  <1>1. CASE SendByte
    <2>1. engine' \in Engine /\ engine'.on /\ done' \in BOOLEAN
      BY <1>0, <1>1, Advances DEF SendByte
    <2>2. fifo' \in Seq({0, 1}) /\ sent' \in Nat
      BY <1>0, <1>1 DEF SendByte, TypeOK
    <2>3. engine.active /\ UNCHANGED <<pc, msg, msgs, call, curr_msg, num_msgs,
                                       remaining, completion, msg_err, result, isr,
                                       isr_msg, val, got, overtaken, before,
                                       straggler, err, nacked>>
      BY <1>1 DEF SendByte
    <2>4. TypeOK'
      BY <1>0, <2>1, <2>2, <2>3 DEF TypeOK
    <2>5. CallInv'
      BY <1>0, <2>3, OffIsEngine DEF CallInv
    <2>6. StatusInv'
      BY <2>1 DEF StatusInv
    <2> QED  BY <2>4, <2>5, <2>6 DEF Basic
  <1>2. CASE ReceiveByte
    <2>1. engine' \in Engine /\ engine'.on /\ done' \in BOOLEAN
      BY <1>0, <1>2, Advances DEF ReceiveByte
    <2>2. fifo' \in Seq({0, 1})
      BY <1>0, <1>2, AppendProperties DEF ReceiveByte, TypeOK
    <2>3. engine.active /\ UNCHANGED <<pc, msg, msgs, call, curr_msg, num_msgs,
                                       remaining, completion, msg_err, result, isr,
                                       isr_msg, val, got, overtaken, before,
                                       straggler, err, sent, nacked>>
      BY <1>2 DEF ReceiveByte
    <2>4. TypeOK'
      BY <1>0, <2>1, <2>2, <2>3 DEF TypeOK
    <2>5. CallInv'
      BY <1>0, <2>3, OffIsEngine DEF CallInv
    <2>6. StatusInv'
      BY <2>1 DEF StatusInv
    <2> QED  BY <2>4, <2>5, <2>6 DEF Basic
  <1>3. CASE Fail
    <2>1. /\ engine.active
          /\ engine' = [engine EXCEPT !.active = FALSE, !.left = 0, !.next = <<>>]
          /\ err' = TRUE /\ done' = TRUE
          /\ UNCHANGED <<pc, msg, msgs, call, curr_msg, num_msgs, remaining,
                         completion, msg_err, result, isr, isr_msg, val, got,
                         overtaken, before, straggler, fifo, sent>>
      BY <1>3 DEF Fail, rest, driver
    <2>1a. nacked' \in BOOLEAN
      BY <1>3 DEF Fail
    <2>2. <<>> \in Seq(Message)
      OBVIOUS
    <2>3. engine' \in Engine
      BY <1>0, <2>1, <2>2 DEF TypeOK, Engine
    <2>4. engine'.on
      BY <1>0, <2>1 DEF TypeOK, Engine, StatusInv
    <2>5. TypeOK'
      BY <1>0, <2>1, <2>1a, <2>3 DEF TypeOK
    <2>6. CallInv'
      BY <1>0, <2>1, OffIsEngine DEF CallInv
    <2>7. StatusInv'
      BY <2>4 DEF StatusInv
    <2> QED  BY <2>5, <2>6, <2>7 DEF Basic
  <1>4. CASE UNCHANGED vars
    <2>1. TypeOK'
      BY <1>0, <1>4 DEF vars, TypeOK
    <2>2. CallInv'
      BY <1>0, <1>4 DEF vars, CallInv
    <2>3. StatusInv'
      BY <1>0, <1>4 DEF vars, StatusInv, Feeding
    <2> QED  BY <2>1, <2>2, <2>3 DEF Basic
  <1> QED  BY <1>1, <1>2, <1>3, <1>4 DEF Controller

-----------------------------------------------------------------------------
(* The messages caller and handler are at.                                  *)

LEMMA DriverCaller ==
    Basic /\ StartInv /\ DriverInv /\ bcm2835_i2c_xfer => DriverInv'
  <1> SUFFICES ASSUME Basic, StartInv, DriverInv, bcm2835_i2c_xfer, ~straggler'
               PROVE  DriverInv'
    BY DEF DriverInv
  <1> USE DEF driver, handler, history
  <1>1. ASSUME NEW c \in Calls, Begin(c) PROVE DriverInv'
    BY <1>1 DEF Begin, DriverInv, Starting
  <1>2. CASE Load
    BY <1>2 DEF Load, DriverInv, Starting
  <1>3. CASE Test
    <2>1. pc = "test" /\ pc' = (IF num_msgs = 0 THEN "wait" ELSE "take") /\ ~straggler
            /\ UNCHANGED <<msg, msgs, curr_msg, num_msgs, isr, isr_msg>>
      BY <1>3 DEF Test
    <2>2. num_msgs = Len(msgs) /\ Len(msgs) # 0 /\ curr_msg = 1 /\ msg = 1
      BY <2>1, MessageTypes DEF DriverInv, Starting, Basic, CallInv
    <2> QED  BY <2>1, <2>2 DEF DriverInv, Starting
  <1>4. CASE Take
    <2>1. /\ pc = "take" /\ pc' = "go" /\ TakeMessage(msg) /\ ~straggler
          /\ UNCHANGED <<msg, msgs, curr_msg, isr, isr_msg>>
      BY <1>4 DEF Take
    <2>2. num_msgs = Len(msgs) /\ msg = 1 /\ curr_msg = 1 /\ 1 \in 1..Len(msgs)
      BY <2>1, MessageTypes DEF DriverInv, Starting, Basic, CallInv
    <2>3. num_msgs' = Len(msgs) - 1 /\ remaining' = msgs[1].len
      BY <2>1, <2>2, Takes DEF Basic
    <2> QED  BY <2>1, <2>2, <2>3 DEF DriverInv, Starting
  <1>5. CASE Go
    <2>1. /\ pc = "go" /\ pc' = "wait" /\ ~straggler
          /\ UNCHANGED <<msgs, curr_msg, num_msgs, isr, isr_msg>>
      BY <1>5 DEF Go
    <2>2. /\ num_msgs = Len(msgs) - 1 /\ curr_msg = 1 /\ curr_msg \in 1..Len(msgs)
          /\ isr = "off"
      BY <2>1, MessageTypes DEF DriverInv, Starting, StartInv, Basic, CallInv
    <2> QED  BY <2>1, <2>2 DEF DriverInv, Starting, Turning
  <1>6. CASE Completed
    BY <1>6 DEF Completed, DriverInv, Starting
  <1>7. CASE TimedOut
    BY <1>7 DEF TimedOut, DriverInv, Starting
  <1>8. CASE ReturnTimeout
    BY <1>8 DEF ReturnTimeout, DriverInv, Starting
  <1>9. CASE Return
    BY <1>9 DEF Return, DriverInv, Starting
  <1> QED  BY <1>1, <1>2, <1>3, <1>4, <1>5, <1>6, <1>7, <1>8, <1>9 DEF bcm2835_i2c_xfer

LEMMA OneLeft ==
    ASSUME NEW l \in {1, 2}, NEW c \in {1, 2}, c <= l, l - c # 0
    PROVE  c = 1 /\ l = 2 /\ l - c = 1
  OBVIOUS

(* What a step of the handler leaves alone, in a call it is not late for.   *)
LEMMA HandlerSteps ==
    ASSUME Basic, StartInv, bcm2835_i2c_isr, ~straggler'
    PROVE  /\ ~straggler /\ pc \notin Starting /\ curr_msg # 0
           /\ UNCHANGED <<pc, msg, msgs, call, result, nacked, before, sent>>
  <1> USE DEF caller, driver, history
  <1>1. CASE IsrEnter
    <2>1. ~straggler /\ pc \notin Starting
      BY <1>1 DEF IsrEnter, Basic, TypeOK
    <2>2. curr_msg # 0
      BY <1>1 DEF IsrEnter, Basic, CallInv, TXW, Off
    <2> QED  BY <1>1, <2>1, <2>2 DEF IsrEnter
  <1>2. CASE bcm2835_i2c_isr /\ isr # "off"
    <2>1. UNCHANGED <<caller, sent>>
      BY <1>2 DEF bcm2835_i2c_isr, IsrEnter, IsrError, IsrDone, IsrTooMany, Fill, IsrMore,
                  IsrNext, IsrLoad, IsrTest, IsrTake, IsrGo, IsrClear, IsrComplete
    <2>2. ~straggler
      BY <2>1
    <2>3. pc \notin Starting /\ curr_msg # 0
      BY <1>2, <2>2 DEF StartInv, Basic, CallInv
    <2> QED  BY <2>1, <2>2, <2>3
  <1>3. bcm2835_i2c_isr /\ isr = "off" => IsrEnter
    BY DEF bcm2835_i2c_isr, IsrEnter, IsrError, IsrDone, IsrTooMany, Fill, IsrMore,
           IsrNext, IsrLoad, IsrTest, IsrTake, IsrGo, IsrClear, IsrComplete
  <1> QED  BY <1>1, <1>2, <1>3

LEMMA DriverHandler ==
    Basic /\ StartInv /\ DriverInv /\ bcm2835_i2c_isr => DriverInv'
  <1> SUFFICES ASSUME Basic, StartInv, DriverInv, bcm2835_i2c_isr, ~straggler'
               PROVE  DriverInv'
    BY DEF DriverInv
  <1>1. /\ ~straggler /\ pc \notin Starting /\ curr_msg # 0
        /\ UNCHANGED <<pc, msg, msgs>>
    BY HandlerSteps
  <1>2. /\ curr_msg \in 1..Len(msgs)
        /\ num_msgs = CASE isr = "next" -> 1
                        [] isr \in {"load", "test", "take"} -> 1
                        [] OTHER -> Len(msgs) - curr_msg
        /\ isr = "next" => curr_msg = 1 /\ Len(msgs) = 2
        /\ isr \in Turning \ {"next"} => curr_msg = 2
        /\ isr \in {"test", "take", "go"} => isr_msg = 2
    BY <1>1 DEF DriverInv
  <1>3. Len(msgs) \in {1, 2} /\ curr_msg \in {1, 2}
    <2>1. msgs \in Calls
      <3>1. msgs # <<>>
        BY <1>2
      <3> QED  BY <3>1 DEF Basic, TypeOK
    <2> QED  BY <1>2, <2>1, MessageTypes
  <1> USE DEF driver
  <1>4. CASE IsrEnter \/ IsrError \/ IsrTooMany \/ IsrClear \/ IsrComplete
    <2>1. UNCHANGED <<curr_msg, num_msgs, isr_msg>>
      BY <1>4 DEF IsrEnter, IsrError, IsrTooMany, IsrClear, IsrComplete
    <2>2. /\ isr \in {"off", "body", "clear", "complete"}
          /\ isr' \in {"off", "body", "clear", "complete"}
      BY <1>4 DEF IsrEnter, IsrError, IsrTooMany, IsrClear, IsrComplete
    <2> QED  BY <1>1, <1>2, <2>1, <2>2 DEF DriverInv, Turning
  <1>5. CASE IsrDone
    BY <1>1, <1>2, <1>5 DEF IsrDone, DriverInv, Turning
  <1>6. CASE Fill
    BY <1>1, <1>2, <1>6 DEF Fill, DriverInv, Turning
  <1>7. CASE IsrMore
    <2>1. /\ isr = "fill" /\ UNCHANGED <<curr_msg, num_msgs, isr_msg>>
          /\ isr' = IF num_msgs # 0 THEN "next" ELSE "off"
      BY <1>7 DEF IsrMore
    <2>2. num_msgs = Len(msgs) - curr_msg
      BY <1>2, <2>1
    <2>3. CASE num_msgs # 0
      <3>1. curr_msg <= Len(msgs)
        BY <1>2, <1>3
      <3>2. curr_msg = 1 /\ Len(msgs) = 2 /\ num_msgs = 1
        BY <1>3, <2>2, <2>3, <3>1, OneLeft
      <3>3. isr' = "next"
        BY <2>1, <2>3
      <3> QED  BY <1>1, <2>1, <3>2, <3>3 DEF DriverInv, Turning
    <2>4. CASE num_msgs = 0
      BY <1>1, <1>2, <2>1, <2>2, <2>4 DEF DriverInv, Turning
    <2> QED  BY <2>3, <2>4
  <1>8. CASE IsrNext
    <2>1. curr_msg' = 2 /\ curr_msg' \in 1..Len(msgs) /\ num_msgs' = 1 /\ isr' = "load"
      BY <1>2, <1>8 DEF IsrNext
    <2> QED  BY <1>1, <2>1 DEF DriverInv, Turning
  <1>9. CASE IsrLoad
    BY <1>1, <1>2, <1>9 DEF IsrLoad, DriverInv, Turning
  <1>10. CASE IsrTest
    BY <1>1, <1>2, <1>10 DEF IsrTest, DriverInv, Turning
  <1>11. CASE IsrTake
    <2>1. /\ isr = "take" /\ isr' = "go" /\ UNCHANGED <<curr_msg, isr_msg>>
          /\ num_msgs' = num_msgs - 1
      BY <1>11 DEF IsrTake, TakeMessage
    <2>2. curr_msg = 2 /\ num_msgs = 1 /\ Len(msgs) = 2 /\ isr_msg = 2
      BY <1>2, <1>3, <2>1 DEF Turning
    <2> QED  BY <1>1, <2>1, <2>2 DEF DriverInv, Turning
  <1>12. CASE IsrGo
    BY <1>1, <1>2, <1>12 DEF IsrGo, DriverInv, Turning
  <1> QED  BY <1>4, <1>5, <1>6, <1>7, <1>8, <1>9, <1>10, <1>11, <1>12
           DEF bcm2835_i2c_isr

LEMMA DriverController ==
    DriverInv /\ (Controller \/ UNCHANGED vars) => DriverInv'
  <1> SUFFICES ASSUME DriverInv, Controller \/ UNCHANGED vars PROVE DriverInv'
    OBVIOUS
  <1>1. UNCHANGED <<pc, msg, msgs, curr_msg, num_msgs, remaining, isr, isr_msg,
                    straggler>>
    BY DEF Controller, SendByte, ReceiveByte, Fail, rest, driver, history, vars
  <1> QED  BY <1>1 DEF DriverInv

-----------------------------------------------------------------------------
(* A call that no earlier handler meets.                                    *)

Live == StartInv /\ RunInv /\ ClosingInv /\ EndInv

(* Where the caller of such a call is while the handler is at work.         *)
LEMMA Busy ==
    ASSUME Basic, Live, ~straggler, isr # "off" \/ engine.active \/ done \/ err
    PROVE  \/ pc \in Starting /\ isr = "off"
           \/ pc = "wait" /\ completion = 0
           \/ pc = "clear"
           \/ pc = "idle" /\ result = "timeout"
  BY OffIsEngine DEF Basic, TypeOK, Live, StartInv, EndInv, Clean

LEMMA GoodTypes ==
    ASSUME Basic, pc = "wait", curr_msg \in 1..Len(msgs)
    PROVE  /\ msgs \in Calls /\ Len(msgs) \in {1, 2} /\ curr_msg \in {1, 2}
           /\ Cur \in Message /\ Cur.len \in Nat /\ Cur.len > 0 /\ Cur.read \in BOOLEAN
           /\ Before \in Nat /\ remaining \in Nat /\ sent \in Nat
           /\ engine.left \in Nat /\ Len(fifo) \in Nat
           /\ (fifo = <<>> <=> Len(fifo) = 0)
           /\ curr_msg = 2 => ~msgs[1].read /\ Before = msgs[1].len /\ Before > 0
           /\ msgs[1].len \in Nat /\ (curr_msg = 1 => Before = 0 /\ Cur = msgs[1])
  <1>1. msgs \in Calls
    BY DEF Basic, CallInv
  <1>2. Len(msgs) \in {1, 2} /\ curr_msg \in {1, 2} /\ 1 \in 1..Len(msgs)
    BY <1>1, MessageTypes
  <1>3. Cur \in Message /\ Cur.len \in Nat /\ Cur.len > 0 /\ Cur.read \in BOOLEAN
    BY <1>1, MessageTypes DEF Cur
  <1>4. msgs[1].len \in Nat /\ msgs[1].len > 0 /\ (Len(msgs) = 2 => ~msgs[1].read)
    BY <1>1, <1>2, MessageTypes
  <1>5. Len(fifo) \in Nat /\ (fifo = <<>> <=> Len(fifo) = 0)
    BY EmptySeq, LenProperties DEF Basic, TypeOK
  <1>6. engine.left \in Nat /\ remaining \in Nat /\ sent \in Nat
    BY DEF Basic, TypeOK, Engine
  <1>7. curr_msg = 2 => Len(msgs) = 2
    BY <1>2
  <1>8. curr_msg = 1 => Before = 0 /\ Cur = msgs[1]
    BY DEF Before, Cur
  <1> QED  BY <1>1, <1>2, <1>3, <1>4, <1>5, <1>6, <1>7, <1>8 DEF Before

LEMMA LiveCaller == Basic /\ DriverInv /\ Live /\ bcm2835_i2c_xfer => Live'
  <1> SUFFICES ASSUME Basic, DriverInv, Live, bcm2835_i2c_xfer PROVE Live'
    OBVIOUS
  <1> USE DEF driver, handler, status, history
  <1>1. ASSUME NEW c \in Calls, Begin(c) PROVE Live'
    BY <1>1 DEF Begin, ReinitCompletion, Live, StartInv, RunInv, ClosingInv, EndInv, Starting
  <1>2. CASE Load
    BY <1>2 DEF Load, Live, StartInv, RunInv, ClosingInv, EndInv, Starting
  <1>3. CASE Test
    <2>1. /\ pc = "test" /\ pc' = IF num_msgs = 0 THEN "wait" ELSE "take"
          /\ UNCHANGED <<isr, completion, got, overtaken, engine, sent, nacked,
                         straggler>>
      BY <1>3 DEF Test
    <2>2. ~straggler => num_msgs # 0
      BY <2>1, MessageTypes DEF DriverInv, Starting, Basic, CallInv
    <2> QED  BY <2>1, <2>2 DEF Live, StartInv, RunInv, ClosingInv, EndInv, Starting
  <1>4. CASE Take
    BY <1>4 DEF Take, Live, StartInv, RunInv, ClosingInv, EndInv, Starting
  <1>5. CASE Go
    <2> SUFFICES ASSUME ~straggler' PROVE Live'
      BY DEF Live, StartInv, RunInv, ClosingInv, EndInv
    <2>1. /\ pc = "go" /\ pc' = "wait" /\ ~straggler /\ Quiet /\ StartEngine(msg)
          /\ UNCHANGED <<msgs, call, curr_msg, num_msgs, remaining, completion,
                         msg_err, result, isr, val, fifo, done, err, sent, got,
                         nacked, overtaken, before>>
      BY <1>5 DEF Go
    <2>2. /\ isr = "off" /\ curr_msg = 1 /\ msg = 1 /\ num_msgs = Len(msgs) - 1
          /\ remaining = msgs[1].len /\ completion = 0
          /\ got = 0 /\ sent = 0 /\ ~nacked /\ ~overtaken /\ ~engine.on /\ ~engine.active
          /\ fifo = <<>> /\ Len(fifo) = 0
      BY <2>1 DEF Live, StartInv, DriverInv, Quiet, Basic, StatusInv, Starting
    <2>3. /\ msgs \in Calls /\ Len(msgs) \in {1, 2} /\ (Len(msgs) = 2 => ~msgs[1].read)
          /\ msgs[1].read \in BOOLEAN /\ msgs[1].len \in Nat /\ msgs[1].len > 0
      BY <2>1, MessageTypes DEF Basic, CallInv
    <2>4. engine' = [active |-> TRUE, on |-> TRUE, read |-> msgs[1].read,
                     left |-> msgs[1].len, next |-> <<>>]
      BY <2>1, <2>2, <2>3, Starts DEF Basic
    <2>5. /\ engine'.active /\ engine'.on /\ engine'.read = msgs[1].read
          /\ engine'.left = msgs[1].len /\ engine'.next = <<>>
      BY <2>4
    <2>6. Cur' = msgs[1] /\ Before' = 0
      BY <2>1, <2>2 DEF Cur, Before
    <2>7. (Waiting \/ Receiving)'
      BY <2>1, <2>2, <2>3, <2>5, <2>6 DEF Waiting, Writing, Receiving
    <2>8. Situation'
      BY <2>1, <2>2, <2>7 DEF Situation, Turning
    <2>9. Good'
      BY <2>1, <2>2, <2>3, <2>5, <2>8 DEF Good, Turning
    <2>10. done \/ err => before = "timeout"
      BY <2>1, <2>2 DEF Basic, StatusInv, Starting
    <2>11. before = "timeout" => Stale'
      BY <2>1, <2>2, <2>6 DEF Stale
    <2>12. RunInv'
      BY <2>1, <2>2, <2>5, <2>9, <2>10, <2>11 DEF RunInv
    <2> QED  BY <2>1, <2>2, <2>12 DEF Live, StartInv, ClosingInv, EndInv, Starting
  <1>6. CASE Completed
    <2>1. /\ pc = "wait" /\ completion > 0 /\ pc' = "check"
          /\ UNCHANGED <<msgs, isr, engine, fifo, done, err, msg_err, sent, got,
                         nacked, overtaken, before, straggler>>
      BY <1>6 DEF Completed
    <2>2. ~straggler => isr = "off" /\ Clean /\ Outcome(msg_err)
      BY <2>1 DEF Live, EndInv
    <2>3. ~straggler' => isr' = "off" /\ Clean' /\ Outcome(msg_err)'
      BY <2>1, <2>2 DEF Clean, Outcome, Earned, ToWrite, ToRead, WriteLen, ReadLen
    <2> QED  BY <2>1, <2>3 DEF Live, StartInv, RunInv, ClosingInv, EndInv, Starting
  <1>7. CASE TimedOut
    BY <1>7 DEF TimedOut, Live, StartInv, RunInv, ClosingInv, EndInv, Starting
  <1>8. CASE ReturnTimeout
    BY <1>8 DEF ReturnTimeout, Live, StartInv, RunInv, ClosingInv, EndInv, Starting
  <1>9. CASE Return
    <2>1. /\ pc = "check" /\ pc' = "idle"
          /\ result' = IF msg_err = "none" THEN "ok" ELSE "error"
          /\ UNCHANGED <<msgs, isr, engine, fifo, done, err, msg_err, sent, got,
                         nacked, overtaken, before, straggler>>
      BY <1>9 DEF Return
    <2>2. ~straggler => isr = "off" /\ Clean /\ Outcome(msg_err)
      BY <2>1 DEF Live, EndInv
    <2>3. ~straggler' => /\ isr' = "off" /\ Clean'
                         /\ result' = "ok" => Outcome("none")'
                         /\ result' = "error" => Outcome("err")'
      BY <2>1, <2>2 DEF Clean, Outcome, Earned, ToWrite, ToRead, WriteLen, ReadLen
    <2> QED  BY <2>1, <2>3 DEF Live, StartInv, RunInv, ClosingInv, EndInv, Starting
  <1> QED  BY <1>1, <1>2, <1>3, <1>4, <1>5, <1>6, <1>7, <1>8, <1>9 DEF bcm2835_i2c_xfer

LEMMA ReadingIs ==
    ASSUME Basic, pc = "wait", curr_msg \in 1..Len(msgs)
    PROVE  Reading <=> Cur.read
  <1>1. curr_msg \in Nat /\ curr_msg # 0
    BY LenProperties DEF Basic, TypeOK
  <1>2. MessageAt(curr_msg) = {Cur}
    BY <1>1, MessagesAt DEF Basic, Cur
  <1> QED  BY <1>1, <1>2 DEF Reading

(* What a call amounts to once it is at its last message.                   *)
LEMMA BytesAre ==
    ASSUME Basic, pc = "wait", curr_msg \in 1..Len(msgs), curr_msg = Len(msgs)
    PROVE  /\ Cur.read => ToWrite = Before /\ ToRead = Cur.len
           /\ ~Cur.read => ToWrite = Before + Cur.len /\ ToRead = 0
  <1>1. /\ curr_msg \in {1, 2} /\ Cur.len \in Nat /\ Cur.read \in BOOLEAN
        /\ curr_msg = 2 => ~msgs[1].read
    BY GoodTypes
  <1>2. msgs \in Calls /\ msgs[1].read \in BOOLEAN /\ msgs[1].len \in Nat
    BY GoodTypes, MessageTypes
  <1>3. CASE curr_msg = 1
    <2>1. Len(msgs) = 1 /\ Before = 0 /\ Cur = msgs[1]
      BY <1>3 DEF Before, Cur
    <2>2. WriteLen(2) = 0 /\ ReadLen(2) = 0
      BY <2>1 DEF WriteLen, ReadLen
    <2>3. /\ WriteLen(1) = IF Cur.read THEN 0 ELSE Cur.len
          /\ ReadLen(1) = IF Cur.read THEN Cur.len ELSE 0
      BY <1>1, <2>1 DEF WriteLen, ReadLen
    <2>4. ToWrite = WriteLen(1) /\ ToRead = ReadLen(1)
      BY <1>1, <2>2, <2>3 DEF ToWrite, ToRead
    <2> QED  BY <1>1, <2>1, <2>3, <2>4
  <1>4. CASE curr_msg = 2
    <2>1. Len(msgs) = 2 /\ Before = msgs[1].len /\ Cur = msgs[2] /\ msgs[1].read = FALSE
      BY <1>1, <1>2, <1>4 DEF Before, Cur
    <2>2. WriteLen(1) = msgs[1].len /\ ReadLen(1) = 0
      BY <2>1 DEF WriteLen, ReadLen
    <2>3. /\ WriteLen(2) = IF Cur.read THEN 0 ELSE Cur.len
          /\ ReadLen(2) = IF Cur.read THEN Cur.len ELSE 0
      BY <1>1, <2>1 DEF WriteLen, ReadLen
    <2>4. WriteLen(2) \in Nat /\ ReadLen(2) \in Nat
      BY <1>1, <2>3
    <2>5. /\ ToWrite = msgs[1].len + WriteLen(2)
          /\ ToRead = ReadLen(2)
      BY <1>2, <2>2, <2>4 DEF ToWrite, ToRead
    <2> QED  BY <1>1, <1>2, <2>1, <2>3, <2>5
  <1> QED  BY <1>1, <1>3, <1>4

(* What DONE makes of a transfer in one of its situations.                  *)
LEMMA DoneEnds ==
    ASSUME Basic, DriverInv, RunInv, IsrDone, pc = "wait", ~straggler, completion = 0
    PROVE  Outcome(msg_err)' /\ (msg_err' = "none" => ~engine.active)
  <1>1. /\ isr = "body" /\ val \in {"done", "donerxd"} /\ remaining' = remaining - Drained
        /\ got' = got + Cardinality({i \in 1..Drained : fifo[i] = call})
        /\ msg_err' = IF LengthError THEN "len" ELSE "none"
        /\ UNCHANGED <<msgs, sent, nacked, overtaken, before>>
    BY DEF IsrDone, caller
  <1>2. /\ done /\ (err => StaleFailed /\ ~engine.active)
        /\ ~err => Good /\ (~engine.active \/ Stale)
        /\ val = "donerxd" => Cur.read \/ Earned
    BY <1>1 DEF RunInv, Running
  <1>3. /\ Drained \in 0..Len(fifo) /\ Drained <= remaining /\ Drained \in Nat
        /\ remaining \in Nat /\ Len(fifo) \in Nat /\ fifo \in Seq({0, 1})
    BY Drains, LenProperties DEF Basic, TypeOK
  <1>4. Earned /\ remaining' # 0
          => Outcome(msg_err)' /\ (msg_err' = "none" => ~engine.active)
    BY <1>1 DEF LengthError, Outcome, Earned
  <1>5. CASE err
    <2>1. Earned /\ Len(fifo) < remaining
      BY <1>2, <1>5 DEF StaleFailed
    <2>2. remaining' # 0
      BY <1>1, <1>3, <2>1
    <2> QED  BY <1>4, <2>1, <2>2
  <1>6. CASE ~err
    <2>1. /\ Good /\ curr_msg \in 1..Len(msgs)
          /\ Behind \/ Waiting \/ Written \/ Receiving
      BY <1>1, <1>2, <1>6 DEF Good, Situation, Turning
    <2>2. /\ Cur.len \in Nat /\ Cur.len > 0 /\ Cur.read \in BOOLEAN /\ engine.left \in Nat
          /\ Before \in Nat /\ sent \in Nat
          /\ (fifo = <<>> <=> Len(fifo) = 0) /\ curr_msg \in {1, 2}
      BY <2>1, GoodTypes
    <2>3. (Reading <=> Cur.read) /\ (~Cur.read => Drained = 0)
            /\ (Cur.read => Drained = LesserOf(remaining, Len(fifo)))
      BY <2>1, ReadingIs DEF Drained
    <2>4. CASE engine.active
      <3>1. Stale /\ engine.left > 0
        BY <1>2, <1>6, <2>1, <2>4 DEF Good
      <3>2. remaining = Cur.len /\ Earned /\ (curr_msg = 2 => overtaken)
        BY <2>2, <3>1 DEF Stale, Earned
      <3>3. Waiting \/ Receiving
        BY <2>1, <2>2, <3>2 DEF Behind, Written
      <3>4. remaining' # 0
        <4>1. CASE Waiting
          BY <1>1, <1>3, <2>2, <2>3, <3>2, <4>1 DEF Waiting, Writing
        <4>2. CASE Receiving
          BY <1>1, <1>3, <2>2, <3>1, <3>2, <4>2 DEF Receiving
        <4> QED  BY <3>3, <4>1, <4>2
      <3> QED  BY <1>4, <3>2, <3>4
    <2>5. CASE ~engine.active
      <3>1. engine.left = 0 /\ got = 0 /\ \A i \in 1..Len(fifo) : fifo[i] = call
        BY <2>1, <2>2, <2>5 DEF Good
      <3>2. Written \/ Receiving
        BY <1>3, <2>1, <2>2, <3>1 DEF Behind, Waiting, Writing
      <3>3. num_msgs = 0 /\ curr_msg = Len(msgs)
        <4>1. num_msgs = 0
          BY <3>2 DEF Written, Receiving
        <4>2. num_msgs = Len(msgs) - curr_msg
          BY <1>1, <2>2 DEF DriverInv, Starting
        <4> QED  BY <2>1, <4>1, <4>2, GoodTypes
      <3>4. Drained = Len(fifo) /\ Drained = remaining
        BY <1>3, <2>2, <2>3, <3>1, <3>2 DEF Written, Writing, Receiving, LesserOf
      <3>5. got' = Len(fifo)
        <4>1. Cardinality({i \in 1..Drained : fifo[i] = call}) = Drained
          <5>1. \A i \in 1..Len(fifo) : fifo[i] = call
            BY <3>1
          <5> QED  BY <1>3, <5>1, Counting, Zenon
        <4> QED  BY <1>1, <1>3, <3>1, <3>4, <4>1
      <3>6. sent = ToWrite /\ Len(fifo) = ToRead
        <4>0. /\ Cur.read => ToWrite = Before /\ ToRead = Cur.len
              /\ ~Cur.read => ToWrite = Before + Cur.len /\ ToRead = 0
          BY <2>1, <3>3, BytesAre
        <4>1. CASE Written
          <5>1. ~Cur.read /\ remaining = 0 /\ sent + Len(fifo) + remaining = Before + Cur.len
            BY <4>1 DEF Written, Writing
          <5>2. Len(fifo) = 0
            BY <3>4, <5>1
          <5> QED  BY <2>2, <4>0, <5>1, <5>2
        <4>2. CASE Receiving
          <5>1. Cur.read /\ Len(fifo) = Cur.len /\ sent = Before
            BY <1>3, <2>2, <3>1, <4>2 DEF Receiving
          <5> QED  BY <4>0, <5>1
        <4> QED  BY <3>2, <4>1, <4>2
      <3>7. sent' = ToWrite' /\ got' = ToRead'
        BY <1>1, <3>5, <3>6 DEF ToWrite, ToRead, WriteLen, ReadLen
      <3>8. Rest = <<>> /\ remaining' = 0
        BY <1>1, <1>3, <3>4, Draining DEF Rest
      <3>9. LengthError => Earned
        BY <1>2, <2>3, <3>8 DEF LengthError
      <3>10. Earned' <=> Earned
        BY <1>1 DEF Earned
      <3> QED  BY <1>1, <2>5, <3>7, <3>9, <3>10 DEF Outcome
    <2> QED  BY <2>4, <2>5
  <1> QED  BY <1>5, <1>6

(* Filling the FIFO goes on byte by byte.                                   *)
LEMMA FillGoesOn ==
    ASSUME Basic, RunInv, Fill, pc = "wait", ~straggler, completion = 0, ~err
    PROVE  Good' /\ ~done' /\ engine'.active
  <1>1. /\ isr = "fill" \/ (isr = "body" /\ val = "txw")
        /\ isr' = "fill" /\ remaining > 0 /\ remaining' = remaining - 1
        /\ fifo' = Append(fifo, call)
        /\ UNCHANGED <<msgs, call, curr_msg, num_msgs, engine, done, err, sent, got,
                       overtaken>>
    BY DEF Fill, caller, status
  <1>2. Good /\ Writing /\ (done => ~engine.active) /\ (~engine.active => done)
    BY <1>1 DEF RunInv, Running, Good, Situation, Waiting, Stale
  <1>3. /\ curr_msg \in 1..Len(msgs) /\ engine.on /\ got = 0
        /\ (engine.active <=> engine.left > 0)
        /\ \A i \in 1..Len(fifo) : fifo[i] = call
        /\ curr_msg = 1 => ~overtaken
    BY <1>2 DEF Good
  <1>4. /\ Cur.len \in Nat /\ Before \in Nat /\ sent \in Nat /\ remaining \in Nat
        /\ engine.left \in Nat /\ Len(fifo) \in Nat
    BY <1>3, GoodTypes
  <1>5. /\ ~Cur.read /\ engine.next = <<>> /\ ~engine.read /\ remaining <= Cur.len
        /\ engine.left = Len(fifo) + remaining
        /\ sent + Len(fifo) + remaining = Before + Cur.len
    BY <1>2 DEF Writing
  <1>6. fifo \in Seq({0, 1}) /\ call \in {0, 1}
    BY DEF Basic, TypeOK
  <1>7. /\ Len(fifo') = Len(fifo) + 1
        /\ \A i \in 1..Len(fifo) : fifo'[i] = fifo[i]
        /\ fifo'[Len(fifo) + 1] = call
    BY <1>1, <1>6, AppendProperties
  <1>8. \A i \in 1..Len(fifo') : fifo'[i] = call'
    BY <1>1, <1>3, <1>4, <1>7
  <1>9. engine.active /\ ~done
    BY <1>1, <1>2, <1>3, <1>4, <1>5
  <1>10. Cur' = Cur /\ Before' = Before
    BY <1>1 DEF Cur, Before
  <1>11. /\ remaining' <= Cur.len /\ engine.left = Len(fifo') + remaining'
         /\ sent + Len(fifo') + remaining' = Before + Cur.len
    BY <1>1, <1>4, <1>5, <1>7
  <1>12. Writing'
    BY <1>1, <1>5, <1>10, <1>11 DEF Writing
  <1>13. Situation'
    BY <1>1, <1>12 DEF Situation
  <1> QED  BY <1>1, <1>3, <1>8, <1>9, <1>13 DEF Good, Turning

(* From the last byte of a message to the end of the handler, or to the     *)
(* start of the second message.                                             *)
LEMMA MoreGoesOn ==
    ASSUME Basic, DriverInv, RunInv, IsrMore, pc = "wait", ~straggler, completion = 0, ~err
    PROVE  Good' /\ (done' => ~engine'.active) /\ (~engine'.active => done')
  <1>1. /\ isr = "fill" /\ remaining = 0
        /\ isr' = IF num_msgs # 0 THEN "next" ELSE "off"
        /\ UNCHANGED <<msgs, call, curr_msg, num_msgs, remaining, fifo, engine, done,
                       sent, got, overtaken>>
    BY DEF IsrMore, caller, driver, status
  <1>2. Good /\ Writing /\ (done => ~engine.active) /\ (~engine.active => done)
    BY <1>1 DEF RunInv, Running, Good, Situation, Stale
  <1>3. curr_msg \in 1..Len(msgs) /\ num_msgs = Len(msgs) - curr_msg
    BY <1>1, <1>2 DEF Good, DriverInv, Starting
  <1>4. /\ Len(msgs) \in {1, 2} /\ curr_msg \in {1, 2}
        /\ Cur.len \in Nat /\ sent \in Nat /\ Len(fifo) \in Nat /\ engine.left \in Nat
        /\ curr_msg = 1 => Before = 0 /\ Cur = msgs[1]
    BY <1>3, GoodTypes
  <1>5. /\ engine.next = <<>> /\ ~engine.read /\ engine.left = Len(fifo) + remaining
        /\ sent + Len(fifo) + remaining = Before + Cur.len
    BY <1>2 DEF Writing
  <1>6. Situation' /\ (isr' \in Turning => curr_msg = 1)
    <2>1. CASE num_msgs # 0
      <3>0. curr_msg <= Len(msgs)
        BY <1>3, <1>4
      <3>1. curr_msg = 1
        BY <1>3, <1>4, <2>1, <3>0, OneLeft
      <3>2. isr' = "next"
        BY <1>1, <2>1
      <3>3. engine.left = Len(fifo) /\ sent + Len(fifo) = msgs[1].len
        BY <1>1, <1>4, <1>5, <3>1
      <3>4. Leaving'
        BY <1>1, <1>5, <3>2, <3>3 DEF Leaving
      <3> QED  BY <3>1, <3>2, <3>4 DEF Situation, Turning
    <2>2. CASE num_msgs = 0
      <3>1. isr' = "off"
        BY <1>1, <2>2
      <3>2. Cur' = Cur /\ Before' = Before
        BY <1>1 DEF Cur, Before
      <3>3. Written'
        BY <1>1, <1>2, <2>2, <3>2 DEF Written, Writing
      <3> QED  BY <3>1, <3>3 DEF Situation, Turning
    <2> QED  BY <2>1, <2>2
  <1>7. curr_msg' = 1 \/ isr' \in Turning => ~overtaken'
    BY <1>1, <1>2, <1>6 DEF Good
  <1>8. Good'
    BY <1>1, <1>2, <1>6, <1>7 DEF Good
  <1> QED  BY <1>1, <1>2, <1>8

LEMMA TurnGoesOn ==
    ASSUME Basic, DriverInv, RunInv, IsrNext \/ IsrLoad \/ IsrTest \/ IsrTake,
           pc = "wait", ~straggler, completion = 0, ~err
    PROVE  /\ Good' /\ (done' => ~engine'.active) /\ (~engine'.active => done')
  <1> USE DEF caller, driver, status
  <1>1. /\ isr \in Turning /\ isr' \in Turning
        /\ curr_msg \in 1..Len(msgs) /\ curr_msg' \in 1..Len(msgs)
        /\ isr' = "go" => isr = "take" /\ IsrTake
        /\ UNCHANGED <<msgs, call, fifo, engine, done, sent, got, overtaken>>
    <2>1. CASE IsrNext
      <3>1. /\ isr = "next" /\ isr' = "load" /\ curr_msg' = curr_msg + 1
            /\ UNCHANGED <<msgs, call, fifo, engine, done, sent, got, overtaken>>
        BY <2>1 DEF IsrNext
      <3>2. curr_msg = 1 /\ Len(msgs) = 2
        BY <3>1, MessageTypes DEF DriverInv, Starting, Basic, CallInv, TypeOK
      <3> QED  BY <3>1, <3>2 DEF Turning
    <2>2. CASE IsrLoad
      <3>1. /\ isr = "load" /\ isr' = "test"
            /\ UNCHANGED <<curr_msg, msgs, call, fifo, engine, done, sent, got,
                           overtaken>>
        BY <2>2 DEF IsrLoad
      <3>2. curr_msg \in 1..Len(msgs)
        BY <3>1 DEF RunInv, Running, Turning, Good
      <3> QED  BY <3>1, <3>2 DEF Turning
    <2>3. CASE IsrTest
      <3>1. /\ isr = "test" /\ isr' = IF num_msgs = 0 THEN "off" ELSE "take"
            /\ UNCHANGED <<curr_msg, msgs, call, fifo, engine, done, sent, got,
                           overtaken>>
        BY <2>3 DEF IsrTest
      <3>2. curr_msg \in 1..Len(msgs)
        BY <3>1 DEF RunInv, Running, Turning, Good
      <3>3. num_msgs = 1
        BY <3>1, <3>2 DEF DriverInv, Starting, Basic, TypeOK
      <3> QED  BY <3>1, <3>2, <3>3 DEF Turning
    <2>4. CASE IsrTake
      <3>1. /\ isr = "take" /\ isr' = "go"
            /\ UNCHANGED <<curr_msg, msgs, call, fifo, engine, done, sent, got,
                           overtaken>>
        BY <2>4 DEF IsrTake
      <3>2. curr_msg \in 1..Len(msgs)
        BY <3>1 DEF RunInv, Running, Turning, Good
      <3> QED  BY <2>4, <3>1, <3>2 DEF Turning
    <2> QED  BY <2>1, <2>2, <2>3, <2>4
  <1>2. /\ Good /\ Leaving /\ ~overtaken
        /\ (done => ~engine.active) /\ (~engine.active => done)
    BY <1>1 DEF RunInv, Running, Good, Situation, Stale, Turning
  <1>3. isr' = "go" => remaining' = msgs[2].len
    <2> SUFFICES ASSUME isr' = "go" PROVE remaining' = msgs[2].len
      OBVIOUS
    <2>1. isr = "take" /\ IsrTake
      BY <1>1
    <2>2. isr_msg = 2 /\ curr_msg = 2
      BY <1>1, <2>1 DEF DriverInv, Starting, Turning
    <2>3. 2 \in 1..Len(msgs) /\ TakeMessage(2)
      BY <1>1, <2>1, <2>2 DEF IsrTake
    <2> QED  BY <2>3, Takes DEF Basic
  <1>4. Leaving'
    BY <1>1, <1>2, <1>3 DEF Leaving
  <1>5. Situation'
    BY <1>1, <1>4 DEF Situation, Turning
  <1> QED  BY <1>1, <1>2, <1>5 DEF Good

(* The engine is given the second message in time, or starts anew.          *)
LEMMA SecondGoesOn ==
    ASSUME Basic, DriverInv, RunInv, IsrGo, pc = "wait", ~straggler, completion = 0, ~err
    PROVE  Good' /\ (done' => Stale') /\ engine'.active
  <1>1. /\ isr = "go" /\ isr' = "off" /\ StartEngine(isr_msg)
        /\ overtaken' = (overtaken \/ ~engine.active)
        /\ UNCHANGED <<msgs, call, curr_msg, num_msgs, remaining, fifo, done, sent,
                       got>>
    BY DEF IsrGo, caller, driver, status
  <1>2. /\ Good /\ Leaving /\ ~overtaken
        /\ (done => ~engine.active) /\ (~engine.active => done)
    BY <1>1 DEF RunInv, Running, Good, Situation, Stale, Turning
  <1>3. /\ curr_msg = 2 /\ curr_msg \in 1..Len(msgs) /\ isr_msg = 2
        /\ num_msgs = Len(msgs) - 2
    BY <1>1, <1>2 DEF DriverInv, Starting, Turning, Good
  <1>4. /\ msgs \in Calls /\ Len(msgs) = 2 /\ Cur.len \in Nat /\ Cur.len > 0
        /\ Cur.read \in BOOLEAN /\ Cur = msgs[2] /\ Before = msgs[1].len
        /\ sent \in Nat /\ engine.left \in Nat /\ Len(fifo) \in Nat
        /\ (fifo = <<>> <=> Len(fifo) = 0)
    BY <1>3, GoodTypes DEF Cur
  <1>5. /\ engine.next = <<>> /\ ~engine.read /\ engine.left = Len(fifo)
        /\ sent + Len(fifo) = Before /\ remaining = Cur.len /\ num_msgs = 0
    BY <1>1, <1>2, <1>3, <1>4 DEF Leaving
  <1>6. /\ engine.on /\ (engine.active <=> engine.left > 0) /\ got = 0
        /\ \A i \in 1..Len(fifo) : fifo[i] = call
    BY <1>2 DEF Good
  <1>7. engine' = IF engine.active
                  THEN [engine EXCEPT !.next = <<Cur>>]
                  ELSE [active |-> TRUE, on |-> TRUE, read |-> Cur.read,
                        left |-> Cur.len, next |-> <<>>]
    BY <1>1, <1>3, <1>4, Starts DEF Basic
  <1>8. Cur' = Cur /\ Before' = Before
    BY <1>1 DEF Cur, Before
  <1>9. CASE engine.active
    <2>1. engine' = [engine EXCEPT !.next = <<Cur>>]
      BY <1>7, <1>9
    <2>2. /\ engine'.next = <<Cur>> /\ engine'.read = engine.read
          /\ engine'.left = engine.left /\ engine'.on = engine.on
          /\ engine'.active = engine.active
      BY <2>1 DEF Basic, TypeOK, Engine
    <2>3. ~overtaken' /\ ~done'
      BY <1>1, <1>2, <1>9
    <2>4. Behind'
      BY <1>1, <1>3, <1>5, <1>6, <1>8, <1>9, <2>2, <2>3 DEF Behind
    <2>5. Situation'
      BY <1>1, <2>4 DEF Situation, Turning
    <2> QED  BY <1>1, <1>3, <1>6, <1>9, <2>2, <2>3, <2>5 DEF Good, Turning
  <1>10. CASE ~engine.active
    <2>1. engine' = [active |-> TRUE, on |-> TRUE, read |-> Cur.read,
                     left |-> Cur.len, next |-> <<>>]
      BY <1>7, <1>10
    <2>2. /\ engine'.active /\ engine'.on /\ engine'.read = Cur.read
          /\ engine'.left = Cur.len /\ engine'.next = <<>>
      BY <2>1
    <2>3. fifo = <<>> /\ Len(fifo) = 0 /\ sent = Before
      BY <1>4, <1>5, <1>6, <1>10
    <2>4. (Waiting \/ Receiving)'
      BY <1>1, <1>4, <1>5, <1>8, <2>2, <2>3 DEF Waiting, Writing, Receiving
    <2>5. Situation'
      BY <1>1, <2>4 DEF Situation, Turning
    <2>6. overtaken'
      BY <1>1, <1>10
    <2>7. Stale'
      BY <1>1, <1>3, <1>5, <1>8, <2>6 DEF Stale
    <2>8. Good'
      BY <1>1, <1>3, <1>4, <1>6, <2>2, <2>5 DEF Good, Turning
    <2> QED  BY <2>2, <2>7, <2>8
  <1> QED  BY <1>9, <1>10

LEMMA LiveHandler == Basic /\ DriverInv /\ Live /\ bcm2835_i2c_isr => Live'
  <1> SUFFICES ASSUME Basic, DriverInv, Live, bcm2835_i2c_isr, ~straggler' PROVE Live'
    BY DEF Live, StartInv, RunInv, ClosingInv, EndInv
  <1> USE DEF caller, driver, status
  <1>1. /\ ~straggler /\ pc \notin Starting
        /\ UNCHANGED <<pc, result, before, nacked, msgs, call, sent>>
    BY HandlerSteps DEF Live
  <1>2. isr # "off" \/ engine.active \/ done \/ err
    BY DEF bcm2835_i2c_isr, IsrEnter, IsrError, IsrDone, IsrTooMany, Fill, IsrMore,
           IsrNext, IsrLoad, IsrTest, IsrTake, IsrGo, IsrClear, IsrComplete, TXW
  <1>3. \/ pc = "wait" /\ completion = 0
        \/ pc = "clear"
        \/ pc = "idle" /\ result = "timeout"
    BY <1>1, <1>2, Busy
  <1>4. CASE pc = "clear" \/ (pc = "idle" /\ result = "timeout")
    BY <1>1, <1>4 DEF Live, StartInv, RunInv, ClosingInv, EndInv, Starting
  <1>5. CASE pc = "wait" /\ completion = 0
    <2>1. StartInv'
      BY <1>1, <1>5 DEF StartInv, Starting
    <2>2. CASE IsrEnter
      <3>1. /\ isr = "off" /\ isr' = "body" /\ (err \/ done \/ TXW)
            /\ val' = IF err THEN "err"
                      ELSE IF ~done THEN "txw"
                      ELSE IF fifo = <<>> THEN "done" ELSE "donerxd"
            /\ UNCHANGED <<curr_msg, num_msgs, remaining, completion, msg_err,
                           engine, fifo, done, err, got, overtaken>>
        BY <2>2 DEF IsrEnter
      <3>2. IF err THEN nacked \/ before = "timeout"
                   ELSE /\ Good
                        /\ done => ~engine.active \/ Stale
                        /\ ~engine.active => done
        BY <1>1, <1>5, <3>1 DEF Live, RunInv, Running
      <3>3. (Stale => Stale') /\ (Waiting => Waiting') /\ Cur' = Cur
              /\ (Behind => Behind') /\ (Written => Written') /\ (Receiving => Receiving')
        BY <1>1, <3>1 DEF Stale, Behind, Waiting, Written, Writing, Receiving, Cur, Before
      <3>4. Good => Good'
        BY <1>1, <3>1, <3>3 DEF Good, Situation, Turning
      <3>5. ~err => /\ Behind \/ Waiting \/ Written \/ Receiving
                    /\ engine.active <=> engine.left > 0
                    /\ curr_msg \in 1..Len(msgs)
        BY <3>1, <3>2 DEF Good, Situation, Turning
      <3>6. ~err /\ ~done => Waiting
        <4> SUFFICES ASSUME ~err, ~done PROVE Waiting
          OBVIOUS
        <4>1. TXW
          BY <3>1
        <4>2. Len(fifo) \in Nat /\ engine.left \in Nat
          BY <1>5, <3>5, GoodTypes
        <4>3. Written => engine.left = Len(fifo)
          BY <4>2 DEF Written, Writing
        <4> QED  BY <3>5, <4>1, <4>2, <4>3 DEF TXW, Behind, Receiving
      <3>7. ~err /\ done /\ fifo # <<>> => Cur.read
        <4> SUFFICES ASSUME ~err, done, fifo # <<>> PROVE Cur.read
          OBVIOUS
        <4>1. /\ Cur.len \in Nat /\ Cur.len > 0 /\ Len(fifo) \in Nat /\ Len(fifo) # 0
              /\ curr_msg \in {1, 2}
          BY <1>5, <3>5, GoodTypes
        <4>2. ~Behind
          <5> SUFFICES ASSUME Behind PROVE FALSE
            OBVIOUS
          <5>1. Stale
            BY <3>2, <3>5 DEF Behind
          <5> QED  BY <5>1 DEF Behind, Stale
        <4>3. ~Written
          <5> SUFFICES ASSUME Written PROVE FALSE
            OBVIOUS
          <5>1. engine.left > 0 /\ remaining = 0
            BY <4>1 DEF Written, Writing
          <5>2. Stale
            BY <3>2, <3>5, <5>1
          <5> QED  BY <4>1, <5>1, <5>2 DEF Stale
        <4> QED  BY <3>5, <4>2, <4>3 DEF Waiting, Receiving
      <3>8. RunInv'
        BY <1>1, <3>1, <3>2, <3>3, <3>4, <3>6, <3>7 DEF RunInv
      <3> QED  BY <1>1, <1>5, <2>1, <3>1, <3>8 DEF Live, ClosingInv, EndInv
    <2>3. CASE IsrError
      <3>1. /\ isr = "body" /\ val = "err" /\ isr' = "clear" /\ msg_err' = "err"
            /\ completion' = completion /\ overtaken' = overtaken
        BY <2>3 DEF IsrError
      <3>2. nacked \/ before = "timeout"
        BY <1>1, <1>5, <3>1 DEF Live, RunInv, Running
      <3> QED  BY <1>1, <1>5, <2>1, <3>1, <3>2
               DEF Live, RunInv, Running, Turning, ClosingInv, EndInv, Outcome, Earned
    <2>4. CASE IsrDone
      <3>1. isr' = "clear" /\ completion' = completion /\ engine' = engine
        BY <2>4 DEF IsrDone
      <3>2. Outcome(msg_err)' /\ (msg_err' = "none" => ~engine.active)
        BY <1>1, <1>5, <2>4, DoneEnds DEF Live
      <3> QED  BY <1>1, <1>5, <2>1, <3>1, <3>2
               DEF Live, RunInv, Running, Turning, ClosingInv, EndInv
    <2>5. CASE IsrTooMany
      <3>1. /\ isr = "body" /\ val = "txw" /\ isr' = "clear" /\ msg_err' = "len"
            /\ completion' = completion /\ remaining = 0 /\ overtaken' = overtaken
        BY <2>5 DEF IsrTooMany
      <3>2. ~err => Good /\ Waiting
        BY <1>1, <1>5, <3>1 DEF Live, RunInv, Running
      <3>3. err
        <4> SUFFICES ASSUME ~err PROVE FALSE
          OBVIOUS
        <4>1. curr_msg \in 1..Len(msgs) /\ remaining = Cur.len
          BY <3>2 DEF Good, Waiting
        <4> QED  BY <1>5, <3>1, <4>1, GoodTypes
      <3>4. nacked \/ before = "timeout"
        BY <1>1, <1>5, <3>1, <3>3 DEF Live, RunInv, Running
      <3> QED  BY <1>1, <1>5, <2>1, <3>1, <3>4
               DEF Live, RunInv, Running, Turning, ClosingInv, EndInv, Outcome, Earned
    <2>6. CASE Fill
      <3>1. /\ isr \in Running /\ isr' = "fill" /\ UNCHANGED <<completion, done, err>>
        BY <2>6 DEF Fill, Running
      <3>2. err => nacked \/ before = "timeout"
        BY <1>1, <1>5, <3>1 DEF Live, RunInv
      <3>3. ~err => Good' /\ ~done' /\ engine'.active
        BY <1>1, <1>5, <2>6, FillGoesOn DEF Live
      <3> QED  BY <1>1, <1>5, <2>1, <3>1, <3>2, <3>3
               DEF Live, RunInv, ClosingInv, EndInv
    <2>7. CASE IsrMore
      <3>1. /\ isr = "fill" /\ isr \in Running /\ isr' \in {"next", "off"}
            /\ UNCHANGED <<completion, done, err>>
        BY <2>7 DEF IsrMore, Running
      <3>2. err => nacked \/ before = "timeout"
        BY <1>1, <1>5, <3>1 DEF Live, RunInv
      <3>3. ~err => Good' /\ (done' => ~engine'.active) /\ (~engine'.active => done')
        BY <1>1, <1>5, <2>7, MoreGoesOn DEF Live
      <3> QED  BY <1>1, <1>5, <2>1, <3>1, <3>2, <3>3
               DEF Live, RunInv, ClosingInv, EndInv
    <2>8. CASE IsrNext \/ IsrLoad \/ IsrTest \/ IsrTake
      <3>1. /\ isr \in Running /\ isr' \in Turning \cup {"off"}
            /\ UNCHANGED <<completion, done, err>>
        BY <2>8 DEF IsrNext, IsrLoad, IsrTest, IsrTake, Running, Turning
      <3>2. err => nacked \/ before = "timeout"
        BY <1>1, <1>5, <3>1 DEF Live, RunInv
      <3>3. ~err => Good' /\ (done' => ~engine'.active) /\ (~engine'.active => done')
        BY <1>1, <1>5, <2>8, TurnGoesOn DEF Live
      <3> QED  BY <1>1, <1>5, <2>1, <3>1, <3>2, <3>3
               DEF Live, RunInv, ClosingInv, EndInv, Turning
    <2>9. CASE IsrGo
      <3>1. /\ isr = "go" /\ isr \in Running /\ isr' = "off"
            /\ UNCHANGED <<completion, done, err>>
        BY <2>9 DEF IsrGo, Running, Turning
      <3>2. err => nacked \/ before = "timeout"
        BY <1>1, <1>5, <3>1 DEF Live, RunInv
      <3>3. ~err => Good' /\ (done' => Stale') /\ engine'.active
        BY <1>1, <1>5, <2>9, SecondGoesOn DEF Live
      <3> QED  BY <1>1, <1>5, <2>1, <3>1, <3>2, <3>3
               DEF Live, RunInv, ClosingInv, EndInv
    <2>10. CASE IsrClear
      <3>1. /\ isr = "clear" /\ isr' = "complete" /\ engine' = Off /\ fifo' = <<>>
            /\ ~done' /\ ~err' /\ UNCHANGED <<completion, msg_err, got, overtaken>>
        BY <2>10 DEF IsrClear, ClearC
      <3>2. Outcome(msg_err)
        BY <1>1, <1>5, <3>1 DEF Live, ClosingInv
      <3>3. Outcome(msg_err)' /\ Clean'
        BY <1>1, <3>1, <3>2
           DEF Outcome, Earned, ToWrite, ToRead, WriteLen, ReadLen, Clean
      <3> QED  BY <1>1, <1>5, <2>1, <3>1, <3>3
               DEF Live, RunInv, Running, Turning, ClosingInv, EndInv
    <2>11. CASE IsrComplete
      <3>1. /\ isr = "complete" /\ isr' = "off" /\ completion' = completion + 1
            /\ UNCHANGED <<msg_err, engine, fifo, done, err, got, overtaken>>
        BY <2>11 DEF IsrComplete
      <3>2. Outcome(msg_err) /\ Clean
        BY <1>1, <1>5, <3>1 DEF Live, ClosingInv
      <3>3. Outcome(msg_err)' /\ Clean'
        BY <1>1, <3>1, <3>2
           DEF Outcome, Earned, ToWrite, ToRead, WriteLen, ReadLen, Clean
      <3>4. completion' = 1
        BY <1>5, <3>1
      <3> QED  BY <1>1, <1>5, <2>1, <3>1, <3>3, <3>4 DEF Live, RunInv, ClosingInv, EndInv
    <2> QED  BY <2>2, <2>3, <2>4, <2>5, <2>6, <2>7, <2>8, <2>9, <2>10, <2>11
             DEF bcm2835_i2c_isr
  <1> QED  BY <1>3, <1>4, <1>5

(* One byte on the bus: within a message, on to the next, or to the end.    *)
LEMMA AdvanceFields ==
    ASSUME TypeOK, Advance
    PROVE  /\ engine'.on = engine.on
           /\ \/ /\ engine.left > 1 /\ engine'.left = engine.left - 1
                 /\ engine'.active = engine.active /\ engine'.read = engine.read
                 /\ engine'.next = engine.next /\ done' = done
              \/ /\ ~(engine.left > 1) /\ engine.next # <<>>
                 /\ engine'.left = Head(engine.next).len
                 /\ engine'.read = Head(engine.next).read
                 /\ engine'.active = engine.active
                 /\ engine'.next = <<>> /\ done' = done
              \/ /\ ~(engine.left > 1) /\ engine.next = <<>>
                 /\ engine'.left = 0 /\ ~engine'.active /\ engine'.read = engine.read
                 /\ engine'.next = <<>> /\ done'
  <1>1. engine \in Engine
    BY DEF TypeOK
  <1>2. CASE engine.left > 1
    <2>1. engine' = [engine EXCEPT !.left = engine.left - 1] /\ done' = done
      BY <1>2 DEF Advance
    <2> QED  BY <1>1, <1>2, <2>1 DEF Engine
  <1>3. CASE ~(engine.left > 1) /\ engine.next # <<>>
    <2> DEFINE m == Head(engine.next)
    <2>1. engine' = [engine EXCEPT !.read = m.read, !.left = m.len, !.next = <<>>]
            /\ done' = done
      BY <1>3 DEF Advance
    <2> HIDE DEF m
    <2>2. /\ engine'.left = m.len /\ engine'.read = m.read /\ engine'.next = <<>>
          /\ engine'.active = engine.active /\ engine'.on = engine.on
      BY <1>1, <2>1 DEF Engine
    <2> QED  BY <1>3, <2>1, <2>2 DEF m
  <1>4. CASE ~(engine.left > 1) /\ engine.next = <<>>
    <2>1. engine' = [engine EXCEPT !.active = FALSE, !.left = 0] /\ done' = TRUE
      BY <1>4 DEF Advance
    <2>2. /\ engine'.left = 0 /\ engine'.active = FALSE /\ engine'.read = engine.read
          /\ engine'.next = engine.next /\ engine'.on = engine.on
      BY <1>1, <2>1 DEF Engine
    <2> QED  BY <1>4, <2>1, <2>2
  <1> QED  BY <1>2, <1>3, <1>4

LEMMA SendGoesOn ==
    ASSUME Basic, DriverInv, pc = "wait", ~straggler, isr \in Running,
           Good, engine.active, SendByte
    PROVE  Good' /\ (done' => done \/ ~engine'.active) /\ (~engine'.active => done')
  <1>1. /\ ~engine.read /\ fifo # <<>> /\ fifo' = Tail(fifo) /\ Advance
        /\ sent' = IF Head(fifo) = call THEN sent + 1 ELSE sent
        /\ UNCHANGED <<msgs, call, curr_msg, num_msgs, remaining, got, isr,
                       overtaken>>
    BY DEF SendByte, rest, driver
  <1>2. /\ curr_msg \in 1..Len(msgs)
        /\ \A i \in 1..Len(fifo) : fifo[i] = call
        /\ engine.on /\ engine.left > 0 /\ got = 0 /\ Situation
        /\ curr_msg = 1 \/ isr \in Turning => ~overtaken
    BY DEF Good
  <1>3. /\ Len(msgs) \in {1, 2} /\ curr_msg \in {1, 2}
        /\ Cur.len \in Nat /\ Cur.len > 0 /\ Cur.read \in BOOLEAN
        /\ Before \in Nat /\ sent \in Nat /\ engine.left \in Nat /\ Len(fifo) \in Nat
        /\ remaining \in Nat /\ msgs[1].len \in Nat
    BY <1>2, GoodTypes
  <1>4. fifo \in Seq({0, 1})
    BY DEF Basic, TypeOK
  <1>5. /\ Head(fifo) = fifo[1] /\ Tail(fifo) \in Seq({0, 1}) /\ Len(fifo) > 0
        /\ Len(Tail(fifo)) = Len(fifo) - 1
        /\ \A i \in 1..Len(Tail(fifo)) : Tail(fifo)[i] = fifo[i + 1]
    BY <1>1, <1>4, HeadTailProperties, EmptySeq
  <1>6. sent' = sent + 1 /\ Len(fifo') = Len(fifo) - 1
    BY <1>1, <1>2, <1>5
  <1>7. \A i \in 1..Len(fifo') : fifo'[i] = call'
    BY <1>1, <1>2, <1>3, <1>5
  <1>8. Cur' = Cur /\ Before' = Before
    BY <1>1 DEF Cur, Before
  <1>9. engine'.on
    BY <1>1, <1>2, AdvanceFields DEF Basic
  <1>10. /\ isr = "fill" => Writing
         /\ isr \in Turning => Leaving
         /\ isr \notin Turning \cup {"fill"} => Behind \/ (Writing /\ Written)
    BY <1>1, <1>2 DEF Situation, Waiting, Written, Receiving, Turning
  <1>11. CASE engine.left > 1
    <2>1. /\ engine'.left = engine.left - 1 /\ engine'.active /\ ~engine'.read
          /\ engine'.next = engine.next /\ done' = done
      BY <1>1, <1>11, AdvanceFields DEF Basic
    <2>2. ASSUME Behind PROVE Behind'
      <3>1. curr_msg' = 2 /\ remaining' = Cur'.len /\ engine'.next = <<Cur'>> /\ ~overtaken'
        BY <1>1, <1>8, <2>1, <2>2 DEF Behind
      <3>2. engine.left = Len(fifo) /\ sent + Len(fifo) = Before
        BY <2>2 DEF Behind
      <3>3. engine'.left = Len(fifo') /\ engine'.left > 0 /\ sent' + Len(fifo') = Before'
        BY <1>3, <1>6, <1>8, <1>11, <2>1, <3>2
      <3> QED  BY <2>1, <3>1, <3>3 DEF Behind
    <2>3. ASSUME Writing PROVE Writing'
      <3>1. /\ ~Cur'.read /\ remaining' = remaining /\ remaining' <= Cur'.len
            /\ engine'.next = <<>>
        BY <1>1, <1>8, <2>1, <2>3 DEF Writing
      <3>2. /\ engine.left = Len(fifo) + remaining
            /\ sent + Len(fifo) + remaining = Before + Cur.len
        BY <2>3 DEF Writing
      <3>3. engine'.left = Len(fifo') + remaining
        BY <1>3, <1>6, <2>1, <3>2
      <3>4. sent' + Len(fifo') + remaining = Before' + Cur'.len
        BY <1>3, <1>6, <1>8, <3>2
      <3> QED  BY <2>1, <3>1, <3>3, <3>4 DEF Writing
    <2>4. ASSUME Leaving PROVE Leaving'
      <3>1. engine.left = Len(fifo) /\ sent + Len(fifo) = msgs[1].len
        BY <2>4 DEF Leaving
      <3>2. engine'.left = Len(fifo') /\ sent' + Len(fifo') = msgs[1].len
        BY <1>3, <1>6, <2>1, <3>1
      <3> QED  BY <1>1, <2>1, <2>4, <3>2 DEF Leaving
    <2>5. Writing /\ Written => (Writing /\ Written)'
      BY <1>1, <2>3 DEF Written
    <2>6. Situation'
      BY <1>1, <1>10, <2>2, <2>3, <2>4, <2>5 DEF Situation, Running, Turning
    <2>7. engine'.left > 0
      BY <1>3, <1>11, <2>1
    <2> QED  BY <1>1, <1>2, <1>7, <1>9, <2>1, <2>6, <2>7 DEF Good
  <1>12. CASE ~(engine.left > 1) /\ isr \notin Turning \cup {"fill"} /\ Behind
    <2>1. engine.left = 1 /\ Len(fifo) = 1 /\ Len(fifo') = 0 /\ fifo' = <<>>
      BY <1>1, <1>2, <1>3, <1>5, <1>6, <1>12, EmptySeq DEF Behind
    <2>2. engine.next = <<Cur>> /\ engine.next # <<>> /\ Head(engine.next) = Cur
      BY <1>12 DEF Behind
    <2>3. /\ engine'.left = Cur.len /\ engine'.read = Cur.read /\ engine'.active
          /\ engine'.next = <<>> /\ done' = done
      BY <1>1, <1>12, <2>2, AdvanceFields DEF Basic
    <2>4. curr_msg = 2 /\ remaining = Cur.len /\ sent' = Before
      BY <1>2, <1>3, <1>6, <1>12, <2>1 DEF Behind
    <2>5. num_msgs = 0
      <3>1. num_msgs = Len(msgs) - curr_msg
        BY <1>12, <2>4 DEF DriverInv, Starting, Turning
      <3> QED  BY <1>2, <1>3, <2>4, <3>1
    <2>6. (Waiting \/ Receiving)'
      <3>1. remaining' = Cur'.len /\ num_msgs' = 0 /\ sent' = Before' /\ engine'.next = <<>>
        BY <1>1, <1>8, <2>3, <2>4, <2>5
      <3>2. engine'.left = Cur'.len /\ engine'.read = Cur'.read
        BY <1>8, <2>3
      <3>3. /\ Len(fifo') + engine'.left = Cur'.len
            /\ engine'.left = Len(fifo') + remaining'
            /\ sent' + Len(fifo') + remaining' = Before' + Cur'.len
            /\ remaining' <= Cur'.len
        BY <1>3, <1>8, <2>1, <2>3, <3>1
      <3> QED  BY <2>1, <3>1, <3>2, <3>3 DEF Waiting, Writing, Receiving
    <2>7. Situation'
      BY <1>1, <1>12, <2>6 DEF Situation
    <2> QED  BY <1>1, <1>2, <1>3, <1>7, <1>9, <2>3, <2>7 DEF Good
  <1>13. CASE ~(engine.left > 1) /\ isr \notin Turning /\ Writing
    <2>1. /\ engine.left = 1 /\ Len(fifo) = 1 /\ Len(fifo') = 0 /\ engine.next = <<>>
          /\ remaining = 0
      <3>1. engine.left = Len(fifo) + remaining /\ engine.next = <<>>
        BY <1>13 DEF Writing
      <3> QED  BY <1>2, <1>3, <1>5, <1>6, <1>13, <3>1
    <2>2. /\ engine'.left = 0 /\ ~engine'.active /\ ~engine'.read
          /\ engine'.next = <<>> /\ done'
      BY <1>1, <1>13, <2>1, AdvanceFields DEF Basic
    <2>3. Writing'
      <3>1. ~Cur'.read /\ remaining' = 0 /\ remaining' <= Cur'.len
        BY <1>1, <1>3, <1>8, <1>13, <2>1 DEF Writing
      <3>2. sent + Len(fifo) + remaining = Before + Cur.len
        BY <1>13 DEF Writing
      <3>3. sent' + Len(fifo') + remaining' = Before' + Cur'.len
        <4>1. sent + 1 = Before + Cur.len
          BY <1>3, <2>1, <3>2
        <4>2. sent' + Len(fifo') + remaining' = sent + 1
          BY <1>3, <1>6, <2>1, <3>1
        <4> QED  BY <1>8, <4>1, <4>2
      <3>4. engine'.left = Len(fifo') + remaining'
        BY <2>1, <2>2, <3>1
      <3> QED  BY <2>2, <3>1, <3>3, <3>4 DEF Writing
    <2>4. Written => Written'
      BY <1>1, <2>3 DEF Written
    <2>5. isr \notin Turning \cup {"fill"} => Written
      BY <1>2, <1>10, <1>13 DEF Behind, Writing
    <2>6. Situation'
      BY <1>1, <1>13, <2>3, <2>4, <2>5 DEF Situation
    <2> QED  BY <1>1, <1>2, <1>7, <1>9, <2>2, <2>6 DEF Good
  <1>14. CASE ~(engine.left > 1) /\ isr \in Turning /\ Leaving
    <2>1. engine.left = 1 /\ Len(fifo) = 1 /\ Len(fifo') = 0 /\ engine.next = <<>>
      BY <1>2, <1>3, <1>6, <1>14 DEF Leaving
    <2>2. /\ engine'.left = 0 /\ ~engine'.active /\ ~engine'.read
          /\ engine'.next = <<>> /\ done'
      BY <1>1, <1>14, <2>1, AdvanceFields DEF Basic
    <2>3. sent' + Len(fifo') = msgs[1].len
      BY <1>3, <1>6, <1>14 DEF Leaving
    <2>4. Leaving'
      BY <1>1, <1>14, <2>1, <2>2, <2>3 DEF Leaving
    <2>5. Situation'
      BY <1>1, <1>14, <2>4 DEF Situation, Turning
    <2> QED  BY <1>1, <1>2, <1>7, <1>9, <2>2, <2>5 DEF Good
  <1> QED  BY <1>10, <1>11, <1>12, <1>13, <1>14 DEF Turning

LEMMA ReceiveGoesOn ==
    ASSUME Basic, pc = "wait", Good, engine.active, ReceiveByte
    PROVE  Good' /\ (done' => done \/ ~engine'.active) /\ (~engine'.active => done')
  <1>1. /\ engine.read /\ fifo' = Append(fifo, call) /\ Advance
        /\ UNCHANGED <<msgs, call, curr_msg, num_msgs, remaining, got, sent, isr,
                       overtaken>>
    BY DEF ReceiveByte, rest, driver
  <1>2. /\ curr_msg \in 1..Len(msgs)
        /\ \A i \in 1..Len(fifo) : fifo[i] = call
        /\ engine.on /\ engine.left > 0 /\ got = 0
    BY DEF Good
  <1>3. /\ Cur.len \in Nat /\ Cur.len > 0 /\ engine.left \in Nat /\ Len(fifo) \in Nat
    BY <1>2, GoodTypes
  <1>4. fifo \in Seq({0, 1}) /\ call \in {0, 1}
    BY DEF Basic, TypeOK
  <1>5. /\ Len(Append(fifo, call)) = Len(fifo) + 1
        /\ \A i \in 1..Len(fifo) : Append(fifo, call)[i] = fifo[i]
        /\ Append(fifo, call)[Len(fifo) + 1] = call
    BY <1>4, AppendProperties
  <1>6. Len(fifo') = Len(fifo) + 1 /\ \A i \in 1..Len(fifo') : fifo'[i] = call'
    BY <1>1, <1>2, <1>3, <1>5
  <1>7. Cur' = Cur /\ Before' = Before
    BY <1>1 DEF Cur, Before
  <1>8. Receiving /\ isr \notin Turning \cup {"fill"}
    BY <1>1 DEF Good, Situation, Behind, Waiting, Written, Writing, Leaving
  <1>9. /\ Cur.read /\ remaining = Cur.len /\ num_msgs = 0 /\ engine.next = <<>>
        /\ Len(fifo) + engine.left = Cur.len /\ sent = Before
    BY <1>8 DEF Receiving
  <1>10. /\ engine'.on /\ engine'.read /\ engine'.next = <<>>
         /\ \/ /\ engine'.left = engine.left - 1 /\ engine.left > 1
               /\ engine'.active /\ done' = done
            \/ /\ engine'.left = 0 /\ ~(engine.left > 1)
               /\ ~engine'.active /\ done'
    BY <1>1, <1>2, <1>9, AdvanceFields DEF Basic
  <1>11. engine'.left = engine.left - 1 /\ (engine'.active <=> engine'.left > 0)
    BY <1>2, <1>3, <1>10
  <1>12. Receiving'
    BY <1>1, <1>3, <1>6, <1>7, <1>9, <1>10, <1>11 DEF Receiving
  <1>13. Situation'
    BY <1>1, <1>8, <1>12 DEF Situation
  <1>14. curr_msg' = 1 \/ isr' \in Turning => ~overtaken'
    BY <1>1 DEF Good
  <1> QED  BY <1>1, <1>2, <1>6, <1>10, <1>11, <1>13, <1>14 DEF Good

LEMMA LiveController ==
    Basic /\ DriverInv /\ Live /\ (Controller \/ UNCHANGED vars) => Live'
  <1> SUFFICES ASSUME Basic, DriverInv, Live, Controller \/ UNCHANGED vars, ~straggler'
               PROVE  Live'
    BY DEF Live, StartInv, RunInv, ClosingInv, EndInv
  <1>1. CASE UNCHANGED vars
    <2> USE <1>1 DEF vars, driver, status, history
    <2>1. Cur' = Cur /\ Before' = Before
      BY DEF Cur, Before
    <2>2. (Good => Good') /\ (Stale => Stale') /\ (Waiting => Waiting')
            /\ (StaleFailed => StaleFailed')
      BY <2>1 DEF Good, Situation, Behind, Waiting, Written, Writing, Receiving, Leaving,
                  Stale, StaleFailed, Earned
    <2>3. Clean' = Clean /\ (\A e \in {"none", "err", "len"} : Outcome(e)' = Outcome(e))
      BY DEF Clean, Outcome, Earned, ToWrite, ToRead, WriteLen, ReadLen
    <2>4. StartInv'
      BY DEF Live, StartInv
    <2>5. RunInv'
      BY <2>1, <2>2 DEF Live, RunInv, Earned
    <2>6. ClosingInv' /\ EndInv'
      BY <2>3 DEF Live, ClosingInv, EndInv, Basic, TypeOK
    <2> QED  BY <2>4, <2>5, <2>6 DEF Live
  <1>2. CASE Controller
    <2>1. /\ engine.active /\ ~straggler
          /\ UNCHANGED <<pc, msgs, call, curr_msg, num_msgs, remaining, completion,
                         msg_err, result, isr, val, got, overtaken, before>>
      BY <1>2 DEF Controller, SendByte, ReceiveByte, Fail, rest, driver
    <2>2. nacked => nacked'
      BY <1>2 DEF Controller, SendByte, ReceiveByte, Fail
    <2>3. \/ pc \in Starting /\ isr = "off"
          \/ pc = "wait" /\ completion = 0
          \/ pc = "clear"
          \/ pc = "idle" /\ result = "timeout"
      BY <2>1, Busy
    <2>4. engine'.on
      <3>1. CASE SendByte \/ ReceiveByte
        BY <2>1, <3>1, Advances DEF SendByte, ReceiveByte, Basic
      <3>2. CASE Fail
        BY <2>1, <3>2 DEF Fail, Basic, StatusInv, TypeOK, Engine
      <3> QED  BY <1>2, <3>1, <3>2 DEF Controller
    <2>5. StartInv'
      BY <2>1, <2>4 DEF Live, StartInv
    <2>6. CASE pc # "wait"
      BY <2>1, <2>3, <2>5, <2>6 DEF Live, RunInv, ClosingInv, EndInv, Starting
    <2>7. CASE pc = "wait" /\ completion = 0
      <3>1. EndInv'
        BY <2>1, <2>7 DEF EndInv
      <3>2. ClosingInv'
        <4> SUFFICES ASSUME isr \in {"clear", "complete"}
                     PROVE  Outcome(msg_err)' /\ msg_err' # "none" /\ isr' = "clear"
          BY <2>1, <2>7 DEF ClosingInv
        <4>1. Outcome(msg_err) /\ isr = "clear" /\ msg_err # "none"
          BY <2>1, <2>7, OffIsEngine DEF Live, ClosingInv, Clean
        <4> QED  BY <2>1, <2>2, <4>1 DEF Outcome, Earned
      <3>3. RunInv'
        <4> SUFFICES ASSUME isr \in Running PROVE RunInv'
          BY <2>1 DEF RunInv
        <4>1. IF err THEN nacked \/ before = "timeout"
                     ELSE Good /\ (done => Stale)
          BY <2>1, <2>7 DEF Live, RunInv
        <4>2. isr = "body" => /\ val = "err" => err
                              /\ val \in {"done", "donerxd"} => done /\ ~err
                              /\ val = "donerxd" => Cur.read \/ Earned
                              /\ val = "txw" /\ ~err => Waiting
                              /\ val # "none"
          BY <2>1, <2>7 DEF Live, RunInv
        <4>3. Stale' = Stale /\ Cur' = Cur /\ (Earned => Earned')
          BY <2>1, <2>2 DEF Stale, Cur, Earned
        <4>4. CASE SendByte \/ ReceiveByte
          <5>1. err' = err /\ (done => done')
            BY <4>4 DEF SendByte, ReceiveByte, Advance
          <5>2. ~err => Good' /\ (done' => Stale' \/ ~engine'.active)
                          /\ (~engine'.active => done')
            BY <2>1, <2>7, <4>1, <4>3, <4>4, SendGoesOn, ReceiveGoesOn
          <5>3. ~Waiting
            BY <4>4 DEF SendByte, ReceiveByte, Waiting, Writing
          <5> QED  BY <2>1, <2>2, <4>1, <4>2, <4>3, <5>1, <5>2, <5>3 DEF RunInv
        <4>5. CASE Fail
          <5>1. /\ err' /\ done' /\ nacked' /\ ~engine'.active /\ fifo' = fifo
            <6>1. err' /\ done' /\ fifo' = fifo
              BY <4>5 DEF Fail
            <6>2. nacked'
              BY <2>1, <4>5 DEF Fail
            <6>3. ~engine'.active
              BY <4>5 DEF Fail, Basic, TypeOK, Engine
            <6> QED  BY <6>1, <6>2, <6>3
          <5>2. isr = "body" /\ val \in {"done", "donerxd"} => StaleFailed'
            <6> SUFFICES ASSUME isr = "body", val \in {"done", "donerxd"} PROVE StaleFailed'
              OBVIOUS
            <6>1. /\ Good /\ Stale /\ engine.left > 0 /\ curr_msg \in 1..Len(msgs)
                  /\ Behind \/ Waiting \/ Written \/ Receiving
              BY <2>1, <4>1, <4>2 DEF Good, Situation, Turning
            <6>2. /\ Cur.len \in Nat /\ Cur.len > 0 /\ Len(fifo) \in Nat
                  /\ (fifo = <<>> <=> Len(fifo) = 0) /\ engine.left \in Nat
              BY <2>7, <6>1, GoodTypes
            <6>3. remaining = Cur.len /\ (curr_msg = 2 => overtaken)
              BY <6>1 DEF Stale
            <6>4. Waiting \/ Receiving
              BY <6>1, <6>2, <6>3 DEF Behind, Written
            <6>5. Len(fifo) < remaining /\ (fifo # <<>> => Cur.read)
              BY <6>1, <6>2, <6>3, <6>4 DEF Waiting, Receiving
            <6> QED  BY <2>1, <4>3, <5>1, <6>5 DEF StaleFailed, Earned
          <5> QED  BY <2>1, <4>2, <4>3, <5>1, <5>2 DEF RunInv
        <4> QED  BY <1>2, <4>4, <4>5 DEF Controller
      <3> QED  BY <2>5, <3>1, <3>2, <3>3 DEF Live
    <2> QED  BY <2>3, <2>6, <2>7 DEF Starting
  <1> QED  BY <1>1, <1>2

-----------------------------------------------------------------------------
LEMMA NextInv == IInv /\ [Next]_vars => IInv'
  <1> SUFFICES ASSUME IInv, [Next]_vars PROVE IInv'
    OBVIOUS
  <1>1. Basic /\ DriverInv /\ Live /\ StartInv
    BY DEF IInv, Basic, Live
  <1>2. Basic'
    BY <1>1, BasicCaller, BasicHandler, BasicController DEF Next
  <1>3. DriverInv'
    BY <1>1, DriverCaller, DriverHandler, DriverController DEF Next
  <1>4. Live'
    BY <1>1, LiveCaller, LiveHandler, LiveController DEF Next
  <1> QED  BY <1>2, <1>3, <1>4 DEF IInv, Basic, Live

LEMMA Invariance == SafeSpec => []IInv
  BY InitInv, NextInv, PTL DEF SafeSpec

(* num_msgs and curr_msg stay within the call although the caller and the   *)
(* handler, which bcm2835_i2c_isr runs without a lock, test and change them *)
(* in steps of their own: each message of a call that no earlier handler    *)
(* meets is started once, and the count does not fall below zero.           *)
THEOREM MessagesAreOwn == SafeSpec => []OwnMessages
  <1>1. IInv => OwnMessages
    <2> SUFFICES ASSUME IInv, ~straggler
                 PROVE  num_msgs \in 0..Len(msgs) /\ curr_msg \in 0..Len(msgs)
      BY DEF OwnMessages
    <2>1. TypeOK /\ CallInv /\ StartInv /\ DriverInv
      BY DEF IInv
    <2>2. CASE pc \in Starting
      <3>1. msgs \in Calls
        BY <2>1, <2>2 DEF CallInv, Starting
      <3>2. Len(msgs) \in {1, 2}
        BY <3>1, MessageTypes
      <3>3. curr_msg = 1 /\ num_msgs = IF pc = "go" THEN Len(msgs) - 1 ELSE Len(msgs)
        BY <2>1, <2>2 DEF DriverInv
      <3> QED  BY <3>2, <3>3
    <2>3. CASE pc \notin Starting /\ curr_msg # 0
      <3>1. /\ curr_msg \in 1..Len(msgs)
            /\ num_msgs \in {1, Len(msgs) - curr_msg}
        BY <2>1, <2>3 DEF DriverInv
      <3>2. Len(msgs) \in Nat
        BY <2>1, <3>1, MessageTypes, LenProperties DEF TypeOK
      <3> QED  BY <3>1, <3>2
    <2>4. CASE curr_msg = 0
      BY <2>1, <2>4 DEF CallInv
    <2> QED  BY <2>2, <2>3, <2>4
  <1> QED  BY <1>1, Invariance, PTL

(* bcm2835_i2c_xfer reports success only for a call that has moved exactly  *)
(* its own bytes, for every set of calls of one or two messages.            *)
THEOREM SuccessIsMoved == SafeSpec => []SuccessMeansMoved
  <1>1. IInv => SuccessMeansMoved
    BY DEF IInv, EndInv, Outcome, SuccessMeansMoved
  <1> QED  BY <1>1, Invariance, PTL

(* bcm2835_i2c_xfer fails for a reason: the bus failed, the call before     *)
(* timed out, or bcm2835_i2c_isr came too late to start the second message. *)
THEOREM ErrorsEarned == SafeSpec => []ErrorsAreEarned
  <1>1. IInv => ErrorsAreEarned
    BY DEF IInv, EndInv, Outcome, Earned, ErrorsAreEarned
  <1> QED  BY <1>1, Invariance, PTL

(* What ends a transfer leaves the engine off, the FIFO empty and no        *)
(* handler under way.                                                       *)
THEOREM QuietAfter == SafeSpec => []QuietAfterReturn
  <1>1. IInv => QuietAfterReturn
    BY DEF IInv, EndInv, Clean, Quiet, Off, QuietAfterReturn
  <1> QED  BY <1>1, Invariance, PTL
=============================================================================
