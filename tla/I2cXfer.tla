------------------------------ MODULE I2cXfer ------------------------------
(***************************************************************************)
(* The i2c driver: bcm2835_i2c_xfer, which starts a transfer and waits with *)
(* a timeout, and bcm2835_i2c_isr, which feeds and ends it.  The handler    *)
(* may run on another CPU than the caller, so the caller's timeout can pass *)
(* between any two of its steps.  One call at a time.                       *)
(*                                                                          *)
(* A call is one message or two, each a number of bytes written or, as the  *)
(* last one, read.  A byte is named by the parity of the call it is of.     *)
(* Both start the transfer of a message through bcm2835_i2c_start_transfer, *)
(* a step each for reading the message, testing num_msgs, decrementing it   *)
(* and writing the registers; neither takes a lock, and the controller runs *)
(* meanwhile.                                                               *)
(*                                                                          *)
(* The interrupt line is shared, so the handler may run at any time; which  *)
(* interrupts a transfer enables makes no difference then.  No message of   *)
(* data_getter fills the FIFO, or reaches the level of the RXR interrupt.   *)
(***************************************************************************)
EXTENDS Integers, Sequences, FiniteSets

CONSTANTS Calls,    \* the message sequences data_getter hands over
          MaxMsg    \* bound: a handler that meets another call follows curr_msg so far

Message == [read : BOOLEAN, len : Nat \ {0}]

ASSUME CallAssumption ==
    \A c \in Calls : /\ c \in Seq(Message) /\ Len(c) \in {1, 2}
                     /\ Len(c) = 2 => ~c[1].read

ASSUME MaxMsgAssumption == MaxMsg \in Nat /\ MaxMsg >= 2

VARIABLES
    pc,             \* where bcm2835_i2c_xfer is
    msgs, call,     \* the call: its messages, the parity of its number
    msg, isr_msg,   \* msg of start_transfer, called by the caller, by the handler
    curr_msg,       \* index of i2c_dev->curr_msg, 0 for NULL
    num_msgs,       \* i2c_dev->num_msgs
    remaining,      \* i2c_dev->msg_buf_remaining
    completion,     \* i2c_dev->completion.done
    msg_err,        \* i2c_dev->msg_err
    result,         \* what the last call returned
    isr, val,       \* where bcm2835_i2c_isr is, the status it has read
    engine,         \* the controller: active, the message it is at, the next
    fifo,           \* its FIFO
    done, err,      \* I2C_S_DONE; I2C_S_ERR or I2C_S_CLKT
    sent, got,      \* history: bytes of this call written, and read, on the bus
    nacked,         \* history: the bus failed during this call
    overtaken,      \* history: the engine was through before it was given the next
    before,         \* history: the result of the call before
    straggler       \* history: a handler called for an earlier call met this one

(* The history of a call stands still once a straggler has met it: nothing *)
(* is said of the rest of it.                                               *)

driver  == <<msgs, call, curr_msg, num_msgs, remaining>>
status  == <<done, err>>
history == <<nacked, overtaken, before, straggler>>
vars    == <<pc, msg, driver, completion, msg_err, result, isr, isr_msg, val, engine,
             fifo, status, sent, got, history>>

Engine == [active : BOOLEAN, on : BOOLEAN, read : BOOLEAN, left : Nat,
           next : Seq(Message)]

Off == [active |-> FALSE, on |-> FALSE, read |-> FALSE, left |-> 0, next |-> <<>>]

(* I2C_C_CLEAR without I2CEN: the engine stops and the FIFO is emptied.     *)
ClearC == engine' = Off /\ fifo' = <<>>

Results == {"none", "ok", "error", "timeout"}

(* Where bcm2835_i2c_start_transfer is: about to read curr_msg, to test     *)
(* num_msgs, to decrement it, and to write the registers.                   *)
Starting == {"load", "test", "take", "go"}

TypeOK ==
    /\ pc \in {"idle", "wait", "clear", "check"} \cup Starting
    /\ msgs \in Calls \cup {<<>>} /\ call \in {0, 1}
    /\ curr_msg \in 0..MaxMsg /\ msg \in 0..MaxMsg /\ isr_msg \in 0..MaxMsg
    /\ num_msgs \in Int
    /\ remaining \in Nat /\ completion \in Nat
    /\ msg_err \in {"none", "err", "len"}
    /\ result \in Results /\ before \in Results
    /\ isr \in {"off", "body", "fill", "next", "clear", "complete"} \cup Starting
    /\ val \in {"none", "err", "done", "donerxd", "txw"}
    /\ engine \in Engine
    /\ fifo \in Seq({0, 1})
    /\ done \in BOOLEAN /\ err \in BOOLEAN
    /\ nacked \in BOOLEAN /\ overtaken \in BOOLEAN /\ straggler \in BOOLEAN
    /\ sent \in Nat /\ got \in Nat

Init ==
    /\ pc = "idle" /\ msgs = <<>> /\ call = 0
    /\ curr_msg = 0 /\ num_msgs = 0 /\ remaining = 0 /\ completion = 0
    /\ msg = 0 /\ isr_msg = 0
    /\ msg_err = "none" /\ result = "none"
    /\ isr = "off" /\ val = "none"
    /\ engine = Off /\ fifo = <<>> /\ done = FALSE /\ err = FALSE
    /\ sent = 0 /\ got = 0 /\ nacked = FALSE /\ overtaken = FALSE /\ before = "none"
    /\ straggler = FALSE

Quiet == isr = "off" /\ ~engine.on /\ fifo = <<>>

(* The message at place i of the call; behind the last one lies whatever    *)
(* other calls have put there.                                              *)
MessageAt(i) ==
    IF i \in 1..Len(msgs) THEN {msgs[i]}
    ELSE UNION {{c[j] : j \in 1..Len(c)} : c \in Calls}

(* bcm2835_i2c_start_transfer: what it takes, and the registers it writes.  *)
(* An engine that is active goes on to the message when it is through with  *)
(* the one it is at (a repeated start).                                     *)
TakeMessage(i) ==
    /\ num_msgs' = num_msgs - 1
    /\ \E m \in MessageAt(i) : remaining' = m.len

StartEngine(i) ==
    \E m \in MessageAt(i) :
        engine' = IF engine.active
                  THEN [engine EXCEPT !.next = <<m>>]
                  ELSE [active |-> TRUE, on |-> TRUE, read |-> m.read,
                        left |-> m.len, next |-> <<>>]

-----------------------------------------------------------------------------
(* bcm2835_i2c_xfer.                                                        *)

handler == <<isr, isr_msg, val, fifo, status, sent, got>>

KeepCompletion == completion' = completion  \* mutant: no reinit_completion

ReinitCompletion == completion' = 0

Begin(c) ==
    /\ pc = "idle"
    /\ msgs' = c /\ call' = 1 - call
    /\ curr_msg' = 1 /\ num_msgs' = Len(c)
    /\ ReinitCompletion
    /\ pc' = "load"
    /\ sent' = 0 /\ got' = 0
    /\ nacked' = FALSE /\ overtaken' = FALSE /\ before' = result
    /\ straggler' = (isr # "off")
    /\ UNCHANGED <<msg, remaining, msg_err, result, isr, isr_msg, val, engine, fifo,
                   status>>

Load ==
    /\ pc = "load"
    /\ msg' = curr_msg
    /\ pc' = "test"
    /\ UNCHANGED <<driver, completion, msg_err, result, engine, handler, history>>

Test ==
    /\ pc = "test"
    /\ pc' = IF num_msgs = 0 THEN "wait" ELSE "take"
    /\ UNCHANGED <<msg, driver, completion, msg_err, result, engine, handler,
                   history>>

Take ==
    /\ pc = "take"
    /\ TakeMessage(msg)
    /\ pc' = "go"
    /\ UNCHANGED <<msg, msgs, call, curr_msg, completion, msg_err, result, engine,
                   handler, history>>

Go ==
    /\ pc = "go"
    /\ StartEngine(msg)
    /\ msg' = 0
    /\ pc' = "wait"
    /\ straggler' = (straggler \/ ~Quiet)
    /\ UNCHANGED <<driver, completion, msg_err, result, handler, nacked, overtaken,
                   before>>

Completed ==
    /\ pc = "wait" /\ completion > 0
    /\ completion' = completion - 1
    /\ pc' = "check"
    /\ UNCHANGED <<msg, driver, msg_err, result, engine, handler, history>>

NoTimeout ==                \* mutant: the caller waits without a timeout
    /\ pc = "wait" /\ completion = 0 /\ FALSE
    /\ UNCHANGED vars

TimedOut ==
    /\ pc = "wait" /\ completion = 0
    /\ pc' = "clear"
    /\ UNCHANGED <<msg, driver, completion, msg_err, result, engine, handler,
                   history>>

ReturnTimeout ==
    /\ pc = "clear"
    /\ ClearC
    /\ result' = "timeout"
    /\ pc' = "idle"
    /\ UNCHANGED <<msg, driver, completion, msg_err, isr, isr_msg, val, status, sent,
                   got, history>>

Return ==
    /\ pc = "check"
    /\ result' = IF msg_err = "none" THEN "ok" ELSE "error"
    /\ pc' = "idle"
    /\ UNCHANGED <<msg, driver, completion, msg_err, engine, handler, history>>

bcm2835_i2c_xfer ==
    \/ \E c \in Calls : Begin(c)
    \/ Load \/ Test \/ Take \/ Go
    \/ Completed \/ TimedOut \/ ReturnTimeout \/ Return

-----------------------------------------------------------------------------
(* bcm2835_i2c_isr.  A step of it leaves the caller's variables alone.      *)

caller == <<pc, msg, msgs, call, result, nacked, before, straggler>>

(* I2C_S_TXW: the message being written still needs bytes.                  *)
TXW == engine.active /\ ~engine.read /\ Len(fifo) < engine.left

(* The status is read here; errors come before DONE, DONE before TXW.       *)
(* "donerxd": it shows I2C_S_RXD as well as DONE.                           *)
IsrEnter ==
    /\ isr = "off" /\ (err \/ done \/ TXW)
    /\ val' = IF err THEN "err"
              ELSE IF ~done THEN "txw" ELSE IF fifo = <<>> THEN "done" ELSE "donerxd"
    /\ isr' = "body"
    /\ straggler' = (straggler \/ pc \in Starting)
    /\ UNCHANGED <<pc, msg, driver, completion, msg_err, result, isr_msg, engine,
                   fifo, status, sent, got, nacked, overtaken, before>>

IsrError ==
    /\ isr = "body" /\ val = "err"
    /\ msg_err' = "err"
    /\ isr' = "clear" /\ val' = "none"
    /\ UNCHANGED <<caller, overtaken, driver, completion, isr_msg, engine, fifo,
                   status, sent, got>>

Reading == curr_msg # 0 /\ \E m \in MessageAt(curr_msg) : m.read

LesserOf(m, n) == IF m < n THEN m ELSE n

(* bcm2835_drain_rxfifo.                                                    *)
Drained == IF Reading THEN LesserOf(remaining, Len(fifo)) ELSE 0

Rest == SubSeq(fifo, Drained + 1, Len(fifo))

(* After a drain the status is read anew.                                   *)
LengthError ==
    \/ remaining' # 0
    \/ IF Reading THEN Rest # <<>> ELSE val = "donerxd"

IsrDone ==
    /\ isr = "body" /\ val \in {"done", "donerxd"}
    /\ fifo' = Rest
    /\ remaining' = remaining - Drained
    /\ got' = IF straggler THEN got
                           ELSE got + Cardinality({i \in 1..Drained : fifo[i] = call})
    /\ msg_err' = IF LengthError THEN "len" ELSE "none"
    /\ isr' = "clear" /\ val' = "none"
    /\ UNCHANGED <<caller, overtaken, curr_msg, num_msgs, completion, isr_msg,
                   engine, status, sent>>

(* TXW with nothing left to write is a length error.                        *)
IsrTooMany ==
    /\ isr = "body" /\ val = "txw" /\ remaining = 0
    /\ msg_err' = "len"
    /\ isr' = "clear" /\ val' = "none"
    /\ UNCHANGED <<caller, overtaken, driver, completion, isr_msg, engine, fifo,
                   status, sent, got>>

(* bcm2835_fill_txfifo, a byte each time; the engine sends meanwhile.       *)
Fill ==
    /\ isr = "fill" \/ (isr = "body" /\ val = "txw")
    /\ remaining > 0
    /\ fifo' = Append(fifo, call)
    /\ remaining' = remaining - 1
    /\ isr' = "fill" /\ val' = "none"
    /\ UNCHANGED <<caller, overtaken, curr_msg, num_msgs, completion, msg_err,
                   isr_msg, engine, status, sent, got>>

AlwaysMore ==               \* mutant: goes on though no message is left
    /\ isr = "fill" /\ remaining = 0
    /\ isr' = "next"
    /\ UNCHANGED <<caller, overtaken, driver, completion, msg_err, isr_msg, val,
                   engine, fifo, status, sent, got>>

(* All bytes are in the FIFO: is there another message?                     *)
IsrMore ==
    /\ isr = "fill" /\ remaining = 0
    /\ isr' = IF num_msgs # 0 THEN "next" ELSE "off"
    /\ UNCHANGED <<caller, overtaken, driver, completion, msg_err, isr_msg, val,
                   engine, fifo, status, sent, got>>

IsrNext ==
    /\ isr = "next" /\ curr_msg < MaxMsg
    /\ curr_msg' = curr_msg + 1
    /\ isr' = "load"
    /\ UNCHANGED <<caller, overtaken, num_msgs, remaining, completion, msg_err,
                   isr_msg, val, engine, fifo, status, sent, got>>

IsrLoad ==
    /\ isr = "load"
    /\ isr_msg' = curr_msg
    /\ isr' = "test"
    /\ UNCHANGED <<caller, overtaken, driver, completion, msg_err, val, engine, fifo,
                   status, sent, got>>

IsrTest ==
    /\ isr = "test"
    /\ isr' = IF num_msgs = 0 THEN "off" ELSE "take"
    /\ UNCHANGED <<caller, overtaken, driver, completion, msg_err, isr_msg, val,
                   engine, fifo, status, sent, got>>

IsrTake ==
    /\ isr = "take"
    /\ TakeMessage(isr_msg)
    /\ isr' = "go"
    /\ UNCHANGED <<caller, overtaken, curr_msg, completion, msg_err, isr_msg, val,
                   engine, fifo, status, sent, got>>

IsrGo ==
    /\ isr = "go"
    /\ StartEngine(isr_msg)
    /\ overtaken' = (overtaken \/ ~(engine.active \/ straggler))
    /\ isr_msg' = 0
    /\ isr' = "off"
    /\ UNCHANGED <<caller, driver, completion, msg_err, val, fifo, status, sent, got>>

IsrClearKeepsStatus ==       \* mutant: the handler does not clear the status
    /\ isr = "clear"
    /\ ClearC
    /\ isr' = "complete"
    /\ UNCHANGED <<caller, overtaken, driver, completion, msg_err, isr_msg, val,
                   status, sent, got>>

IsrClearKeepsEngine ==       \* mutant: the handler does not clear the controller
    /\ isr = "clear"
    /\ done' = FALSE /\ err' = FALSE
    /\ isr' = "complete"
    /\ UNCHANGED <<caller, overtaken, driver, completion, msg_err, isr_msg, val,
                   engine, fifo, sent, got>>

IsrClear ==
    /\ isr = "clear"
    /\ ClearC
    /\ done' = FALSE /\ err' = FALSE
    /\ isr' = "complete"
    /\ UNCHANGED <<caller, overtaken, driver, completion, msg_err, isr_msg, val,
                   sent, got>>

IsrComplete ==
    /\ isr = "complete"
    /\ completion' = completion + 1
    /\ isr' = "off"
    /\ UNCHANGED <<caller, overtaken, driver, msg_err, isr_msg, val, engine, fifo,
                   status, sent, got>>

bcm2835_i2c_isr ==
    \/ IsrEnter \/ IsrError \/ IsrDone \/ IsrTooMany
    \/ Fill \/ IsrMore \/ IsrNext \/ IsrLoad \/ IsrTest \/ IsrTake \/ IsrGo
    \/ IsrClear \/ IsrComplete

-----------------------------------------------------------------------------
(* The controller and the bus.                                              *)

rest == <<pc, msg, driver, completion, msg_err, result, isr, isr_msg, val, got,
          overtaken, before, straggler>>

(* One byte less; the last one ends the message.                            *)
Advance ==
    IF engine.left > 1
    THEN engine' = [engine EXCEPT !.left = @ - 1] /\ done' = done
    ELSE IF engine.next # <<>>
    THEN LET m == Head(engine.next)
         IN  /\ engine' = [engine EXCEPT !.read = m.read, !.left = m.len, !.next = <<>>]
             /\ done' = done
    ELSE engine' = [engine EXCEPT !.active = FALSE, !.left = 0] /\ done' = TRUE

SendByte ==
    /\ engine.active /\ ~engine.read /\ fifo # <<>>
    /\ fifo' = Tail(fifo)
    /\ sent' = IF Head(fifo) = call /\ ~straggler THEN sent + 1 ELSE sent
    /\ Advance
    /\ UNCHANGED <<rest, err, nacked>>

ReceiveByte ==
    /\ engine.active /\ engine.read
    /\ fifo' = Append(fifo, call)
    /\ Advance
    /\ UNCHANGED <<rest, err, sent, nacked>>

(* No acknowledge, or the clock is stretched for too long.                  *)
Fail ==
    /\ engine.active
    /\ engine' = [engine EXCEPT !.active = FALSE, !.left = 0, !.next = <<>>]
    /\ err' = TRUE /\ done' = TRUE
    /\ nacked' = (nacked \/ ~straggler)
    /\ UNCHANGED <<rest, fifo, sent>>

Controller == SendByte \/ ReceiveByte \/ Fail

Next == bcm2835_i2c_xfer \/ bcm2835_i2c_isr \/ Controller

SafeSpec == Init /\ [][Next]_vars

(* A call that has begun goes on; the controller and the handler may stop.  *)
Going == pc # "idle" /\ bcm2835_i2c_xfer

Spec == SafeSpec /\ WF_vars(Going)

-----------------------------------------------------------------------------
(* Properties.                                                              *)

WriteLen(i) == IF i <= Len(msgs) /\ ~msgs[i].read THEN msgs[i].len ELSE 0

ReadLen(i) == IF i <= Len(msgs) /\ msgs[i].read THEN msgs[i].len ELSE 0

ToWrite == WriteLen(1) + WriteLen(2)

ToRead == ReadLen(1) + ReadLen(2)

(* Caller and handler share num_msgs and curr_msg without a lock, and the   *)
(* caller may give up at any time: no message is started twice and none     *)
(* that is not of the call.  The exception, here and below, is a call that  *)
(* is started while a handler, called for what an earlier one left, is      *)
(* under way or has just come through: the two may pass the test of         *)
(* num_msgs both.                                                           *)
OwnMessages ==
    ~straggler => num_msgs \in 0..Len(msgs) /\ curr_msg \in 0..Len(msgs)

(* A call that reports success has moved all of its bytes, and no others:   *)
(* those to be written went over the bus and those to be read are in the    *)
(* caller's buffer, whatever timed out before.                              *)
SuccessMeansMoved ==
    pc = "idle" /\ result = "ok" /\ ~straggler =>
        sent = ToWrite /\ got = ToRead

(* Errors have a cause: a call that fails without a timeout has met a       *)
(* failure of the bus itself, or follows one that timed out and left its    *)
(* status behind, or the engine was through with the first message before   *)
(* the handler could give it the second, so that the DONE of the one is     *)
(* taken for the end of the other.                                          *)
ErrorsAreEarned ==
    pc = "idle" /\ result = "error" =>
        nacked \/ before = "timeout" \/ overtaken \/ straggler

(* The engine is off and the FIFO empty, and no handler is under way, when  *)
(* a call has returned other than by a timeout.                             *)
QuietAfterReturn ==
    pc = "idle" /\ result # "timeout" /\ ~straggler => Quiet

(* Every call returns, also when the bus is stuck or no interrupt comes.    *)
EveryCallReturns == pc # "idle" ~> pc = "idle"
=============================================================================
