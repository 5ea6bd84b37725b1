------------------------------ MODULE UdpBridge ------------------------------
(***************************************************************************)
(* connect_to_pc: the program that carries the PC's datagrams to /proc and   *)
(* to the UART, and sensor values and UART lines to the PC.                  *)
(*                                                                          *)
(* recvthread and serial_write both receive from sockfd, so either may get   *)
(* the other's datagram, and drops it.  Three threads close sockfd when they *)
(* leave; a file that recvthread opens afterwards gets the same number.      *)
(* fclose(NULL), after an open that failed, and a line that overruns the     *)
(* buffer of serial_read may each end the program at once.                   *)
(*                                                                          *)
(* A datagram is a kind, and for writes and serial data the number of its    *)
(* arrival at the socket: the network may lose, repeat and reorder what the  *)
(* PC sends, and a datagram that comes twice has two numbers.  The contents  *)
(* of the frames to the PC are left out.                                     *)
(***************************************************************************)
EXTENDS Naturals, Sequences

CONSTANTS
    NumFiles,       \* entries of one write datagram (nine in the code)
    Refusing,       \* those whose handler refuses or ignores some values
    Stray,          \* those opened without the prefix /proc/: no entry at all
    Room,           \* characters that fit serial_data (99)
    MaxNumber,      \* bound: numbered datagrams that arrive
    InboxSize       \* bound: datagrams that wait in the socket

File   == 1..NumFiles       \* in the order in which recvthread writes them

ASSUME BridgeAssumption ==
    /\ NumFiles \in Nat \ {0} /\ Refusing \subseteq File /\ Stray \subseteq File
    /\ Room \in Nat /\ MaxNumber \in Nat /\ InboxSize \in Nat \ {0}

Sender == {"send_slow_thread", "send_fast_thread"}
Number == 0..MaxNumber      \* 0: nothing yet
Buffer == 0..Room + 1       \* characters; Room + 1: too many, or no telling

(* short: not of the size of a message, or an error of recvfrom; other: of  *)
(* a kind neither thread looks for; bad: the entries its values do not suit.*)
Datagram == [kind : {"write", "serial", "short", "other"}, number : Number,
             bad : SUBSET Refusing]

Nothing == [kind |-> "other", number |-> 0, bad |-> {}]

VARIABLES
    stop,           \* set by the SIGINT handler
    sockfd,         \* what the number of the socket stands for
    inbox, came,    \* datagrams that wait, and how many were numbered
    recv, rx, at,   \* recvthread: where it is, its buffer, the file it is at
    reused,         \* recvthread: that file has the number of the socket
    proc,           \* the datagram from which the last value of each entry is
    asked,          \* history: the latest write taken that suits each entry
    ser, ser_rx,    \* serial_write: where it is, its buffer
    uart,           \* the number of the serial datagram sent last
    sender,         \* the two sending threads
    reader,         \* serial_read
    line,           \* characters in its buffer
    spilled,        \* history: it has written beyond serial_data
    clean,          \* history: not the first line, and no read of it failed
    arrived,        \* history: characters since the last Z, of a clean line
    ended           \* main has joined all threads, or the program has crashed

taking    == <<rx, at, reused, proc, asked>>
receiving == <<recv, taking>>
serial    == <<ser, ser_rx, uart>>
reading   == <<reader, line, spilled, clean, arrived>>
others    == <<serial, sender, reading, ended>>
vars      == <<stop, sockfd, inbox, came, receiving, serial, sender, reading, ended>>

TypeOK ==
    /\ stop \in BOOLEAN /\ reused \in BOOLEAN /\ ended \in BOOLEAN
    /\ spilled \in BOOLEAN /\ clean \in BOOLEAN
    /\ sockfd \in {"socket", "file", "free"}
    /\ inbox \in Seq(Datagram) /\ Len(inbox) <= InboxSize /\ came \in Number
    /\ recv \in {"test", "call", "wait", "open", "put", "close", "exited"}
    /\ ser \in {"test", "call", "wait", "put", "exited"}
    /\ rx \in Datagram /\ ser_rx \in Datagram
    /\ at \in File \cup {NumFiles + 1}
    /\ proc \in [File -> Number] /\ asked \in [File -> Number] /\ uart \in Number
    /\ sender \in [Sender -> {"loop", "close", "exited"}]
    /\ reader \in {"loop", "send", "exited"}
    /\ line \in Buffer /\ arrived \in Buffer

(* The line buffer of serial_read is not initialised.                       *)
Init ==
    /\ stop = FALSE /\ sockfd = "socket"
    /\ inbox = <<>> /\ came = 0
    /\ recv = "test" /\ rx = Nothing /\ at = NumFiles + 1 /\ reused = FALSE
    /\ proc = [f \in File |-> 0] /\ asked = proc
    /\ ser = "test" /\ ser_rx = Nothing /\ uart = 0
    /\ sender = [s \in Sender |-> "loop"]
    /\ reader = "loop" /\ line \in Buffer /\ arrived = 0
    /\ spilled = FALSE /\ clean = FALSE
    /\ ended = FALSE

-----------------------------------------------------------------------------
(* recvfrom.  A thread that waits in it keeps the socket alive although     *)
(* another one closes it.                                                   *)

AnySize(d) == TRUE          \* mutant: the size of a datagram is not looked at

IsMessage(d) == d.kind # "short"

(* What the buffer holds afterwards: a short datagram leaves the rest.      *)
Received(d, buffer) == IF d.kind = "short" THEN buffer ELSE d

SocketAlive == sockfd = "socket" \/ recv = "wait" \/ ser = "wait"

(* The end of the program by a signal: its threads, its files and its       *)
(* memory are gone.                                                         *)
Crash ==
    /\ recv' = "exited" /\ ser' = "exited" /\ reader' = "exited"
    /\ sender' = [s \in Sender |-> "exited"]
    /\ sockfd' = "free" /\ inbox' = <<>> /\ ended' = TRUE
    /\ rx' = Nothing /\ at' = NumFiles + 1 /\ reused' = FALSE /\ ser_rx' = Nothing
    /\ line' = 0 /\ spilled' = FALSE /\ clean' = FALSE /\ arrived' = 0
    /\ UNCHANGED <<stop, came, proc, asked, uart>>

-----------------------------------------------------------------------------
(* recvthread.                                                              *)

IgnoreStop == "call"        \* mutant: the loop does not test stop

RecvNext == IF stop THEN "close" ELSE "call"

RecvTest ==
    /\ recv = "test"
    /\ recv' = RecvNext
    /\ UNCHANGED <<stop, sockfd, inbox, came, taking, others>>

RecvCall ==
    /\ recv = "call"
    /\ recv' = IF sockfd = "socket" THEN "wait" ELSE "test"
    /\ UNCHANGED <<stop, sockfd, inbox, came, taking, others>>

(* The history follows what suits the entries, not what is written.         *)
RecvTake ==
    /\ recv = "wait" /\ inbox # <<>>
    /\ inbox' = Tail(inbox)
    /\ rx' = Received(Head(inbox), rx)
    /\ \/ /\ IsMessage(Head(inbox)) /\ rx'.kind = "write"
          /\ recv' = "open" /\ at' = 1
          /\ asked' = [f \in File |-> IF f \in rx'.bad THEN asked[f] ELSE rx'.number]
       \/ /\ ~(IsMessage(Head(inbox)) /\ rx'.kind = "write")
          /\ recv' = "test" /\ UNCHANGED <<at, asked>>
    /\ UNCHANGED <<stop, sockfd, came, reused, proc, others>>

(* fopen takes the lowest number that is free: that of the socket, once     *)
(* this is closed.                                                          *)
OpenFile ==
    /\ recv = "open"
    /\ reused' = (sockfd = "free")
    /\ sockfd' = IF sockfd = "free" THEN "file" ELSE sockfd
    /\ recv' = "put"
    /\ UNCHANGED <<stop, inbox, came, rx, at, proc, asked, others>>

(* fopen returns NULL, fwrite is left out and fclose(NULL) is not.          *)
OpenFails == recv = "open" /\ Crash

(* What reaches /proc with fclose: nothing when another thread has closed   *)
(* the number meanwhile, nor in a file outside /proc, nor a value that the  *)
(* handler refuses.  (Of the heaters it keeps those in front of a bad one;  *)
(* an entry stands for the last of its values.)                             *)
Lost == (reused /\ sockfd = "free") \/ at \in Stray \/ at \in rx.bad

OnePast == at > NumFiles    \* mutant: off by one

LastFile == at = NumFiles

(* fwrite and fclose, whose results are ignored.                            *)
PutFile ==
    /\ recv = "put"
    /\ proc' = IF Lost THEN proc ELSE [proc EXCEPT ![at] = rx.number]
    /\ sockfd' = IF reused THEN "free" ELSE sockfd
    /\ at' = at + 1
    /\ recv' = IF LastFile THEN "test" ELSE "open"
    /\ UNCHANGED <<stop, inbox, came, rx, reused, asked, others>>

RecvClose ==
    /\ recv = "close"
    /\ sockfd' = "free"
    /\ recv' = "exited"
    /\ rx' = Nothing /\ at' = NumFiles + 1 /\ reused' = FALSE
    /\ UNCHANGED <<stop, inbox, came, proc, asked, others>>

recvthread == RecvTest \/ RecvCall \/ RecvTake \/ OpenFile \/ PutFile \/ RecvClose

-----------------------------------------------------------------------------
(* serial_write, which leaves the socket open.                              *)

SerialTest ==
    /\ ser = "test"
    /\ ser' = IF stop THEN "exited" ELSE "call"
    /\ UNCHANGED <<stop, sockfd, inbox, came, receiving, ser_rx, uart, sender,
                   reading, ended>>

SerialCall ==
    /\ ser = "call"
    /\ ser' = IF sockfd = "socket" THEN "wait" ELSE "test"
    /\ UNCHANGED <<stop, sockfd, inbox, came, receiving, ser_rx, uart, sender,
                   reading, ended>>

(* The buffer is cleared at the end of each turn.                           *)
SerialTake ==
    /\ ser = "wait" /\ inbox # <<>>
    /\ inbox' = Tail(inbox)
    /\ IF IsMessage(Head(inbox)) /\ Head(inbox).kind = "serial"
       THEN ser' = "put" /\ ser_rx' = Head(inbox)
       ELSE ser' = "test" /\ ser_rx' = Nothing
    /\ UNCHANGED <<stop, sockfd, came, receiving, uart, sender, reading, ended>>

PutSerial ==
    /\ ser = "put"
    /\ uart' = ser_rx.number
    /\ ser_rx' = Nothing
    /\ ser' = "test"
    /\ UNCHANGED <<stop, sockfd, inbox, came, receiving, sender, reading, ended>>

serial_write == SerialTest \/ SerialCall \/ SerialTake \/ PutSerial

-----------------------------------------------------------------------------
(* send_slow_thread and send_fast_thread.  A turn of their loops reads /proc *)
(* and sends a frame and changes nothing here.                              *)

Leave(s) ==
    /\ sender[s] = "loop" /\ stop
    /\ sender' = [sender EXCEPT ![s] = "close"]
    /\ UNCHANGED <<stop, sockfd, inbox, came, receiving, serial, reading, ended>>

(* close(sockfd), whatever the number stands for by now.                    *)
CloseSocket(s) ==
    /\ sender[s] = "close"
    /\ sender' = [sender EXCEPT ![s] = "exited"]
    /\ sockfd' = "free"
    /\ UNCHANGED <<stop, inbox, came, receiving, serial, reading, ended>>

sending(s) == Leave(s) \/ CloseSocket(s)

-----------------------------------------------------------------------------
(* serial_read: a line is sent when its Z comes.  The variables of a thread  *)
(* that leaves go with it, here and in recvthread; the damage remains.      *)

Character == {"Z", "other", "NUL"}

(* strcat, which knows no limit: after an overrun there is no telling what  *)
(* the buffer holds.                                                        *)
AppendCharacter(c) ==
    LET length == line + (IF c = "NUL" THEN 0 ELSE 1)
    IN  /\ spilled' = (spilled \/ length > Room)
        /\ line' = IF spilled' THEN Room + 1 ELSE length
        /\ reader' = IF c = "Z" THEN "send" ELSE "loop"

ReadCharacter ==
    /\ reader = "loop" /\ ~stop
    /\ \E c \in Character :
         /\ AppendCharacter(c)
         /\ clean' = (clean /\ ~spilled')
         /\ arrived' = IF clean' /\ c # "NUL" THEN arrived + 1
                       ELSE IF clean' THEN arrived ELSE 0
    /\ UNCHANGED <<stop, sockfd, inbox, came, receiving, serial, sender, ended>>

(* read returns -1, which the test "if(ret)" lets pass: what rd_c holds,    *)
(* from before or from the start, is appended.                              *)
ReadFails ==
    /\ reader = "loop" /\ ~stop
    /\ \E c \in Character : AppendCharacter(c)
    /\ clean' = FALSE /\ arrived' = 0
    /\ UNCHANGED <<stop, sockfd, inbox, came, receiving, serial, sender, ended>>

KeepLine == line' = line    \* mutant: the buffer is not emptied

EmptyLine == line' = 0

SendLine ==
    /\ reader = "send"
    /\ EmptyLine
    /\ clean' = ~spilled /\ arrived' = 0
    /\ reader' = "loop"
    /\ UNCHANGED <<stop, sockfd, inbox, came, receiving, serial, sender, spilled,
                   ended>>

ReaderLeaves ==
    /\ reader = "loop" /\ stop
    /\ reader' = "exited"
    /\ line' = 0 /\ clean' = FALSE /\ arrived' = 0
    /\ UNCHANGED <<stop, sockfd, inbox, came, receiving, serial, sender, spilled,
                   ended>>

serial_read == ReadCharacter \/ ReadFails \/ SendLine \/ ReaderLeaves

(* What lies behind serial_data is no longer what it was.                   *)
Overrun == spilled /\ ~ended /\ Crash

-----------------------------------------------------------------------------
(* The signal, main, and the PC.                                            *)

inthand ==
    /\ ~stop /\ ~ended
    /\ stop' = TRUE
    /\ UNCHANGED <<sockfd, inbox, came, receiving, others>>

main ==
    /\ ~ended
    /\ \A s \in Sender : sender[s] = "exited"
    /\ recv = "exited" /\ reader = "exited" /\ ser = "exited"
    /\ ended' = TRUE
    /\ UNCHANGED <<stop, sockfd, inbox, came, receiving, serial, sender, reading>>

Arrive(d) ==
    /\ SocketAlive /\ Len(inbox) < InboxSize
    /\ inbox' = Append(inbox, d)
    /\ UNCHANGED <<stop, sockfd, receiving, others>>

NumberedComes ==
    /\ came < MaxNumber
    /\ came' = came + 1
    /\ \/ \E b \in SUBSET Refusing :
            Arrive([kind |-> "write", number |-> came + 1, bad |-> b])
       \/ Arrive([kind |-> "serial", number |-> came + 1, bad |-> {}])

OtherComes ==
    /\ \E k \in {"short", "other"} : Arrive([kind |-> k, number |-> 0, bad |-> {}])
    /\ UNCHANGED came

Next ==
    \/ recvthread \/ serial_write \/ serial_read
    \/ \E s \in Sender : sending(s)
    \/ OpenFails \/ Overrun
    \/ inthand \/ main \/ NumberedComes \/ OtherComes

SafeSpec == Init /\ [][Next]_vars

(* Threads run, read(2) of the UART does not block, and the PC never stops  *)
(* sending for good; nothing is assumed of which thread gets a datagram.    *)
Spec ==
    /\ SafeSpec
    /\ WF_vars(recvthread) /\ WF_vars(serial_write) /\ WF_vars(serial_read)
    /\ \A s \in Sender : WF_vars(sending(s))
    /\ WF_vars(main) /\ WF_vars(OtherComes)

-----------------------------------------------------------------------------
(* Properties.                                                              *)

(* Until SIGINT, every entry of /proc shows the latest write that suits it  *)
(* and that recvthread took, except while recvthread goes through a         *)
(* datagram: then the entries it has been at do, and those it has not are   *)
(* older than the datagram.  No datagram is applied a second time, in spite *)
(* of the buffer that is kept, of short datagrams, of the thread that takes *)
(* datagrams away and of handlers that refuse; one that is refused leaves   *)
(* its entry behind the others.                                             *)
OneDatagramAtATime ==
    ~stop /\ ~ended =>
        \A f \in File \ Stray :
            IF recv \in {"open", "put"} /\ at <= f THEN proc[f] < rx.number
                                                   ELSE proc[f] = asked[f]

(* A line goes to the PC with the characters that came since the last Z,    *)
(* and no others, when it was read without a failure and no line so far has *)
(* been too long for the buffer; the first one may have what lay in the     *)
(* buffer in front.                                                         *)
LinesAreWhole == reader = "send" /\ clean => line = arrived

(* SIGINT ends the program as long as the PC sends anything at all: the     *)
(* receivers see the flag only when a datagram comes, and need one each,    *)
(* although the socket they wait on is closed by others.                    *)
StopEnds == stop ~> ended
=============================================================================
