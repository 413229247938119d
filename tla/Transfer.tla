-------------------------------- MODULE Transfer --------------------------------
(***************************************************************************)
(* vcsend and vcrec over TCP, in three kinds.  One way: the sender's lines *)
(* are shown by the receiver (cmps3620/code lab2, lab4 and lab6 vcsend.c   *)
(* and vcrec.c, lab4/client.c and server.c).  Two ways: the receiver       *)
(* answers what it has read with a line, for which the sender waits        *)
(* (solutions/lab2), and both look at the keyboard with select() first     *)
(* (solutions/lab4).  The receiver greets the sender with one byte.        *)
(*                                                                         *)
(* A side may be interrupted; TCP then says that it has left, or resets    *)
(* the connection if something it was sent has not been read.              *)
(***************************************************************************)
EXTENDS Lines

VARIABLES
  made,         \* the sender has connected
  last,         \* what follows the bytes of a side: "open", "fin", "rst", or
                \* "dead", when a reset has been reported
  stray         \* a side has sent to one that has left

tcpVars == <<made, last, stray>>

TCPInit ==
  /\ made = FALSE
  /\ last = [s \in Sides |-> "open"]
  /\ stray = [s \in Sides |-> FALSE]

OneWay == scene.program = "oneway"
TwoWay == scene.program \in {"twoway", "select"}
Select == scene.program = "select"
TCP == OneWay \/ TwoWay

Left(s) == pc[s] = "ended"

\* The socket of a side is closed: a reset if there are bytes it has not read,
\* which may overtake what it has sent.
Close(s) ==
  /\ Goto(s, "ended")
  /\ IF wire[Other(s)] = <<>>
     THEN /\ last' = [last EXCEPT ![s] = "fin"]
          /\ UNCHANGED wire
     ELSE /\ last' = [last EXCEPT ![s] = "rst"]
          /\ \E n \in 0 .. Len(wire[s]) :
               wire' = [wire EXCEPT ![s] = SubSeq(@, 1, n), ![Other(s)] = <<>>]
  /\ UNCHANGED <<scene, sent, buf, shown, cut, made, stray>>

\* send() fails, or SIGPIPE ends the program, once a reset has come.
Lost(s) == last[Other(s)] \in {"rst", "dead"}

\* What is sent to a side that has left vanishes, and a reset will follow.
Vanish(s, next) ==
  /\ stray' = [stray EXCEPT ![s] = TRUE]
  /\ Goto(s, next)
  /\ UNCHANGED <<scene, sent, wire, buf, shown, cut, made, last>>

\* Mutant of SendLine: the loop is not left when send() fails.
SendLineOn(s, next) ==
  \/ Left(Other(s)) /\ Vanish(s, next)
  \/ /\ ~Left(Other(s)) /\ More(s)
     /\ \E len \in 0 .. MAX_LINE : Put(s, len)
     /\ Goto(s, next)
     /\ UNCHANGED <<scene, buf, shown, cut, made, last, stray>>

SendLine(s, next) ==
  \/ Lost(s) /\ Close(s)
  \/ ~Lost(s) /\ Left(Other(s)) /\ Vanish(s, next)
  \/ /\ ~Lost(s) /\ ~Left(Other(s)) /\ More(s)
     /\ \E len \in 0 .. MAX_LINE : Put(s, len)
     /\ Goto(s, next)
     /\ UNCHANGED <<scene, buf, shown, cut, made, last, stray>>

ResetArrives(s) ==
  /\ stray[s]
  /\ stray' = [stray EXCEPT ![s] = FALSE]
  /\ last' = [last EXCEPT ![Other(s)] = "rst"]
  /\ UNCHANGED <<lineVars, made>>

\* Mutant of Zeroed: the buffer keeps what it held.
NotZeroed(b) == b

\* bzero() before each recv().
Zeroed(b) == <<>>

\* recv() returns n bytes, and what it has read is printed.
Show(s, n, next) ==
  /\ LET piece == SubSeq(wire[Other(s)], 1, n)
         after == Over(Zeroed(buf[s]), piece)
     IN  /\ buf' = [buf EXCEPT ![s] = after]
         /\ shown' = [shown EXCEPT ![s] = Append(@, Printed(after))]
         /\ cut' = (cut \/ piece[n] # NUL)
  /\ wire' = [wire EXCEPT ![Other(s)] = SubSeq(@, n + 1, Len(@))]
  /\ Goto(s, next)
  /\ UNCHANGED <<scene, sent, made, last, stray>>

\* recv() returns 0 or fails: the other has left.  A reset may be reported as
\* either, once.
Over0(s) == wire[Other(s)] = <<>> /\ last[Other(s)] \in {"fin", "rst", "dead"}
OverError(s) == wire[Other(s)] = <<>> /\ last[Other(s)] = "rst"

\* The empty text is printed as received.
ShowError(s, next) ==
  /\ OverError(s)
  /\ last' = [last EXCEPT ![Other(s)] = "dead"]
  /\ buf' = [buf EXCEPT ![s] = Zeroed(@)]
  /\ shown' = [shown EXCEPT ![s] = Append(@, <<>>)]
  /\ Goto(s, next)
  /\ UNCHANGED <<scene, sent, wire, cut, made, stray>>

------------------------------------------------------------------------------
(* vcrec, server.c                                                          *)

\* The listening socket is made, or the program ends.
Listen ==
  /\ pc["R"] = "start"
  /\ Goto("R", "accept") \/ Goto("R", "ended")
  /\ UNCHANGED <<scene, sent, wire, buf, shown, cut, tcpVars>>

Accept ==
  /\ pc["R"] = "accept" /\ made
  /\ Goto("R", IF Select THEN "watch" ELSE "greet")
  /\ UNCHANGED <<scene, sent, wire, buf, shown, cut, tcpVars>>

AcceptFails ==
  /\ pc["R"] = "accept"
  /\ \/ made /\ Close("R")
     \/ ~made /\ Goto("R", "ended")
        /\ UNCHANGED <<scene, sent, wire, buf, shown, cut, tcpVars>>

\* select() returns at once, since the new socket can be written to; a line
\* already typed is read and is not sent.
Watch ==
  /\ pc["R"] = "watch"
  /\ Goto("R", "greet")
  /\ UNCHANGED <<scene, sent, wire, buf, shown, cut, tcpVars>>

WatchPeriod ==
  /\ pc["R"] = "watch"
  /\ Close("R")

\* Mutant of Greeting: the handshake is not sent.
NoGreeting == <<>>

Greeting == << <<0, 1>> >>

Greet ==
  /\ pc["R"] = "greet"
  /\ Goto("R", "recv")
  /\ IF Left("S") THEN UNCHANGED wire /\ stray' = [stray EXCEPT !["R"] = TRUE]
     ELSE wire' = [wire EXCEPT !["R"] = Greeting] /\ UNCHANGED stray
  /\ UNCHANGED <<scene, sent, buf, shown, cut, made, last>>

\* One way: until recv() returns 0.
Receive ==
  /\ OneWay /\ pc["R"] = "recv"
  /\ \/ \E n \in 1 .. scene.size : n <= Len(wire["S"]) /\ Show("R", n, "recv")
     \/ ShowError("R", "recv")

SenderHasLeft == Over0("R")

ReceiverCloses == OneWay /\ pc["R"] = "recv" /\ SenderHasLeft /\ Close("R")

\* Two ways: whatever recv() returned, 0 too, a line is asked for.
ReceiveTurn ==
  /\ TwoWay /\ pc["R"] = "recv"
  /\ \/ \E n \in 1 .. scene.size : n <= Len(wire["S"]) /\ Show("R", n, "type")
     \/ ShowError("R", "type")
     \/ /\ Over0("R") /\ Goto("R", "type")
        /\ buf' = [buf EXCEPT !["R"] = Zeroed(@)]
        /\ UNCHANGED <<scene, sent, wire, shown, cut, tcpVars>>

\* The result of send() takes the place of that of recv().
Answer == pc["R"] = "type" /\ (SendLine("R", "recv") \/ Close("R"))

------------------------------------------------------------------------------
(* vcsend, client.c                                                         *)

Connect ==
  /\ pc["S"] = "start" /\ pc["R"] = "accept"
  /\ Goto("S", IF Select THEN "watch" ELSE "hand")
  /\ made' = TRUE
  /\ UNCHANGED <<scene, sent, wire, buf, shown, cut, last, stray>>

ConnectFails ==
  /\ pc["S"] = "start"
  /\ Goto("S", "ended")
  /\ UNCHANGED <<scene, sent, wire, buf, shown, cut, tcpVars>>

\* select() returns when something has been typed, or after 30 seconds.
AwaitKeyboard ==
  /\ pc["S"] = "watch"
  /\ Goto("S", "hand")
  /\ UNCHANGED <<scene, sent, wire, buf, shown, cut, tcpVars>>

\* What the first recv() returns does not matter.
Handshake ==
  /\ pc["S"] = "hand" /\ (wire["R"] # <<>> \/ Over0("S"))
  /\ wire' = [wire EXCEPT !["R"] = <<>>]
  /\ Goto("S", "type")
  /\ UNCHANGED <<scene, sent, buf, shown, cut, tcpVars>>

Type == OneWay /\ pc["S"] = "type" /\ (SendLine("S", "type") \/ Close("S"))

\* Mutant of TypeTurn: the reply is not waited for.
TypeTurnOnly == TwoWay /\ pc["S"] = "type" /\ (SendLine("S", "type") \/ Close("S"))

TypeTurn == TwoWay /\ pc["S"] = "type" /\ (SendLine("S", "reply") \/ Close("S"))

Reply ==
  /\ pc["S"] = "reply"
  /\ \/ \E n \in 1 .. Len(wire["R"]) : Show("S", n, "type")
     \/ ShowError("S", "type")

ServerHasLeft == pc["S"] = "reply" /\ Over0("S") /\ Close("S")

\* A program is interrupted at its terminal.
Interrupt(s) == made /\ pc[s] # "ended" /\ Close(s)

\* What a side does without its user.
SenderRuns == Handshake \/ AwaitKeyboard \/ Reply \/ ServerHasLeft
ReceiverRuns == Accept \/ Watch \/ Greet \/ Receive \/ ReceiverCloses \/ ReceiveTurn

Sender == SenderRuns \/ Type \/ TypeTurn
Receiver == ReceiverRuns \/ WatchPeriod \/ Answer

TCPNext ==
  /\ TCP
  /\ \/ Listen \/ AcceptFails \/ Connect \/ ConnectFails \/ Sender \/ Receiver
     \/ \E s \in Sides : Interrupt(s) \/ ResetArrives(s)
=============================================================================
