------------------------------ MODULE LineDaemon ------------------------------
(***************************************************************************)
(* cmps3620/code/lab6/daemon.c, dialog_with_telnet() after "Ready": what   *)
(* arrives is logged up to its first end of line, until the caller leaves. *)
(* Callers of both daemons are here too.                                   *)
(***************************************************************************)
EXTENDS Offspring

VARIABLES
  sent,         \* the bytes each caller has sent
  hungup,       \* whether it has closed the connection
  taken         \* how many of its bytes have been received

callVars == <<sent, hungup, taken>>

CallInit ==
  /\ sent = [c \in Conns |-> <<>>]
  /\ hungup = [c \in Conns |-> FALSE]
  /\ taken = [c \in Conns |-> 0]

Bytes == {"x", "cr", "lf"}

Send(c, b) ==
  /\ holders[c] # {} /\ ~hungup[c] /\ Len(sent[c]) < scene.bytes
  /\ sent' = [sent EXCEPT ![c] = Append(@, b)]
  /\ UNCHANGED <<hungup, taken, offspringVars>>

HangUp(c) ==
  /\ holders[c] # {} /\ ~hungup[c]
  /\ hungup' = [hungup EXCEPT ![c] = TRUE]
  /\ UNCHANGED <<sent, taken, offspringVars>>

Arrived(c) == SubSeq(sent[c], taken[c] + 1, Len(sent[c]))
Open(t) == Owner(t) \in holders[task[t].msock]

\* What is logged of a recv() is lost to the caller's other lines; the log is
\* left out.
Receive(t) ==
  /\ task[t].pc = "recv" /\ Open(t)
  /\ \E n \in 1 .. Len(Arrived(task[t].msock)) :
       taken' = [taken EXCEPT ![task[t].msock] = @ + n]
  /\ UNCHANGED <<sent, hungup, offspringVars>>

\* recv() returns 0, or fails because somebody has closed the socket.
EndOfLines(t) ==
  /\ task[t].pc = "recv"
  /\ Open(t) => hungup[task[t].msock] /\ Arrived(task[t].msock) = <<>>
  /\ Finish(t)
  /\ UNCHANGED callVars

CallNext == \E c \in Conns : HangUp(c) \/ \E b \in Bytes : Send(c, b)
LineNext(t) == Receive(t) \/ EndOfLines(t)
=============================================================================
