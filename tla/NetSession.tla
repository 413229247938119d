----------------------------- MODULE NetSession -----------------------------
(***************************************************************************)
(* cmps3620/code/lab6/sesssend.c and sessrecv.c: a sender and a receiver   *)
(* of lines over a NETBIOS session.                                        *)
(*                                                                         *)
(* The sender's NCBs are of the WAIT type: CALL, SEND and HANGUP return    *)
(* when they are done or have failed.  The receiver polls: keyboard first, *)
(* then the completion flag cmd_cplt of one NCB, issued again and again as *)
(* ASYNCRECV, for as long as conn_flag says there is a session.            *)
(*                                                                         *)
(* The service is external.  A SEND is done when a posted receive has      *)
(* taken the line; when it times out the session is gone, and the line may *)
(* have arrived all the same.  When a session ends, every receive posted   *)
(* on it completes with an error, and so does one posted later.  Lines are *)
(* numbered in the order in which they are entered.                        *)
(***************************************************************************)
EXTENDS Naturals, Sequences

CONSTANTS
  HISTLINES,     \* lines of the receiver's history buffer
  MaxLines,      \* bound: lines entered at the sender
  MaxRuns,       \* bound: times the sender is started
  MaxCommands    \* bound: commands entered at the receiver

ASSUME NetSessionAssumption ==
  /\ HISTLINES \in Nat \ {0}
  /\ MaxLines \in Nat /\ MaxRuns \in Nat \ {0} /\ MaxCommands \in Nat

VARIABLES
  spc,          \* the sender
  line,         \* the line in its sbuffer, the last one entered
  runs,         \* starts of the sender so far
  session,      \* the service: is there a session between the two
  recvs,        \* the service: receives posted and not yet completed
  rpc,          \* the receiver
  conn_flag,    \* 1 when it believes it is connected
  cmd_cplt,     \* the completion flag of its NCB
  rbuffer,      \* the line in its buffer, 0 when something else is there
  cmdbuf,       \* the command line being typed, or NoCommand
  hist,         \* its history buffer, newest line last
  commands,     \* commands entered so far
  displayed, acked, \* history: lines displayed; lines whose SEND returned 0
  timedout,     \* history: a SEND has timed out
  relistened    \* history: listen was entered while connected

senderVars  == <<spc, line, runs>>
serviceVars == <<session, recvs>>
ncbVars     == <<conn_flag, cmd_cplt, rbuffer>>
shellVars   == <<cmdbuf, hist, commands>>
history     == <<displayed, acked, timedout, relistened>>
sessionVars == <<senderVars, serviceVars, rpc, ncbVars, shellVars, history>>

PENDING == "pending"

Typed    == {"listen", "external", "exit", "other"}   \* help, cd, ..., nothing at all
Commands == Typed \cup {" "}                          \* and what clear_line() leaves
NoCommand == ""

Exited == {"exit0", "exit1"}

(***************************************************************************)
(* The history buffer                                                      *)
(***************************************************************************)
Buffers == [1 .. HISTLINES -> Commands]

ClearHist == [i \in 1 .. HISTLINES |-> " "]

(* A new last line, the first is lost. *)
ScrollUp(h, lbuf) == [i \in 1 .. HISTLINES |-> IF i = HISTLINES THEN lbuf ELSE h[i + 1]]

(* The last line is handed out, the first one is doubled. *)
ScrollDown(h) == [i \in 1 .. HISTLINES |-> IF i = 1 THEN h[1] ELSE h[i - 1]]

SessionInit ==
  /\ spc = "calling" /\ line = 0 /\ runs = 1
  /\ session = "none" /\ recvs = 0
  /\ rpc = "arloop"
  /\ conn_flag = 0 /\ cmd_cplt = PENDING /\ rbuffer = 0
  /\ cmdbuf = NoCommand /\ hist = ClearHist /\ commands = 0
  /\ displayed = <<>> /\ acked = {} /\ timedout = FALSE /\ relistened = FALSE

(***************************************************************************)
(* The service                                                             *)
(***************************************************************************)

(* The session ends: what was posted on it completes. *)
SessionEnds ==
  /\ session' = "down"
  /\ recvs' = 0
  /\ cmd_cplt' = IF recvs > 0 THEN "closed" ELSE cmd_cplt

(* The line in sbuffer completes a posted receive. *)
LineTaken ==
  /\ session = "up" /\ recvs > 0
  /\ rbuffer' = line

(***************************************************************************)
(* sesssend.c                                                              *)
(***************************************************************************)

(* CALL meets LISTEN, in ncb_call() or ncb_reconn(). *)
CallAnswered ==
  /\ spc = "calling" /\ rpc = "listening"
  /\ session' = "up"
  /\ spc' = "prompt" /\ rpc' = "listened"
  /\ UNCHANGED <<line, runs, recvs, ncbVars, shellVars, history>>

(* Nobody listens, or the CALL fails otherwise: RESET and exit(1). *)
CallFails ==
  /\ spc = "calling"
  /\ spc' = "exit1"
  /\ UNCHANGED <<line, runs, serviceVars, rpc, ncbVars, shellVars, history>>

EnterLine ==
  /\ spc = "prompt" /\ line < MaxLines
  /\ line' = line + 1
  /\ spc' = "sending"
  /\ UNCHANGED <<runs, serviceVars, rpc, ncbVars, shellVars, history>>

SendDone ==
  /\ spc = "sending" /\ LineTaken
  /\ recvs' = recvs - 1
  /\ cmd_cplt' = "success"
  /\ acked' = acked \cup {line}
  /\ spc' = "prompt"
  /\ UNCHANGED <<line, runs, session, rpc, conn_flag, shellVars, displayed, timedout, relistened>>

(* 0x05: the session is lost and the sender calls again.  The line is not  *)
(* sent again; it may have arrived.                                        *)
AfterTimeout == spc' = "calling" /\ line' = line

SendTimesOut ==
  /\ spc = "sending" /\ session = "up"
  /\ \/ SessionEnds /\ rbuffer' = rbuffer
     \/ /\ LineTaken
        /\ session' = "down" /\ recvs' = 0
        /\ cmd_cplt' = IF recvs > 1 THEN "closed" ELSE "success"
  /\ timedout' = TRUE
  /\ AfterTimeout
  /\ UNCHANGED <<runs, rpc, conn_flag, shellVars, displayed, acked, relistened>>

(* Any other error, the receiver has hung up: RESET and exit(1). *)
SendFails ==
  /\ spc = "sending" /\ session = "down"
  /\ spc' = "exit1"
  /\ UNCHANGED <<line, runs, serviceVars, rpc, ncbVars, shellVars, history>>

(* What sess_status() returns after HANGUP: once a SEND has timed out it   *)
(* may still be 03h, "established".                                        *)
SenderStatus == IF timedout THEN {"established", "other"} ELSE {"other"}

(* 03h: RESET in place of DELETENAME. *)
ExitCode(status) == IF status = "established" THEN "exit1" ELSE "exit0"

(* "~": HANGUP, then the status. *)
SenderOver ==
  /\ spc = "prompt"
  /\ SessionEnds
  /\ \E status \in SenderStatus : spc' = ExitCode(status)
  /\ UNCHANGED <<line, runs, rpc, conn_flag, rbuffer, shellVars, history>>

SenderStarts ==
  /\ spc \in Exited /\ runs < MaxRuns
  /\ runs' = runs + 1
  /\ spc' = "calling"
  /\ UNCHANGED <<line, serviceVars, rpc, ncbVars, shellVars, history>>

(***************************************************************************)
(* sessrecv.c                                                              *)
(***************************************************************************)

(* asyn_issue_ncb() with the one NCB: its completion flag starts again. *)
PostReceive ==
  IF session = "up"
  THEN recvs' = recvs + 1 /\ cmd_cplt' = PENDING
  ELSE recvs' = recvs /\ cmd_cplt' = "closed"

(* srloop: ASYNCRECV if connected. *)
IssueRecv(conn) == IF conn = 1 THEN PostReceive ELSE UNCHANGED <<recvs, cmd_cplt>>

(* A command is typed, key by key; BACKSPACE takes it back. *)
TypeCommand ==
  /\ rpc = "arloop" /\ cmdbuf = NoCommand /\ commands < MaxCommands
  /\ cmdbuf' \in Typed
  /\ commands' = commands + 1
  /\ UNCHANGED <<senderVars, serviceVars, rpc, ncbVars, hist, history>>

Backspace ==
  /\ rpc = "arloop" /\ cmdbuf # NoCommand
  /\ cmdbuf' = NoCommand
  /\ UNCHANGED <<senderVars, serviceVars, rpc, ncbVars, hist, commands, history>>

(* F3, or the command history: the last line again, ready to be entered. *)
Recall ==
  /\ rpc = "arloop" /\ commands < MaxCommands
  /\ cmdbuf' = hist[HISTLINES]
  /\ hist' = ScrollDown(hist)
  /\ commands' = commands + 1
  /\ UNCHANGED <<senderVars, serviceVars, rpc, ncbVars, history>>

(* Return: the line is logged. *)
Enter(cmd) ==
  /\ rpc = "arloop" /\ cmdbuf = cmd
  /\ hist' = ScrollUp(hist, cmd)
  /\ cmdbuf' = NoCommand
  /\ UNCHANGED <<senderVars, session, conn_flag, rbuffer, commands, displayed, acked, timedout>>

EnterListen ==
  /\ Enter("listen") /\ conn_flag = 0
  /\ rpc' = "listening"
  /\ UNCHANGED <<recvs, cmd_cplt, relistened>>

(* Already connected: nlisten, and from there to srloop all the same. *)
ListenAgain ==
  /\ Enter("listen") /\ conn_flag = 1
  /\ IssueRecv(conn_flag)
  /\ relistened' = TRUE
  /\ rpc' = rpc

(* A blank line out of the buffer goes to system() as well. *)
External ==
  /\ Enter("external") \/ Enter(" ")
  /\ rpc' = "system"
  /\ UNCHANGED <<recvs, cmd_cplt, relistened>>

EnterOther ==
  /\ Enter("other")
  /\ rpc' = rpc
  /\ UNCHANGED <<recvs, cmd_cplt, relistened>>

Exit ==
  /\ Enter("exit")
  /\ rpc' = "over"
  /\ UNCHANGED <<recvs, cmd_cplt, relistened>>

ControlC ==
  /\ rpc = "arloop"
  /\ rpc' = "over"
  /\ UNCHANGED <<senderVars, serviceVars, ncbVars, shellVars, history>>

(* Mutant: a command ends at srloop, where the next ASYNCRECV is issued. *)
SystemToSrloop ==
  /\ rpc = "system"
  /\ rpc' = "arloop"
  /\ IssueRecv(conn_flag)
  /\ UNCHANGED <<senderVars, session, conn_flag, rbuffer, shellVars, history>>

SystemReturns ==
  /\ rpc = "system"
  /\ rpc' = "arloop"
  /\ UNCHANGED <<senderVars, serviceVars, ncbVars, shellVars, history>>

(* LISTEN returns; sess_status() uses the buffer before ASYNCRECV does. *)
ListenDone ==
  /\ rpc = "listened"
  /\ conn_flag' = 1
  /\ rbuffer' = 0
  /\ IssueRecv(1)
  /\ rpc' = "arloop"
  /\ UNCHANGED <<senderVars, session, shellVars, history>>

ListenFails ==
  /\ rpc = "listening"
  /\ conn_flag' = 0
  /\ IssueRecv(0)
  /\ rpc' = "arloop"
  /\ UNCHANGED <<senderVars, session, rbuffer, shellVars, history>>

Completed == rpc = "arloop" /\ conn_flag = 1 /\ cmd_cplt # PENDING

(* Mutant: after a line back to arloop, not to srloop. *)
PollLineOnly ==
  /\ Completed /\ cmd_cplt = "success"
  /\ displayed' = Append(displayed, rbuffer)
  /\ cmd_cplt' = PENDING
  /\ UNCHANGED <<senderVars, serviceVars, rpc, conn_flag, rbuffer, shellVars,
                 acked, timedout, relistened>>

(* The line is shown and the next ASYNCRECV issued. *)
PollLine ==
  /\ Completed /\ cmd_cplt = "success"
  /\ displayed' = Append(displayed, rbuffer)
  /\ IssueRecv(conn_flag)
  /\ UNCHANGED <<senderVars, session, rpc, conn_flag, rbuffer, shellVars,
                 acked, timedout, relistened>>

(* Connection lost, stop receiving. *)
PollError ==
  /\ Completed /\ cmd_cplt # "success"
  /\ cmd_cplt' = PENDING
  /\ conn_flag' = 0
  /\ UNCHANGED <<senderVars, serviceVars, rpc, rbuffer, shellVars, history>>

(* Mutant: the receive is waited for but not cancelled. *)
CancelNothing ==
  /\ rpc = "over"
  /\ rpc' = IF conn_flag = 1 THEN "wait" ELSE "closing"
  /\ UNCHANGED <<senderVars, serviceVars, ncbVars, shellVars, history>>

(* over: CANCEL through cncb, when a receive may be running. *)
Cancel ==
  /\ rpc = "over"
  /\ IF conn_flag = 1 /\ recvs > 0
     THEN recvs' = recvs - 1 /\ cmd_cplt' = "cancelled"
     ELSE UNCHANGED <<recvs, cmd_cplt>>
  /\ rpc' = IF conn_flag = 1 THEN "wait" ELSE "closing"
  /\ UNCHANGED <<senderVars, session, conn_flag, rbuffer, shellVars, history>>

(* while (ncb.cmd_cplt == PENDING); *)
CancelDone ==
  /\ rpc = "wait" /\ cmd_cplt # PENDING
  /\ rpc' = "closing"
  /\ UNCHANGED <<senderVars, serviceVars, ncbVars, shellVars, history>>

(* sess_status() reads the status into rbuffer; where the query fails, its *)
(* result is whatever sret held.                                           *)
ReceiverStatus == IF session = "up" THEN {"established"} ELSE {"established", "other"}

(* The status, HANGUP if established, and the status again. *)
HangUp ==
  /\ rpc = "closing"
  /\ rbuffer' = 0
  /\ \E status \in ReceiverStatus :
       IF session = "up" /\ status = "established" THEN SessionEnds
       ELSE UNCHANGED <<session, recvs, cmd_cplt>>
  /\ \E status \in ReceiverStatus' : rpc' = ExitCode(status)
  /\ UNCHANGED <<senderVars, conn_flag, shellVars, history>>

SenderMoves == \/ CallAnswered \/ CallFails \/ EnterLine \/ SendDone \/ SendTimesOut
               \/ SendFails \/ SenderOver \/ SenderStarts
Keyboard == \/ TypeCommand \/ Backspace \/ Recall \/ EnterListen \/ ListenAgain \/ External
            \/ EnterOther \/ Exit \/ ControlC
Polling  == \/ SystemReturns \/ ListenDone \/ PollLine \/ PollError
            \/ Cancel \/ CancelDone \/ HangUp
SessionNext == SenderMoves \/ Keyboard \/ Polling \/ ListenFails

SessionSpec == SessionInit /\ [][SessionNext]_sessionVars

(* The receiver goes on by itself, and a command it runs ends.  Nothing is  *)
(* assumed of the sender, of its user or of the receiver's keyboard.        *)
SessionFairSpec == SessionSpec /\ WF_sessionVars(Polling)

(***************************************************************************)
(* What the two programs must do                                           *)
(***************************************************************************)

(* Every variable keeps its type, and one receive is posted at a time       *)
(* unless commands have posted more.                                        *)
SessionTypes ==
  /\ spc \in {"calling", "prompt", "sending"} \cup Exited
  /\ line \in 0 .. MaxLines /\ runs \in 1 .. MaxRuns
  /\ session \in {"none", "up", "down"} /\ recvs \in Nat
  /\ recvs <= IF relistened THEN commands + 1 ELSE 1
  /\ rpc \in {"arloop", "listening", "listened", "system", "over", "wait", "closing"} \cup Exited
  /\ conn_flag \in {0, 1} /\ cmd_cplt \in {PENDING, "success", "closed", "cancelled"}
  /\ rbuffer \in 0 .. MaxLines
  /\ cmdbuf \in Commands \cup {NoCommand} /\ hist \in Buffers /\ commands \in 0 .. MaxCommands
  /\ displayed \in Seq(0 .. MaxLines) /\ acked \subseteq 1 .. MaxLines
  /\ timedout \in BOOLEAN /\ relistened \in BOOLEAN

Leaving == rpc \in {"over", "wait", "closing"} \cup Exited

(* While the receiver runs, a line whose SEND succeeded has been shown or   *)
(* is in the buffer with its completion not yet polled; lines are shown in  *)
(* the order in which they were entered and never twice.  "listen" while    *)
(* connected posts a second receive on the same NCB and voids this          *)
(* (sessrecv.c:296, 366-396; sesssend.c:171).                               *)
LinesKept ==
  ~relistened =>
    /\ \A i, j \in 1 .. Len(displayed) : i < j => 0 < displayed[i] /\ displayed[i] < displayed[j]
    /\ ~Leaving => \A l \in acked :
         \/ \E i \in 1 .. Len(displayed) : displayed[i] = l
         \/ conn_flag = 1 /\ cmd_cplt = "success" /\ rbuffer = l

(* As long as it believes in the connection the receiver has a receive      *)
(* posted or a completion to look at: otherwise it would neither see a line *)
(* nor learn of the hang-up, and exit would wait for ever for cmd_cplt      *)
(* (sessrecv.c:181-190, 366-396, 420).                                      *)
RecvOutstanding ==
  conn_flag = 1 /\ rpc \notin Exited => recvs > 0 \/ cmd_cplt # PENDING

(* A session that has ended is noticed, whoever ended it and in whatever    *)
(* the receiver was doing (sessrecv.c:366-390).                             *)
EndNoticed == session = "down" /\ conn_flag = 1 ~> conn_flag = 0 \/ rpc \in Exited

(* Once it leaves, the receiver ends: the CANCEL, a line that arrives       *)
(* before it and the end of the session all complete the NCB it waits for   *)
(* (sessrecv.c:412-421).                                                    *)
ReceiverEnds == rpc = "over" ~> rpc \in Exited

(* Neither end of the conversation is left waiting for the other.           *)
EndsNoticed == EndNoticed /\ ReceiverEnds
=============================================================================
