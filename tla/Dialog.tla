-------------------------------- MODULE Dialog --------------------------------
(***************************************************************************)
(* One client of simple_daemon.c (lab 5): dialog_with_client(), the child  *)
(* that relays between the client's socket and two pipes, and              *)
(* simple_shell.c, the s_sh process at their other ends.                   *)
(*                                                                         *)
(*   client --inSock--> child --toShell--> s_sh                            *)
(*   client <--outSock-- child <--fromShell-- s_sh                         *)
(*                                                                         *)
(* Data is a sequence of units: a line of the client, an output of the     *)
(* shell.  Socket and pipes are byte streams, so one recv() or read()      *)
(* returns as many units as are there and fit its buffer.  Pipe writes are *)
(* shorter than PIPE_BUF: they block until all of it fits.  select()'s     *)
(* timeout only restarts its loop and is a stuttering step here.           *)
(***************************************************************************)
EXTENDS Naturals, Sequences

CONSTANTS
  RecvMax,       \* units that fit buf[2048] of the child
  ShellMax,      \* units that fit buf[512] of the shell
  ToShellCap,    \* capacity of pipe_to_shell
  FromShellCap,  \* capacity of pipe_from_shell
  SockCap,       \* capacity of the socket towards the client
  MaxSent        \* bound: lines the client sends

ASSUME SizesAssumption ==
  /\ {RecvMax, ShellMax, ToShellCap, FromShellCap, SockCap} \subseteq Nat \ {0}
  /\ MaxSent \in Nat
  /\ RecvMax <= ToShellCap /\ RecvMax <= SockCap

Lines   == {"quit", "other"}                \* exit is the same as quit
Outputs == {"greeting", "prompt", "answer", "goodbye", "cannot spawn"}

VARIABLES
  childPC,    \* the child
  buf,        \* the child's buf
  inSock,     \* received from the client, not yet read by the child
  outSock,    \* sent to the client, not yet read by it
  toShell, fromShell,
  sh,         \* the shell
  command,    \* the first word of what the shell has read
  client,     \* the client's end of the connection
  urgent,     \* out-of-band data has arrived
  sent,       \* history: every line the client sent
  got,        \* history: every line the shell read
  said,       \* history: every output of the shell
  seen        \* history: all the client has read

childVars == <<childPC, buf>>
pipes     == <<toShell, fromShell>>
shellVars == <<sh, command>>
history   == <<sent, got, said, seen>>
dialogVars == <<childVars, inSock, outSock, pipes, shellVars, client, urgent, history>>

ChildPCs == {"greet", "pipe", "fork", "select", "read", "send", "recv", "write",
             "finish", "gone"}

(* Type invariant: the values the variables may take. *)
DialogTypeOK ==
  /\ childPC \in ChildPCs
  /\ buf \in Seq(Lines) \cup Seq(Outputs)
  /\ inSock \in Seq(Lines) /\ outSock \in Seq(Outputs)
  /\ toShell \in Seq(Lines) /\ fromShell \in Seq(Outputs)
  /\ Len(toShell) <= ToShellCap /\ Len(fromShell) <= FromShellCap
  /\ Len(outSock) <= SockCap
  /\ sh \in {"none", "exec", "prompt", "read", "answer", "gone"}
  /\ command \in Lines \cup {""}
  /\ client \in {"open", "closed", "reset"}
  /\ urgent \in BOOLEAN
  /\ sent \in Seq(Lines) /\ got \in Seq(Lines)
  /\ said \in Seq(Outputs) /\ seen \in Seq(Outputs)

DialogInit ==
  /\ childPC = "greet" /\ buf = <<>>
  /\ inSock = <<>> /\ outSock = <<>>
  /\ toShell = <<>> /\ fromShell = <<>>
  /\ sh = "none" /\ command = ""
  /\ client = "open" /\ urgent = FALSE
  /\ sent = <<>> /\ got = <<>> /\ said = <<>> /\ seen = <<>>

(* What one read of at most n units returns, and what it leaves. *)
First(s, n) == SubSeq(s, 1, IF Len(s) < n THEN Len(s) ELSE n)
After(s, n) == SubSeq(s, n + 1, Len(s))

-----------------------------------------------------------------------------
(* dialog_with_client()                                                     *)

Greet ==
  /\ childPC = "greet"
  /\ outSock' = IF client = "open" THEN Append(outSock, "greeting") ELSE outSock
  /\ childPC' = "pipe"
  /\ UNCHANGED <<buf, inSock, pipes, shellVars, client, urgent, history>>

(* Either pipe() may fail. *)
MakePipes ==
  /\ childPC = "pipe"
  /\ childPC' \in {"fork", "finish"}
  /\ UNCHANGED <<buf, inSock, outSock, pipes, shellVars, client, urgent, history>>

ForkShell ==
  /\ childPC = "fork"
  /\ \/ childPC' = "select" /\ sh' = "exec"
     \/ childPC' = "finish" /\ UNCHANGED sh
  /\ UNCHANGED <<buf, inSock, outSock, pipes, command, client, urgent, history>>

(* The tests select()'s answer is put to, in the order of the code.  A pipe *)
(* or a socket without data is readable once its writer has gone.           *)
PipeHasData    == fromShell # <<>>
PipeReadable   == PipeHasData \/ sh = "gone"
SocketHasData  == inSock # <<>>
SocketReadable == SocketHasData \/ client # "open"
SocketAnyhow   == SocketReadable
SocketOnly     == ~PipeReadable /\ SocketReadable

(* write() and send() pass all of buf on, when there is room. *)
RoomInPipe  == Len(toShell) + Len(buf) <= ToShellCap
FirstOfBuf(pipe) == Append(pipe, buf[1])
AllToShell(pipe) == pipe \o buf
AllToClient(out) == out \o buf

Select ==
  /\ childPC = "select"
  /\ \/ urgent /\ childPC' = "finish"
     \/ ~urgent /\ PipeReadable /\ childPC' = "read"
     \/ ~urgent /\ SocketOnly /\ childPC' = "recv"
  /\ UNCHANGED <<buf, inSock, outSock, pipes, shellVars, client, urgent, history>>

ReadPipe ==
  /\ childPC = "read"
  /\ buf' = First(fromShell, RecvMax)
  /\ fromShell' = After(fromShell, Len(buf'))
  /\ childPC' = IF buf' = <<>> THEN "finish" ELSE "send"
  /\ UNCHANGED <<inSock, outSock, toShell, shellVars, client, urgent, history>>

(* send() blocks while the client does not read.  To a client that has      *)
(* closed, the first send() goes nowhere and is answered by a reset.        *)
Send ==
  /\ childPC = "send" /\ client # "reset"
  /\ IF client = "open"
     THEN /\ Len(outSock) + Len(buf) <= SockCap
          /\ outSock' = AllToClient(outSock)
          /\ UNCHANGED client
     ELSE client' = "reset" /\ UNCHANGED outSock
  /\ buf' = <<>>
  /\ childPC' = "select"
  /\ UNCHANGED <<inSock, pipes, shellVars, urgent, history>>

RecvSocket ==
  /\ childPC = "recv"
  /\ buf' = IF client = "reset" THEN <<>> ELSE First(inSock, RecvMax)
  /\ inSock' = After(inSock, Len(buf'))
  /\ childPC' = IF buf' = <<>> THEN "finish" ELSE "write"
  /\ UNCHANGED <<outSock, pipes, shellVars, client, urgent, history>>

WriteShell ==
  /\ childPC = "write" /\ sh # "gone"
  /\ RoomInPipe
  /\ toShell' = AllToShell(toShell)
  /\ buf' = <<>>
  /\ childPC' = "select"
  /\ UNCHANGED <<inSock, outSock, fromShell, shellVars, client, urgent, history>>

(* A write to a reset connection, or to the pipe of a shell that has gone,  *)
(* raises SIGPIPE, which is not caught.                                     *)
BrokenPipe == \/ childPC = "send" /\ client = "reset"
              \/ childPC = "write" /\ sh = "gone"

(* The child's descriptors close when it ends: at finish:, killed by        *)
(* SIGPIPE, or in kill_child().                                             *)
Ends ==
  /\ childPC' = "gone" /\ buf' = <<>>
  /\ UNCHANGED <<inSock, outSock, pipes, shellVars, client, urgent, history>>

FinishDialog    == childPC = "finish" /\ Ends
Killed    == BrokenPipe /\ Ends
KillChild == childPC # "gone" /\ Ends

RelayStep == \/ Greet \/ MakePipes \/ ForkShell \/ Select \/ ReadPipe \/ Send
         \/ RecvSocket \/ WriteShell \/ FinishDialog \/ Killed

-----------------------------------------------------------------------------
(* s_sh                                                                     *)

(* execle() succeeds, or the process reports the failure on its standard    *)
(* output, which is the pipe by now, and exits.                             *)
Exec ==
  /\ sh = "exec"
  /\ \/ sh' = "prompt" /\ UNCHANGED <<fromShell, said>>
     \/ /\ sh' = "gone"
        /\ IF childPC # "gone"
           THEN /\ fromShell' = Append(fromShell, "cannot spawn")
                /\ said' = Append(said, "cannot spawn")
           ELSE UNCHANGED <<fromShell, said>>
  /\ UNCHANGED <<childVars, inSock, outSock, toShell, command, client, urgent,
                 sent, got, seen>>

(* One flushed output: it waits for room, or dies of SIGPIPE when the child *)
(* is no longer there to read.                                              *)
Say(out, next) ==
  IF childPC = "gone"
  THEN sh' = "gone" /\ UNCHANGED <<fromShell, said>>
  ELSE /\ Len(fromShell) < FromShellCap
       /\ fromShell' = Append(fromShell, out)
       /\ said' = Append(said, out)
       /\ sh' = next

Prompt ==
  /\ sh = "prompt"
  /\ Say("prompt", "read")
  /\ UNCHANGED <<childVars, inSock, outSock, toShell, command, client, urgent,
                 sent, got, seen>>

(* The shell looks at the first word of what it has read and forgets the    *)
(* rest; an end of file looks like an empty command.                        *)
ReadCommand ==
  /\ sh = "read" /\ (toShell # <<>> \/ childPC = "gone")
  /\ LET line == First(toShell, ShellMax) IN
       /\ command' = IF line = <<>> THEN "" ELSE line[1]
       /\ toShell' = After(toShell, Len(line))
       /\ got' = got \o line
  /\ sh' = "answer"
  /\ UNCHANGED <<childVars, inSock, outSock, fromShell, client, urgent, sent,
                 said, seen>>

Answer ==
  /\ sh = "answer"
  /\ IF command = "quit" THEN Say("goodbye", "gone") ELSE Say("answer", "prompt")
  /\ UNCHANGED <<childVars, inSock, outSock, toShell, command, client, urgent,
                 sent, got, seen>>

ShellStep == Exec \/ Prompt \/ ReadCommand \/ Answer

-----------------------------------------------------------------------------
(* The client                                                               *)

Type(line) ==
  /\ client = "open" /\ childPC # "gone" /\ Len(sent) < MaxSent
  /\ inSock' = Append(inSock, line)
  /\ sent' = Append(sent, line)
  /\ UNCHANGED <<childVars, outSock, pipes, shellVars, client, urgent, got,
                 said, seen>>

Look ==
  /\ client = "open" /\ outSock # <<>>
  /\ seen' = seen \o outSock
  /\ outSock' = <<>>
  /\ UNCHANGED <<childVars, inSock, pipes, shellVars, client, urgent, sent, got,
                 said>>

(* A client that closes with output unread resets the connection. *)
Close ==
  /\ client = "open"
  /\ client' = IF outSock = <<>> THEN "closed" ELSE "reset"
  /\ outSock' = <<>>
  /\ UNCHANGED <<childVars, inSock, pipes, shellVars, urgent, history>>

(* CTRL-C in telnet sends urgent data. *)
Interrupt ==
  /\ client = "open" /\ ~urgent /\ childPC # "gone"
  /\ urgent' = TRUE
  /\ UNCHANGED <<childVars, inSock, outSock, pipes, shellVars, client, history>>

Client == (\E line \in Lines : Type(line)) \/ Look \/ Close \/ Interrupt

DialogNext == RelayStep \/ KillChild \/ ShellStep \/ Client

DialogSpec == DialogInit /\ [][DialogNext]_dialogVars

(* The processes run; a client reads what arrives.  It need not type or     *)
(* close, and nobody need send a signal.                                    *)
DialogFairSpec == DialogSpec /\ WF_dialogVars(RelayStep) /\ WF_dialogVars(ShellStep) /\ WF_dialogVars(Look)

-----------------------------------------------------------------------------
(* What the relay promises.                                                 *)

Relaying == childPC # "gone" /\ client # "reset"
InBuf    == IF childPC = "write" THEN buf ELSE <<>>
OutBuf   == IF childPC = "send" THEN buf ELSE <<>>
Greeting == IF childPC = "greet" THEN <<>> ELSE <<"greeting">>

(* Inward nothing is lost, doubled or reordered: what the shell has read,   *)
(* the pipe, the child's buffer and the socket together are what was typed. *)
InwardInOrder ==
  Relaying => got \o toShell \o InBuf \o inSock = sent

(* Outward the same, behind the greeting, for a client that stays.          *)
OutwardInOrder ==
  Relaying /\ client = "open" =>
    seen \o outSock \o OutBuf \o fromShell = Greeting \o said

(* The relay, in every state: within its buffers, and nothing lost, added   *)
(* or out of order in either direction, wherever the reads, the writes and  *)
(* the two sides' turns cut it (simple_daemon.c:390-474).                   *)
RelayedInOrder == DialogTypeOK /\ InwardInOrder /\ OutwardInOrder

(* The child is never stuck writing to a shell that is stuck writing to it. *)
ChildBlocked == /\ childPC = "write" /\ sh # "gone"
                /\ Len(toShell) + Len(buf) > ToShellCap
ShellBlocked == sh \in {"prompt", "answer"} /\ Len(fromShell) >= FromShellCap
NoMutualBlock == ~(ChildBlocked /\ ShellBlocked)

(* The end of one is the end of the others: a client that leaves ends its   *)
(* child, a shell that has read quit ends the connection, and no shell      *)
(* outlives its child, though the end of file on its input only looks like  *)
(* an empty command to it.                                                  *)
OneEndEndsAll ==
  /\ client # "open" ~> childPC = "gone"
  /\ sh = "answer" /\ command = "quit" ~> childPC = "gone"
  /\ childPC = "gone" ~> sh \in {"none", "gone"}
=============================================================================
