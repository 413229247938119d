------------------------------ MODULE ShellDaemon ------------------------------
(***************************************************************************)
(* cmps3620/code/lab6/s_daemon.c, dialog_with_telnet() after "Ready" and   *)
(* pipe_to_socket(): each caller gets a shell behind two pipes.  Under     *)
(* Unix one select() serves the socket and the shell's pipe, and the       *)
(* shell's death is a SIGCLD; under NT a second thread carries the shell's *)
(* output.  The shell (s_sh.c, in CmdLine and Shell) reads and prints.     *)
(*                                                                         *)
(* A pipe never fills (Dialog has that); pieces of output have numbers.    *)
(* Children of the shell, which inherit its ends of the pipes, are part of *)
(* it.                                                                     *)
(***************************************************************************)
EXTENDS LineDaemon

VARIABLES
  shell,        \* "none", "runs", "exited"
  tosh,         \* bytes in the pipe to the shell
  written,      \* history: all that was written into it
  produced,     \* pieces of output the shell has written
  fromsh,       \* those in its pipe
  held,         \* those between read() and send()
  relayed,      \* history: those sent to the caller
  cut,          \* history: a send() fell short and the session went on
  ends,         \* who has which ends of the two pipes
  shcld,        \* SIGCLD is pending in the session
  buf,          \* bytes between recv() and write()
  helper,       \* pipe_to_socket(): "none", "read", "send", "gone"
  cause         \* why the session ends

pipeVars == <<tosh, written, produced, fromsh, held, relayed, cut>>
shellVars == <<shell, pipeVars, ends, shcld, buf, helper, cause>>

\* pipe_tosh[0], pipe_tosh[1] and pipe_fromsh[1].
Ends == {"readers", "writers", "printers"}

ShellInit ==
  /\ shell = [t \in Conns |-> "none"]
  /\ tosh = [t \in Conns |-> <<>>]
  /\ written = [t \in Conns |-> <<>>]
  /\ produced = [t \in Conns |-> 0]
  /\ fromsh = [t \in Conns |-> <<>>]
  /\ held = [t \in Conns |-> <<>>]
  /\ relayed = [t \in Conns |-> <<>>]
  /\ cut = [t \in Conns |-> FALSE]
  /\ ends = [t \in Conns |-> [e \in Ends |-> {}]]
  /\ shcld = [t \in Conns |-> FALSE]
  /\ buf = [t \in Conns |-> <<>>]
  /\ helper = [t \in Conns |-> "none"]
  /\ cause = [t \in Conns |-> "none"]

Goto(t, where) ==
  /\ task' = [task EXCEPT ![t].pc = where]
  /\ UNCHANGED <<scene, mainVars, holders, sigcld>>

Quits(t, why) ==
  /\ Goto(t, "finish")
  /\ cause' = [cause EXCEPT ![t] = why]

------------------------------------------------------------------------------
(* dialog_with_telnet()                                                     *)

MakePipes(t) ==
  /\ task[t].pc = "pipes"
  /\ ends' = [ends EXCEPT ![t] = [e \in Ends |-> {Proc(t)}]]
  /\ Goto(t, "spawn")
  /\ UNCHANGED <<callVars, shell, pipeVars, shcld, buf, helper, cause>>

\* pipe() fails, or fork().
NoShell(t) ==
  /\ task[t].pc = "pipes" \/ (Unix /\ task[t].pc = "spawn")
  /\ Quits(t, "no shell")
  /\ UNCHANGED <<callVars, shell, pipeVars, ends, shcld, buf, helper>>

\* Mutant of Keeps: the shell of Unix does not close pipe_tosh[1].
KeepsAll(e) == TRUE

\* What a shell does not close: under NT it does not know what it was given.
Keeps(e) == NT \/ e # "writers"

\* A shell gets the pipes its process has open: under NT those of all threads.
PassedOn(t) ==
  [u \in Conns |->
    [e \in Ends |-> IF (NT \/ u = t) /\ Proc(u) \in ends[u][e] /\ Keeps(e)
                    THEN ends[u][e] \cup {ShellOf(t)} ELSE ends[u][e]]]

Spawn(t) ==
  /\ task[t].pc = "spawn"
  /\ shell' = [shell EXCEPT ![t] = "runs"]
  /\ ends' = PassedOn(t)
  /\ holders' = Inherited(Owner(t), ShellOf(t))
  /\ UNCHANGED <<scene, mainVars, sigcld, callVars, pipeVars, shcld, buf>>

\* The shell, which inherits all descriptors, and, under NT, the second thread.
StartShell(t) ==
  /\ Spawn(t)
  /\ task' = [task EXCEPT ![t].pc = "close"]
  /\ helper' = [helper EXCEPT ![t] = IF NT THEN "read" ELSE "none"]
  /\ UNCHANGED cause

\* _beginthread() fails: nobody reads what the shell prints.
NoHelper(t) ==
  /\ NT /\ Spawn(t)
  /\ task' = [task EXCEPT ![t].pc = "finish"]
  /\ cause' = [cause EXCEPT ![t] = "no shell"]
  /\ UNCHANGED helper

ClosePipes(t) ==
  /\ task[t].pc = "close"
  /\ ends' = [ends EXCEPT ![t]["readers"] = @ \ {Proc(t)},
                          ![t]["printers"] = @ \ {Proc(t)}]
  /\ Goto(t, "select")
  /\ UNCHANGED <<callVars, shell, pipeVars, shcld, buf, helper, cause>>

\* select() times out, reports an exception, or has a closed socket.
SelectEnds(t) ==
  /\ task[t].pc = "select"
  /\ Quits(t, "select")
  /\ UNCHANGED <<callVars, shell, pipeVars, ends, shcld, buf, helper>>

SocketReady(t) ==
  Open(t) /\ (hungup[task[t].msock] \/ Arrived(task[t].msock) # <<>>)

\* Mutant of Edited: the two bytes are written the wrong way round.
EditedSwapped(bytes, i) ==
  [k \in DOMAIN bytes |-> IF k = i THEN "nul" ELSE IF k = i + 1 THEN "lf" ELSE bytes[k]]

Edited(bytes, i) ==
  [k \in DOMAIN bytes |-> IF k = i THEN "lf" ELSE IF k = i + 1 THEN "nul" ELSE bytes[k]]

\* The first end of line becomes '\n', the byte behind it '\0'.
EndLine(bytes) ==
  LET eols == {k \in DOMAIN bytes : bytes[k] \in {"cr", "lf"}}
  IN  IF eols = {} THEN bytes
      ELSE Edited(bytes, CHOOSE i \in eols : \A k \in eols : i <= k)

\* Bytes arrive, in pieces as TCP cuts them.
Recv(t) ==
  /\ task[t].pc = "select" /\ Open(t)
  /\ LET c == task[t].msock
     IN  \E n \in 1 .. Len(Arrived(c)) :
           /\ taken' = [taken EXCEPT ![c] = @ + n]
           /\ buf' = [buf EXCEPT ![t] = EndLine(SubSeq(Arrived(c), 1, n))]
  /\ Goto(t, "write")
  /\ UNCHANGED <<sent, hungup, shell, pipeVars, ends, shcld, helper, cause>>

RecvEnd(t) ==
  /\ task[t].pc = "select" /\ SocketReady(t) /\ Arrived(task[t].msock) = <<>>
  /\ Quits(t, "socket")
  /\ UNCHANGED <<callVars, shell, pipeVars, ends, shcld, buf, helper>>

WriteShell(t) ==
  /\ task[t].pc = "write" /\ ends[t]["readers"] # {}
  /\ tosh' = [tosh EXCEPT ![t] = @ \o buf[t]]
  /\ written' = [written EXCEPT ![t] = @ \o buf[t]]
  /\ Goto(t, "select")
  /\ UNCHANGED <<callVars, shell, produced, fromsh, held, relayed, cut, ends, shcld, buf,
                 helper, cause>>

\* A session closes its ends of the pipes; a process loses what it has left.
SessionDies(t) ==
  /\ Finish(t)
  /\ ends' = [ends EXCEPT ![t] = [e \in Ends |-> IF Unix \/ e = "writers"
                                                 THEN @[e] \ {Proc(t)} ELSE @[e]]]

\* Nobody reads the pipe: SIGPIPE ends a process, write() fails in a thread.
WriteFails(t) ==
  /\ task[t].pc = "write" /\ ends[t]["readers"] = {}
  /\ IF Unix THEN SessionDies(t) /\ cause' = [cause EXCEPT ![t] = "pipe"]
     ELSE Quits(t, "pipe") /\ UNCHANGED ends
  /\ UNCHANGED <<callVars, shell, pipeVars, shcld, buf, helper>>

\* read() returns some of what the pipe has.
Draw(t) ==
  /\ \E n \in 1 .. Len(fromsh[t]) :
       /\ held' = [held EXCEPT ![t] = SubSeq(fromsh[t], 1, n)]
       /\ fromsh' = [fromsh EXCEPT ![t] = SubSeq(@, n + 1, Len(@))]
  /\ UNCHANGED <<tosh, written, produced, relayed, cut>>

\* Unix: output of the shell is read when the socket has nothing.
ReadShell(t) ==
  /\ Unix /\ task[t].pc = "select" /\ ~SocketReady(t)
  /\ Draw(t)
  /\ Goto(t, "send")
  /\ UNCHANGED <<callVars, shell, ends, shcld, buf, helper, cause>>

\* Mutant of ShellOver: the pipe is not looked at.
ShellOverSoon(t) == ends[t]["printers"] = {}

\* End of file: the pipe is empty and nobody can write to it.
ShellOver(t) == ends[t]["printers"] = {} /\ fromsh[t] = <<>>

ReadShellEnd(t) ==
  /\ Unix /\ task[t].pc = "select" /\ ~SocketReady(t) /\ ShellOver(t)
  /\ Quits(t, "eof")
  /\ UNCHANGED <<callVars, shell, pipeVars, ends, shcld, buf, helper>>

\* send() takes the first n pieces; the rest, if any, is dropped with buf.
Passes(t, n) ==
  /\ relayed' = [relayed EXCEPT ![t] = @ \o SubSeq(held[t], 1, n)]
  /\ held' = [held EXCEPT ![t] = <<>>]
  /\ UNCHANGED <<tosh, written, produced, fromsh>>

SendCaller(t) ==
  /\ task[t].pc = "send"
  /\ Passes(t, Len(held[t])) /\ UNCHANGED cut
  /\ Goto(t, "select")
  /\ UNCHANGED <<callVars, shell, ends, shcld, buf, helper, cause>>

\* The result of send() is not looked at: the shell's SIGCLD has cut it short,
\* or the caller's host has reset the connection.
SendShort(t) ==
  /\ task[t].pc = "send"
  /\ \/ shcld[t] /\ shcld' = [shcld EXCEPT ![t] = FALSE]
     \/ hungup[task[t].msock] /\ UNCHANGED shcld
  /\ \E n \in 0 .. Len(held[t]) - 1 : Passes(t, n)
  /\ cut' = [cut EXCEPT ![t] = TRUE]
  /\ Goto(t, "select")
  /\ UNCHANGED <<callVars, shell, ends, buf, helper, cause>>

\* The caller has left and its host has said so: SIGPIPE.
SendFails(t) ==
  /\ task[t].pc = "send" /\ hungup[task[t].msock]
  /\ SessionDies(t)
  /\ cause' = [cause EXCEPT ![t] = "socket"]
  /\ UNCHANGED <<callVars, shell, pipeVars, shcld, buf, helper>>

\* The session inherits offspring_terminate(): the shell is waited for, and a
\* select() that was going on fails with EINTR.
ShellDied(t) ==
  /\ Live(t) /\ shcld[t]
  /\ shcld' = [shcld EXCEPT ![t] = FALSE]
  /\ IF task[t].pc = "select" THEN Quits(t, "signal")
     ELSE UNCHANGED <<cause, offspringVars>>
  /\ UNCHANGED <<callVars, shell, pipeVars, ends, buf, helper>>

FinishSession(t) ==
  /\ task[t].pc = "finish"
  /\ SessionDies(t)
  /\ UNCHANGED <<callVars, shell, pipeVars, shcld, buf, helper, cause>>

\* SIGTERM ends the session, not its shell.
SessionTold(t) ==
  /\ Told(t)
  /\ ends' = [ends EXCEPT ![t] = [e \in Ends |-> @[e] \ {Proc(t)}]]
  /\ cause' = [cause EXCEPT ![t] = "told"]
  /\ UNCHANGED <<callVars, shell, pipeVars, shcld, buf, helper>>

------------------------------------------------------------------------------
(* pipe_to_socket(), NT                                                     *)

HelperGoes(t) ==
  /\ helper' = [helper EXCEPT ![t] = "gone"]
  /\ holders' = [holders EXCEPT ![task[t].msock] = @ \ {Main}]
  /\ UNCHANGED <<scene, mainVars, task, sigcld>>

HelperReads(t) ==
  /\ helper[t] = "read" /\ Live(t)
  /\ Draw(t)
  /\ helper' = [helper EXCEPT ![t] = "send"]
  /\ UNCHANGED <<offspringVars, callVars, shell, ends, shcld, buf, cause>>

\* The shell is gone, or the session has closed the pipe.
HelperReadsEnd(t) ==
  /\ helper[t] = "read" /\ (ShellOver(t) \/ ~Live(t)) /\ pc # "exited"
  /\ HelperGoes(t)
  /\ cause' = [cause EXCEPT ![t] = IF Live(t) /\ @ = "none" THEN "eof" ELSE @]
  /\ UNCHANGED <<callVars, shell, pipeVars, ends, shcld, buf>>

HelperSends(t) ==
  /\ helper[t] = "send" /\ Open(t) /\ pc # "exited"
  /\ helper' = [helper EXCEPT ![t] = "read"]
  /\ Passes(t, Len(held[t])) /\ UNCHANGED cut
  /\ UNCHANGED <<offspringVars, callVars, shell, ends, shcld, buf, cause>>

\* The socket has been closed, or the caller has left.
HelperSendFails(t) ==
  /\ helper[t] = "send" /\ (~Open(t) \/ hungup[task[t].msock]) /\ pc # "exited"
  /\ HelperGoes(t)
  /\ UNCHANGED <<callVars, shell, pipeVars, ends, shcld, buf, cause>>

------------------------------------------------------------------------------
(* The shell, as the session sees it                                        *)

ShellReads(t) ==
  /\ shell[t] = "runs" /\ tosh[t] # <<>>
  /\ tosh' = [tosh EXCEPT ![t] = Tail(@)]
  /\ UNCHANGED <<offspringVars, callVars, shell, written, produced, fromsh, held, relayed,
                 cut, ends, shcld, buf, helper, cause>>

\* A prompt, an echo, or the output of a command.
ShellPrints(t) ==
  /\ shell[t] = "runs" /\ produced[t] < scene.out
  /\ produced' = [produced EXCEPT ![t] = @ + 1]
  /\ fromsh' = [fromsh EXCEPT ![t] = Append(@, produced[t] + 1)]
  /\ UNCHANGED <<offspringVars, callVars, shell, tosh, written, held, relayed, cut, ends,
                 shcld, buf, helper, cause>>

ShellGoes(t) ==
  /\ shell' = [shell EXCEPT ![t] = "exited"]
  /\ ends' = [u \in Conns |-> [e \in Ends |-> ends[u][e] \ {ShellOf(t)}]]
  /\ holders' = [c \in Conns |-> holders[c] \ {ShellOf(t)}]
  /\ shcld' = [shcld EXCEPT ![t] = Unix /\ Live(t)]
  /\ UNCHANGED <<scene, mainVars, task, sigcld, callVars, pipeVars, buf, helper, cause>>

\* "exit", an error, or no s_sh to execute.
ShellExits(t) == shell[t] = "runs" /\ ShellGoes(t)

\* End of file: s_sh exits when nobody can write to it any more.
ShellSeesEnd(t) ==
  /\ shell[t] = "runs" /\ tosh[t] = <<>> /\ ends[t]["writers"] = {} /\ ShellGoes(t)

SessionNext(t) ==
  \/ MakePipes(t) \/ NoShell(t) \/ StartShell(t) \/ NoHelper(t) \/ ClosePipes(t)
  \/ Recv(t) \/ RecvEnd(t) \/ WriteShell(t) \/ WriteFails(t)
  \/ ReadShell(t) \/ ReadShellEnd(t) \/ SendCaller(t) \/ SendShort(t) \/ SendFails(t)
  \/ ShellDied(t) \/ FinishSession(t)
  \/ HelperReads(t) \/ HelperReadsEnd(t) \/ HelperSends(t) \/ HelperSendFails(t)
=============================================================================
