------------------------------ MODULE LineTransfer ------------------------------
(***************************************************************************)
(* The programs that carry typed lines from one process to another:        *)
(* Transfer over TCP, PipeSend through a pipe.                             *)
(***************************************************************************)
EXTENDS Transfer, PipeSend

vars == <<lineVars, tcpVars, pipeVars>>

Init == LinesInit /\ TCPInit /\ PipeInit
Next ==
  \/ TCPNext /\ UNCHANGED pipeVars
  \/ PipeNext /\ UNCHANGED tcpVars
Spec == Init /\ [][Next]_vars

\* Programs go on and resets arrive; nobody need type anything.
FairSpec ==
  /\ Spec
  /\ WF_vars(TCP /\ SenderRuns /\ UNCHANGED pipeVars)
  /\ WF_vars(TCP /\ ReceiverRuns /\ UNCHANGED pipeVars)
  /\ \A s \in Sides : WF_vars(TCP /\ ResetArrives(s) /\ UNCHANGED pipeVars)
  /\ WF_vars(Pipe /\ Waited /\ UNCHANGED tcpVars)
  /\ WF_vars(Pipe /\ Child /\ UNCHANGED tcpVars)

------------------------------------------------------------------------------
(* Properties                                                               *)

\* Types; the end of the bytes of a side follows, in whatever form, exactly
\* when it has left.
TypeOK ==
  /\ pc["S"] \in {"start", "watch", "hand", "type", "reply", "wait", "ended"}
  /\ pc["R"] \in {"start", "accept", "watch", "greet", "recv", "type", "read", "ended"}
  /\ \A s \in Sides :
       /\ Len(sent[s]) <= scene.lines
       /\ \A k \in DOMAIN sent[s] : sent[s][k] \in 0 .. MAX_LINE
       /\ last[s] \in {"open", "fin", "rst", "dead"}
       /\ last[s] # "open" <=> TCP /\ made /\ Left(s)
       /\ stray[s] => Left(Other(s))
       /\ pc[s] = "reply" => TwoWay
  /\ term # "nobody" => asked

\* What is printed as received is a run of characters of one line that the
\* other side sent, never the rest of an older one still in the buffer, and
\* runs appear in the order they were sent (vcrec.c's bzero() before recv(),
\* the NUL that pipesend.c writes with each line).
Run(t, s) ==
  \E k \in DOMAIN sent[s] : \E a \in 1 .. Len(t) + sent[s][k] :
    /\ a + Len(t) - 1 <= sent[s][k]
    /\ t = [j \in 1 .. Len(t) |-> <<k, a + j - 1>>]
Before(b, c) == b[1] < c[1] \/ (b[1] = c[1] /\ b[2] < c[2])
RunsInOrder ==
  \A s \in Sides : \A i \in DOMAIN shown[s] :
    LET t == shown[s][i]
    IN  t # <<>> =>
          /\ Run(t, Other(s))
          /\ \A h \in 1 .. i - 1 : shown[s][h] # <<>> => Before(Last(shown[s][h]), t[1])

\* The same, and the ends of the bytes in their place.
LinesInOrder == TypeOK /\ RunsInOrder

\* In the programs that answer, as long as every recv() has ended with a whole
\* line, every line is shown whole and once and in turn: each side has shown
\* all the other has sent but for the one on its way (solutions/lab4
\* vcsend.c:156-213, vcrec.c:244-298).  TCP may cut a line; then the answer
\* to its first part lets a second line join the rest, and is lost.
ShownAll(s) ==
  LET n == Len(shown[s])
  IN  /\ n <= Len(sent[Other(s)]) /\ Len(sent[Other(s)]) <= n + 1
      /\ \A k \in 1 .. n : shown[s][k] = Text(k, sent[Other(s)][k])
WholeLinesInTurn ==
  TwoWay /\ ~cut /\ (\A s \in Sides : ~Left(s)) =>
    /\ \A s \in Sides : ShownAll(s)
    /\ Len(sent["S"]) \in {Len(sent["R"]), Len(sent["R"]) + 1}

\* The two sides never wait for each other: not in the handshake, not in the
\* exchange, however TCP cuts it, and not the parent of pipesend for a child
\* that nobody has told (vcsend.c:198, vcrec.c:240-250, pipesend.c:308-329).
NoMutualWait ==
  /\ ~ /\ pc["S"] \in {"hand", "reply"} /\ wire["R"] = <<>> /\ last["R"] = "open"
       /\ pc["R"] = "recv" /\ wire["S"] = <<>> /\ last["S"] = "open"
  /\ ~ /\ pc["S"] = "wait" /\ pc["R"] = "read" /\ wire["S"] = <<>> /\ term = "nobody"

\* When one side of a connection has ended the other ends too, or is asked for
\* a line and never given one: however often its loop goes round with a closed
\* connection, it ends if its user goes on typing, and no side waits in recv()
\* for one that has left.  A receiver that asks for nothing ends by itself.  In
\* pipesend a period ends parent and child.  (vcsend.c:215-217 of
\* solutions/lab4 says that closing the socket will cause vcrec "to close its
\* sockets and exit"; vcrec.c:255-288 asks for a line first, and forgets that
\* recv() returned 0 when the line has been sent.)
AtPrompt(s) == pc[s] = "type"
EndsFollow ==
  /\ \A s \in Sides : made /\ Left(s) ~> Left(Other(s)) \/ []AtPrompt(Other(s))
  /\ asked ~> \A s \in Sides : Left(s)
=============================================================================
