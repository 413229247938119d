-------------------------------- MODULE PipeSend --------------------------------
(***************************************************************************)
(* cmps3620/code/lab6/pipesend.c: a parent ("S") writes the lines typed    *)
(* into a pipe from which its child ("R") shows them.  A period ends both: *)
(* under Unix by SIGTERM to the child, under Windows NT by a character     *)
(* with the eighth bit set; the parent waits for the child.                *)
(*                                                                         *)
(* A line is written in one piece.  Under Unix a child that is gone turns  *)
(* the next line into SIGPIPE, under NT into a result nobody looks at.     *)
(***************************************************************************)
EXTENDS Lines

VARIABLES
  term,         \* whom SIGTERM has been sent to: "nobody", "child", "all"
  asked         \* a period has been typed

pipeVars == <<term, asked>>

PipeInit == term = "nobody" /\ asked = FALSE

Pipe == scene.program = "pipe"
Unix == scene.build = "unix"

\* A character with the eighth bit set; NT's users may type one too.
SENTINEL == <<0, 1>>

\* fork() or spawnl(); the child runs.
StartChild ==
  /\ pc["S"] = "start" /\ pc["R"] = "start"
  /\ pc' = [s \in Sides |-> IF s = "S" THEN "type" ELSE "read"]
  /\ UNCHANGED <<scene, sent, wire, buf, shown, cut, pipeVars>>

\* spawnl() fails and the program ends; fork() fails and it goes on.
NoChild ==
  /\ pc["S"] = "start" /\ pc["R"] = "start"
  /\ pc' = [s \in Sides |-> IF s = "S" /\ Unix THEN "type" ELSE "ended"]
  /\ UNCHANGED <<scene, sent, wire, buf, shown, cut, pipeVars>>

\* The result of write() is not looked at.
WriteLine ==
  /\ pc["S"] = "type" /\ pc["R"] = "read" /\ More("S")
  /\ \/ \E len \in 0 .. MAX_LINE : Put("S", len)
     \/ /\ ~Unix
        /\ sent' = [sent EXCEPT !["S"] = Append(@, 1)]
        /\ wire' = [wire EXCEPT !["S"] = @ \o <<SENTINEL, NUL>>]
  /\ UNCHANGED <<scene, pc, buf, shown, cut, pipeVars>>

\* Nobody reads the pipe.
BrokenPipe ==
  /\ pc["S"] = "type" /\ pc["R"] = "ended" /\ Unix
  /\ Goto("S", "ended")
  /\ UNCHANGED <<scene, sent, wire, buf, shown, cut, pipeVars>>

Sentinel == <<SENTINEL>>

\* A period: kill(), whose target is everybody if fork() has failed; then the
\* pipe is closed and the child waited for.
Period ==
  /\ pc["S"] = "type"
  /\ Goto("S", "wait")
  /\ asked' = TRUE
  /\ IF Unix
     THEN /\ term' = IF pc["R"] = "ended" THEN "all" ELSE "child"
          /\ UNCHANGED wire
     ELSE /\ wire' = [wire EXCEPT !["S"] = IF pc["R"] = "read" THEN @ \o Sentinel ELSE @]
          /\ UNCHANGED term
  /\ UNCHANGED <<scene, sent, buf, shown, cut>>

Waited ==
  /\ pc["S"] = "wait" /\ (pc["R"] = "ended" \/ term = "all")
  /\ Goto("S", "ended")
  /\ UNCHANGED <<scene, sent, wire, buf, shown, cut, pipeVars>>

ChildEnds ==
  /\ Goto("R", "ended")
  /\ wire' = [wire EXCEPT !["S"] = <<>>]

\* SIGTERM: nice_exit(), before anything more is read.
NiceExit ==
  /\ Unix /\ pc["R"] = "read" /\ term = "child"
  /\ ChildEnds
  /\ UNCHANGED <<scene, sent, buf, shown, cut, pipeVars>>

\* The pipe holds what was written; a 0 is put one byte behind what was read.
Terminated(bytes, n) == [k \in DOMAIN bytes |-> IF k = n + 2 THEN NUL ELSE bytes[k]]

Lesser(m, n) == IF m <= n THEN m ELSE n

ChildReads ==
  /\ pc["R"] = "read" /\ wire["S"] # <<>> /\ term # "child"
  /\ LET n == Lesser(scene.size, Len(wire["S"]))
         piece == SubSeq(wire["S"], 1, n)
         after == Terminated(Over(buf["R"], piece), n)
     IN  IF ~Unix /\ SENTINEL \in ToSet(piece)
         THEN /\ ChildEnds
              /\ UNCHANGED <<buf, shown, cut>>
         ELSE /\ wire' = [wire EXCEPT !["S"] = SubSeq(@, n + 1, Len(@))]
              /\ buf' = [buf EXCEPT !["R"] = after]
              /\ shown' = [shown EXCEPT !["R"] = Append(@, Printed(after))]
              /\ cut' = (cut \/ piece[n] # NUL)
              /\ UNCHANGED pc
  /\ UNCHANGED <<scene, sent, pipeVars>>

Parent == WriteLine \/ BrokenPipe \/ Period \/ Waited
Child == NiceExit \/ ChildReads

PipeNext == Pipe /\ (StartChild \/ NoChild \/ Parent \/ Child)
=============================================================================
