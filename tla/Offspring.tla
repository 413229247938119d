------------------------------ MODULE Offspring ------------------------------
(***************************************************************************)
(* What cmps3620/code/lab6/daemon.c and s_daemon.c have in common, line    *)
(* for line: main() accepts connections and starts an offspring for each,  *)
(* a process under Unix, a thread under Windows NT; offspring[] lists      *)
(* them; SIGCLD and a request to terminate interrupt main(); the offspring *)
(* copies its arguments, sets its handlers and says that it is ready.      *)
(* LineDaemon and ShellDaemon say what it does then.                       *)
(*                                                                         *)
(* Under Unix an offspring has copies of the table, of its arguments and   *)
(* of every descriptor that main() has open; under NT arglist is the same  *)
(* for all threads, and any of them closes a socket for all.  An           *)
(* offspring, its process id and its connection have one number, the order *)
(* of accept().  Log files and pauses are left out.                        *)
(***************************************************************************)
EXTENDS Integers, FiniteSets, SequencesExt

CONSTANTS
  MAX_CHILDREN,
  Scenarios     \* records [program, build, callers, bytes, out, stop]: the
                \* program, its build, how many callers come and what each
                \* may send, what a shell may print, and whether the daemon
                \* is asked to terminate

VARIABLES
  scene,        \* the scenario
  pc,           \* main(): "listen", "start", "record", "socket", "exited"
  cur,          \* the connection accepted last, msgsock
  slot,         \* the row chosen for it
  offspring,    \* [opid, thread, msock] in each row
  threadnum,    \* number of the next thread (NT)
  arglist,      \* arguments of the next offspring
  task,         \* offspring: [pc, msock, num, told, sibs]
  holders,      \* who has an open descriptor of each connection
  sigcld,       \* SIGCLD is pending in main()
  term          \* parent_terminate(): "no", "tell", "wait"; [at, i]

mainVars == <<pc, cur, slot, offspring, threadnum, arglist, term>>
offspringVars == <<scene, mainVars, task, holders, sigcld>>

\* Some scenario has the most callers.
ASSUME OffspringAssumption ==
  /\ MAX_CHILDREN \in Nat \ {0}
  /\ \A s \in Scenarios : s.build \in {"unix", "nt"} /\ s.callers \in Nat
  /\ \E s \in Scenarios : \A r \in Scenarios : r.callers <= s.callers

Unix == scene.build = "unix"
NT   == scene.build = "nt"
Conns == 1 .. LET s == CHOOSE s \in Scenarios : \A r \in Scenarios : r.callers <= s.callers
              IN  s.callers
Rows == 1 .. MAX_CHILDREN

Free == [opid |-> 0, thread |-> 0, msock |-> -1]
ParentPid == -1                   \* getpid() of main(); no offspring has it
Used(i) == offspring[i].opid # 0

Ended == {"none", "zombie", "reaped", "unlisted", "gone"}
Live(t) == task[t].pc \notin Ended
Serving(t) == Live(t) /\ task[t].pc \notin {"start", "copied", "handled"}

Init ==
  /\ scene \in Scenarios
  /\ pc = "listen" /\ cur = 0 /\ slot = 1
  /\ offspring = [i \in Rows |-> Free]
  /\ threadnum = 1
  /\ arglist = [msock |-> 0, num |-> 0]
  /\ task = [t \in Conns |-> [pc |-> "none", msock |-> 0, num |-> 0,
                              told |-> FALSE, sibs |-> {}]]
  /\ holders = [c \in Conns |-> {}]
  /\ sigcld = FALSE
  /\ term = [at |-> "no", i |-> 1]

------------------------------------------------------------------------------
(* main()                                                                   *)

\* Who may hold a descriptor: main(), an offspring, its shell.  Threads use
\* those of main()'s process.
Main == <<"main", 0>>
Proc(t) == <<"task", t>>
ShellOf(t) == <<"shell", t>>
Owner(t) == IF Unix THEN Proc(t) ELSE Main

\* A new process gets a copy of every descriptor its parent has open.
Inherited(parent, child) ==
  [c \in Conns |-> IF parent \in holders[c] THEN holders[c] \cup {child} ELSE holders[c]]

\* A handler of main() runs in its place under Unix, beside it under NT.
MainRuns == pc # "exited" /\ (Unix => term.at = "no")

FirstFree == CHOOSE i \in Rows : ~Used(i) /\ \A j \in Rows : ~Used(j) => i <= j

Accept ==
  /\ MainRuns /\ pc = "listen" /\ cur < scene.callers
  /\ cur' = cur + 1
  /\ IF \E i \in Rows : ~Used(i)
     THEN /\ slot' = FirstFree /\ pc' = "start"
          /\ holders' = [holders EXCEPT ![cur + 1] = {Main}]
     ELSE UNCHANGED <<slot, pc, holders>>           \* refused: no free slots
  /\ UNCHANGED <<scene, offspring, threadnum, arglist, task, sigcld, term>>

NewTask == [task EXCEPT ![cur].pc = "start",
                        ![cur].sibs = {offspring[i].opid : i \in Rows} \ {0}]

Begin(next) ==
  /\ offspring' = [offspring EXCEPT ![slot].msock = cur]
  /\ arglist' = [msock |-> cur, num |-> threadnum]
  /\ task' = NewTask
  /\ pc' = next
  /\ UNCHANGED <<scene, cur, slot, threadnum, holders, sigcld, term>>

\* NT: the thread runs from here on; what main() writes below comes later.
BeginThread == NT /\ MainRuns /\ pc = "start" /\ Begin("record")

\* Unix: the child has its own copy of everything, its opid still 0.  main()
\* does not close its copy of the new connection.
Fork ==
  /\ Unix /\ MainRuns /\ pc = "start"
  /\ task' = NewTask
  /\ holders' = Inherited(Main, Proc(cur))
  /\ pc' = "record"
  /\ UNCHANGED <<scene, cur, slot, offspring, threadnum, arglist, sigcld, term>>

\* main() returns, with every descriptor of the process; threads end with it.
ProcessExits ==
  /\ pc' = "exited"
  /\ holders' = [c \in Conns |-> holders[c] \ {Main}]
  /\ task' = [t \in Conns |-> IF NT /\ Live(t) THEN [task[t] EXCEPT !.pc = "gone"]
                              ELSE task[t]]
  /\ UNCHANGED <<scene, cur, slot, offspring, threadnum, arglist>>

StartFails ==
  /\ MainRuns /\ pc = "start"
  /\ ProcessExits
  /\ UNCHANGED <<sigcld, term>>

RecordThread ==
  /\ NT /\ MainRuns /\ pc = "record" /\ pc' = "listen"
  /\ offspring' = [offspring EXCEPT ![slot].opid = ParentPid,
                                    ![slot].thread = threadnum]
  /\ threadnum' = threadnum + 1
  /\ UNCHANGED <<scene, cur, slot, arglist, task, holders, sigcld, term>>

\* fork() has returned; SIGCLD may come before its value is stored, and
\* before the socket is.
RecordPid ==
  /\ Unix /\ MainRuns /\ pc = "record" /\ pc' = "socket"
  /\ offspring' = [offspring EXCEPT ![slot].opid = cur]
  /\ UNCHANGED <<scene, cur, slot, threadnum, arglist, task, holders, sigcld, term>>

RecordSocket ==
  /\ Unix /\ MainRuns /\ pc = "socket" /\ pc' = "listen"
  /\ offspring' = [offspring EXCEPT ![slot].thread = threadnum, ![slot].msock = cur]
  /\ UNCHANGED <<scene, cur, slot, threadnum, arglist, task, holders, sigcld, term>>

------------------------------------------------------------------------------
(* Handlers of main()                                                       *)

\* Mutant of Cleared: the row keeps the opid.
ClearedButPid(i) == [offspring[i] EXCEPT !.thread = 0, !.msock = -1]

Cleared(i) == Free

\* offspring_terminate(): one wait() for each SIGCLD.
Reap(z) ==
  /\ Unix /\ MainRuns /\ sigcld /\ task[z].pc = "zombie"
  /\ sigcld' = FALSE
  /\ LET hit == {i \in Rows : offspring[i].opid = z}
     IN  /\ offspring' = [i \in Rows |-> IF i \in hit THEN Cleared(i) ELSE offspring[i]]
         /\ holders' = [c \in Conns |->
                          IF \E i \in hit : offspring[i].msock = c
                          THEN holders[c] \ {Main} ELSE holders[c]]
         /\ task' = [task EXCEPT ![z].pc = IF hit = {} THEN "unlisted" ELSE "reaped"]
  /\ UNCHANGED <<scene, pc, cur, slot, threadnum, arglist, term>>

\* parent_terminate() begins; under Unix SIGCLD is ignored from here on.
Terminate ==
  /\ scene.stop /\ pc # "exited" /\ term.at = "no"
  /\ term' = [at |-> "tell", i |-> 1]
  /\ sigcld' = FALSE
  /\ UNCHANGED <<scene, pc, cur, slot, offspring, threadnum, arglist, task, holders>>

Telling == pc # "exited" /\ term.at = "tell"
NextRow == [at |-> "tell", i |-> term.i + 1]

\* Unix: SIGTERM to the child, then wait() for any; NT: its socket is closed.
TellChild ==
  /\ Unix /\ Telling /\ term.i \in Rows /\ Used(term.i)
  /\ task' = [task EXCEPT ![offspring[term.i].opid].told = TRUE]
  /\ term' = [term EXCEPT !.at = "wait"]
  /\ UNCHANGED <<scene, pc, cur, slot, offspring, threadnum, arglist, holders, sigcld>>

CloseChild ==
  /\ NT /\ Telling /\ term.i \in Rows /\ Used(term.i)
  /\ holders' = [holders EXCEPT ![offspring[term.i].msock] = @ \ {Main}]
  /\ term' = NextRow
  /\ UNCHANGED <<scene, pc, cur, slot, offspring, threadnum, arglist, task, sigcld>>

SkipRow ==
  /\ Telling /\ term.i \in Rows /\ ~Used(term.i)
  /\ term' = NextRow
  /\ UNCHANGED <<scene, pc, cur, slot, offspring, threadnum, arglist, task, holders, sigcld>>

\* wait() returns a child that was dead before, or fails when none is left.
ToldChildGone ==
  /\ pc # "exited" /\ term.at = "wait"
  /\ \/ \E z \in Conns : task[z].pc = "zombie" /\ task' = [task EXCEPT ![z].pc = "reaped"]
     \/ (\A t \in Conns : ~Live(t) /\ task[t].pc # "zombie") /\ UNCHANGED task
  /\ term' = NextRow
  /\ UNCHANGED <<scene, pc, cur, slot, offspring, threadnum, arglist, holders, sigcld>>

ExitTold ==
  /\ Telling /\ term.i \notin Rows
  /\ ProcessExits
  /\ UNCHANGED <<sigcld, term>>

------------------------------------------------------------------------------
(* dialog_with_telnet(), up to "Ready"                                      *)

\* The arguments are copied after a pause: NT's are those of the last thread.
CopyArguments(t) ==
  /\ task[t].pc = "start"
  /\ task' = [task EXCEPT ![t].pc = "copied",
                          ![t].msock = IF Unix THEN t ELSE arglist.msock,
                          ![t].num = IF Unix THEN threadnum ELSE arglist.num]
  /\ UNCHANGED <<scene, mainVars, holders, sigcld>>

\* A process installs gracefully_terminate, whose log file is not known yet.
SetHandlers(t) ==
  /\ Unix /\ task[t].pc = "copied"
  /\ task' = [task EXCEPT ![t].pc = "handled"]
  /\ UNCHANGED <<scene, mainVars, holders, sigcld>>

BeReady(t) ==
  /\ task[t].pc = IF Unix THEN "handled" ELSE "copied"
  /\ task' = [task EXCEPT ![t].pc = IF scene.program = "daemon" THEN "recv" ELSE "pipes"]
  /\ UNCHANGED <<scene, mainVars, holders, sigcld>>

\* A process is gone, with its descriptors; nobody waits for it when main()
\* has exited or ignores SIGCLD.
Die(t, told) ==
  /\ task' = [u \in Conns |->
                IF u = t THEN [task[u] EXCEPT !.pc = IF pc = "exited" \/ term.at # "no"
                                                    THEN "gone" ELSE "zombie"]
                ELSE [task[u] EXCEPT !.told = @ \/ u \in told]]
  /\ sigcld' = (sigcld \/ (pc # "exited" /\ term.at = "no"))
  /\ holders' = [c \in Conns |-> holders[c] \ {Proc(t)}]
  /\ UNCHANGED <<scene, mainVars>>

\* SIGTERM in an offspring.  Until it has its own handler it runs the one it
\* inherited, parent_terminate(), on the table as it was at fork(); then
\* gracefully_terminate(), which fails as long as gt_logf is NULL.
Told(t) ==
  /\ Unix /\ Live(t) /\ task[t].told
  /\ Die(t, IF task[t].pc \in {"start", "copied"} THEN task[t].sibs ELSE {})

\* Mutant of OwnRow: the row is found by the process id, which threads share.
OwnRowByPid(t) == CHOOSE i \in Rows : Used(i)

OwnRow(t) ==
  CHOOSE i \in Rows : /\ offspring[i].thread = task[t].num
                      /\ \A j \in Rows : offspring[j].thread = task[t].num => i <= j

\* finish: the socket is closed; a process exits, a thread frees its row, if
\* main() has written its number there and nobody has freed it yet.
HasRow(t) == \E i \in Rows : offspring[i].thread = task[t].num
Finish(t) ==
  IF Unix THEN Die(t, {})
  ELSE /\ holders' = [holders EXCEPT ![task[t].msock] = @ \ {Main}]
       /\ offspring' = IF HasRow(t) THEN [offspring EXCEPT ![OwnRow(t)] = Free]
                       ELSE offspring
       /\ task' = [task EXCEPT ![t].pc = IF HasRow(t) THEN "gone" ELSE "unlisted"]
       /\ UNCHANGED <<scene, pc, cur, slot, threadnum, arglist, term, sigcld>>

MainNext ==
  \/ Accept \/ BeginThread \/ Fork \/ StartFails
  \/ RecordThread \/ RecordPid \/ RecordSocket
  \/ \E z \in Conns : Reap(z)
  \/ Terminate \/ TellChild \/ CloseChild \/ SkipRow \/ ToldChildGone \/ ExitTold
=============================================================================
