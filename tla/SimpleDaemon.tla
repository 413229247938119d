----------------------------- MODULE SimpleDaemon -----------------------------
(***************************************************************************)
(* cmps3620/code/lab5/simple_daemon.c: a TCP server that forks one child   *)
(* per client, keeps the children in the table offspring[MAX_CHILDREN],    *)
(* and shares that table between main() and two signal handlers.           *)
(*                                                                         *)
(* One behaviour interleaves                                               *)
(*   - main(): accept, search the table, fork, store the pid;              *)
(*   - child_terminate(), the SIGCHLD handler: wait() and clear the slot;  *)
(*   - parent_terminate(), the SIGHUP/SIGTERM/SIGINT handler: tell every   *)
(*     child, wait, exit;                                                  *)
(*   - the children, from fork() to exit, and the s_sh each one spawns;    *)
(*   - the operator (signals) and the clients (connections).               *)
(* A handler interrupts main() between any two of its steps and runs to    *)
(* its end; parent_terminate also interrupts child_terminate and never     *)
(* returns.  SIGCHLD is one pending bit, as POSIX has it: deaths that      *)
(* happen while it is pending raise no second one.                         *)
(*                                                                         *)
(* What a child says to its client is the subject of module Dialog; here a *)
(* child is its life cycle and the descriptors it inherits.                *)
(***************************************************************************)
EXTENDS Integers, Sequences, FiniteSets

CONSTANTS
  MaxChildren,    \* MAX_CHILDREN, the size of offspring[]
  Pids,           \* process ids the kernel hands out (and reuses once reaped)
  Conns,          \* client connections
  Fds,            \* descriptor numbers of the parent's data sockets
  TermSignals,    \* which of SIGHUP, SIGTERM, SIGINT the operator sends
  GroupSignals,   \* those the terminal sends to the whole process group
  NoPid,          \* 0 in opid: the slot is free
  NoConn,         \* a descriptor that is closed
  NoFd,           \* -1 in msgsock
  Parent          \* the daemon itself, as a holder of descriptors

ASSUME ConstantsAssumption ==
  /\ MaxChildren \in Nat \ {0}
  /\ Fds \subseteq Nat
  /\ NoPid \notin Pids
  /\ NoConn \notin Conns
  /\ NoFd \notin Fds
  /\ Parent \notin Pids
  /\ \A c \in Conns : Parent # <<"s_sh", c>>
  /\ GroupSignals \subseteq TermSignals

Slots   == 0 .. MaxChildren - 1
Backlog == MaxChildren + 1          \* listen(sock, MAX_CHILDREN + 1)

(* The shell serving connection c, as a holder of descriptors. *)
Shell(c) == <<"s_sh", c>>
Holders  == {Parent} \cup Pids \cup {Shell(c) : c \in Conns}

VARIABLES
  pc,        \* main(): where it is
  i,         \* main(): the slot it looks at, then the slot it uses
  msgsock,   \* main(): what accept() returned
  forked,    \* main(): what fork() returned, before it is stored
  opid,      \* offspring[].opid
  msock,     \* offspring[].msgsock
  chld,      \* child_terminate(): where it is
  reaped,    \* child_terminate(): what wait() returned
  sigchld,   \* SIGCHLD is pending
  term,      \* parent_terminate(): where it is
  ti,        \* parent_terminate(): its loop counter
  sigs,      \* pending termination signals
  active,    \* termination signals whose handler has been entered
  queue,     \* the listen queue
  conn,      \* what has become of each connection
  fdtab,     \* the parent's descriptor table (data sockets)
  holders,   \* the processes holding a descriptor of each connection
  child,     \* life cycle of each process id
  served,    \* child_sock of each child, as the connection it names
  home,      \* the slot index i, as the child copied it at the fork
  sibs,      \* the pids in the child's copy of offspring[]
  told       \* a termination signal is pending at the child

mainVars  == <<pc, i, msgsock, forked>>
tableVars == <<opid, msock>>
chldVars  == <<chld, reaped>>
termVars  == <<term, ti, active>>
sockVars  == <<queue, conn, fdtab>>
kidVars   == <<served, home, sibs>>
vars == <<mainVars, tableVars, chldVars, sigchld, termVars, sigs, sockVars,
          holders, child, kidVars, told>>

Live(p)   == child[p] \in {"forked", "dialog", "serving"}
Exited    == pc = "exited"
MainRuns  == chld = "idle" /\ term = "idle"

(* Type invariant: the values the variables may take. *)
TypeOK ==
  /\ pc \in {"accept", "scan", "fork", "store", "exited"}
  /\ i \in 0 .. MaxChildren
  /\ msgsock \in Fds \cup {NoFd}
  /\ forked \in Pids \cup {NoPid}
  /\ opid \in [Slots -> Pids \cup {NoPid}]
  /\ msock \in [Slots -> Fds \cup {NoFd}]
  /\ chld \in {"idle", "wait", "sweep"}
  /\ reaped \in Pids \cup {NoPid}
  /\ sigchld \in BOOLEAN
  /\ term \in {"idle", "loop", "wait"}
  /\ ti \in 0 .. MaxChildren
  /\ sigs \subseteq TermSignals
  /\ active \subseteq TermSignals
  /\ queue \in Seq(Conns)
  /\ conn \in [Conns -> {"new", "queued", "open", "refused", "dropped"}]
  /\ fdtab \in [Fds -> Conns \cup {NoConn}]
  /\ holders \in [Conns -> SUBSET Holders]
  /\ child \in [Pids -> {"none", "forked", "dialog", "serving", "zombie"}]
  /\ served \in [Pids -> Conns \cup {NoConn}]
  /\ home \in [Pids -> Slots]
  /\ sibs \in [Pids -> SUBSET Pids]
  /\ told \in [Pids -> BOOLEAN]

(* The daemon has zeroed offspring[], bound its socket and called listen(). *)
Init ==
  /\ pc = "accept" /\ i = 0 /\ msgsock = NoFd /\ forked = NoPid
  /\ opid = [s \in Slots |-> NoPid]
  /\ msock = [s \in Slots |-> NoFd]
  /\ chld = "idle" /\ reaped = NoPid /\ sigchld = FALSE
  /\ term = "idle" /\ ti = 0 /\ sigs = {} /\ active = {}
  /\ queue = <<>>
  /\ conn = [c \in Conns |-> "new"]
  /\ fdtab = [f \in Fds |-> NoConn]
  /\ holders = [c \in Conns |-> {}]
  /\ child = [p \in Pids |-> "none"]
  /\ served = [p \in Pids |-> NoConn]
  /\ home = [p \in Pids |-> 0]
  /\ sibs = [p \in Pids |-> {}]
  /\ told = [p \in Pids |-> FALSE]

-----------------------------------------------------------------------------
(* Descriptors.  A connection is released (the client sees it close) when   *)
(* its last holder has closed it: holders[c] = {}.                          *)

(* close() of the descriptors in the set S of the parent's table. *)
ParentCloses(S) ==
  /\ fdtab' = [f \in Fds |-> IF f \in S THEN NoConn ELSE fdtab[f]]
  /\ holders' = [c \in Conns |->
                   IF \E f \in S \cap Fds : fdtab[f] = c
                   THEN holders[c] \ {Parent} ELSE holders[c]]

(* fork(): a new process h holds every descriptor that process g holds. *)
Inherits(h, g) ==
  holders' = [c \in Conns |->
                IF g \in holders[c] THEN holders[c] \cup {h} ELSE holders[c]]

(* exit(): the kernel closes every descriptor of process h. *)
Drops(h) == holders' = [c \in Conns |-> holders[c] \ {h}]

(* The parent exits: its listen queue and the connection it had accepted    *)
(* but not handed to a child are reset; init reaps what it left.            *)
ParentExits ==
  /\ pc' = "exited"
  /\ queue' = <<>>
  /\ conn' = [c \in Conns |->
                IF \/ conn[c] = "queued"
                   \/ pc \in {"scan", "fork"} /\ fdtab[msgsock] = c
                THEN "dropped" ELSE conn[c]]
  /\ fdtab' = [f \in Fds |-> NoConn]
  /\ Drops(Parent)
  /\ child' = [p \in Pids |-> IF child[p] = "zombie" THEN "none" ELSE child[p]]
  /\ sigchld' = FALSE
  /\ UNCHANGED <<i, msgsock, forked, tableVars, chldVars, sigs, kidVars, told>>

-----------------------------------------------------------------------------
(* main()                                                                   *)

(* The tests and the two assignments main() makes to offspring[i]; beside   *)
(* them (in "mutants") what a slip there would be.                          *)
FreeSlot(s)           == opid[s] = NoPid
SearchStopsEarly      == i >= MaxChildren - 1
NoSlotLeft            == i = MaxChildren
SocketKept            == [msock EXCEPT ![i] = msgsock]
PidKeptInLastSlot     == [opid EXCEPT ![MaxChildren - 1] = forked]
PidKept               == [opid EXCEPT ![i] = forked]

(* accept() takes the oldest pending connection into the lowest free        *)
(* descriptor; the search for a slot starts at 0.                           *)
Accept ==
  /\ pc = "accept" /\ MainRuns /\ queue # <<>>
  /\ \E f \in Fds :
       /\ fdtab[f] = NoConn
       /\ \A g \in Fds : fdtab[g] = NoConn => f <= g
       /\ msgsock' = f
       /\ fdtab' = [fdtab EXCEPT ![f] = Head(queue)]
  /\ conn' = [conn EXCEPT ![Head(queue)] = "open"]
  /\ holders' = [holders EXCEPT ![Head(queue)] = {Parent}]
  /\ queue' = Tail(queue)
  /\ pc' = "scan" /\ i' = 0
  /\ UNCHANGED <<forked, tableVars, chldVars, sigchld, termVars, sigs, child,
                 kidVars, told>>

ScanBusy ==
  /\ pc = "scan" /\ MainRuns /\ i < MaxChildren
  /\ ~FreeSlot(i)
  /\ i' = i + 1
  /\ UNCHANGED <<pc, msgsock, forked, tableVars, chldVars, sigchld, termVars,
                 sigs, sockVars, holders, child, kidVars, told>>

(* A free slot: child_sock and offspring[i].msgsock are set before fork(). *)
ScanFree ==
  /\ pc = "scan" /\ MainRuns /\ i < MaxChildren
  /\ FreeSlot(i)
  /\ msock' = SocketKept
  /\ pc' = "fork"
  /\ UNCHANGED <<i, msgsock, forked, opid, chldVars, sigchld, termVars, sigs,
                 sockVars, holders, child, kidVars, told>>

Refuse ==
  /\ pc = "scan" /\ MainRuns /\ NoSlotLeft
  /\ conn' = [conn EXCEPT ![fdtab[msgsock]] = "refused"]
  /\ ParentCloses({msgsock})
  /\ pc' = "accept"
  /\ UNCHANGED <<i, msgsock, forked, tableVars, chldVars, sigchld, termVars,
                 sigs, queue, child, kidVars, told>>

(* fork() succeeds with pid p.  The child starts with a copy of everything: *)
(* the index i, the table, the descriptors and the handlers of the parent.  *)
Fork(p) ==
  /\ pc = "fork" /\ MainRuns
  /\ child[p] = "none"
  /\ child' = [child EXCEPT ![p] = "forked"]
  /\ served' = [served EXCEPT ![p] = fdtab[msgsock]]
  /\ home' = [home EXCEPT ![p] = i]
  /\ sibs' = [sibs EXCEPT ![p] = {opid[s] : s \in Slots} \ {NoPid}]
  /\ Inherits(p, Parent)
  /\ forked' = p
  /\ pc' = "store"
  /\ UNCHANGED <<i, msgsock, tableVars, chldVars, sigchld, termVars, sigs,
                 sockVars, told>>

(* fork() fails: close both sockets and exit(1), telling no child. *)
ForkFails ==
  /\ pc = "fork" /\ MainRuns
  /\ ParentExits
  /\ UNCHANGED termVars

(* The assignment offspring[i].opid = <result of fork()>, in the parent. *)
Store ==
  /\ pc = "store" /\ MainRuns
  /\ opid' = PidKept
  /\ forked' = NoPid
  /\ pc' = "accept"
  /\ UNCHANGED <<i, msgsock, msock, chldVars, sigchld, termVars, sigs,
                 sockVars, holders, child, kidVars, told>>

Main == \/ Accept \/ ScanBusy \/ ScanFree \/ Refuse
        \/ (\E p \in Pids : Fork(p)) \/ ForkFails \/ Store

-----------------------------------------------------------------------------
(* child_terminate(), the SIGCHLD handler                                   *)

ChldEnter ==
  /\ ~Exited /\ sigchld /\ MainRuns
  /\ sigchld' = FALSE
  /\ chld' = "wait"
  /\ UNCHANGED <<mainVars, tableVars, reaped, termVars, sigs, sockVars,
                 holders, child, kidVars, told>>

(* wait() reaps one dead child; its pid may be handed out again. *)
ChldReap(p) ==
  /\ ~Exited /\ chld = "wait" /\ term = "idle"
  /\ child[p] = "zombie"
  /\ child' = [child EXCEPT ![p] = "none"]
  /\ reaped' = p
  /\ chld' = "sweep"
  /\ UNCHANGED <<mainVars, tableVars, sigchld, termVars, sigs, sockVars,
                 holders, kidVars, told>>

(* wait() without any child returns -1, which no slot holds.  Unless a      *)
(* child has been stopped the handler never runs with no child dead         *)
(* (WaitHasZombie), so this is a step of JobNext only.                      *)
ChldNone ==
  /\ ~Exited /\ chld = "wait" /\ term = "idle"
  /\ \A p \in Pids : child[p] = "none"
  /\ chld' = "idle"
  /\ UNCHANGED <<mainVars, tableVars, reaped, sigchld, termVars, sigs,
                 sockVars, holders, child, kidVars, told>>

(* Close the socket of, and clear, every slot that names the reaped pid. *)
SlotsOf(p)           == {s \in Slots : opid[s] = p}
LatestSocket(p)      == {msgsock}
SocketsOf(p)         == {msock[s] : s \in SlotsOf(p)}

SweepAndWaitAgain ==
  /\ ~Exited /\ chld = "sweep" /\ term = "idle"
  /\ ParentCloses(SocketsOf(reaped))
  /\ opid' = [s \in Slots |-> IF s \in SlotsOf(reaped) THEN NoPid ELSE opid[s]]
  /\ msock' = [s \in Slots |-> IF s \in SlotsOf(reaped) THEN NoFd ELSE msock[s]]
  /\ reaped' = NoPid
  /\ chld' = "wait"
  /\ UNCHANGED <<mainVars, sigchld, termVars, sigs, queue, conn, child,
                 kidVars, told>>

ChldSweep ==
  /\ ~Exited /\ chld = "sweep" /\ term = "idle"
  /\ ParentCloses(SocketsOf(reaped))
  /\ opid' = [s \in Slots |-> IF s \in SlotsOf(reaped) THEN NoPid ELSE opid[s]]
  /\ msock' = [s \in Slots |-> IF s \in SlotsOf(reaped) THEN NoFd ELSE msock[s]]
  /\ reaped' = NoPid
  /\ chld' = "idle"
  /\ UNCHANGED <<mainVars, sigchld, termVars, sigs, queue, conn, child,
                 kidVars, told>>

ChildTerminate == ChldEnter \/ (\E p \in Pids : ChldReap(p)) \/ ChldSweep

-----------------------------------------------------------------------------
(* parent_terminate(), the handler of SIGHUP, SIGTERM and SIGINT            *)

(* Entering it ignores SIGCHLD from now on, which also discards a pending   *)
(* one and makes the kernel reap later deaths by itself.  The same handler  *)
(* may be entered again for another signal: the inner call exits, so the    *)
(* outer one never resumes.                                                 *)
TermEnter(s) ==
  /\ ~Exited
  /\ s \in sigs /\ s \notin active
  /\ sigs' = sigs \ {s}
  /\ active' = active \cup {s}
  /\ term' = "loop" /\ ti' = 0
  /\ sigchld' = FALSE
  /\ UNCHANGED <<mainVars, tableVars, chldVars, sockVars, holders, child,
                 kidVars, told>>

TermSkip ==
  /\ ~Exited /\ term = "loop" /\ ti < MaxChildren
  /\ opid[ti] = NoPid
  /\ ti' = ti + 1
  /\ UNCHANGED <<mainVars, tableVars, chldVars, sigchld, term, active, sigs,
                 sockVars, holders, child, kidVars, told>>

WaitWithoutKill ==
  /\ ~Exited /\ term = "loop" /\ ti < MaxChildren
  /\ opid[ti] # NoPid
  /\ term' = "wait"
  /\ UNCHANGED <<mainVars, tableVars, chldVars, sigchld, ti, active, sigs,
                 sockVars, holders, child, kidVars, told>>

(* kill(offspring[i].opid, SIGTERM): nothing happens if it is dead. *)
TermKill ==
  /\ ~Exited /\ term = "loop" /\ ti < MaxChildren
  /\ opid[ti] # NoPid
  /\ told' = [told EXCEPT ![opid[ti]] = Live(opid[ti])]
  /\ term' = "wait"
  /\ UNCHANGED <<mainVars, tableVars, chldVars, sigchld, ti, active, sigs,
                 sockVars, holders, child, kidVars>>

(* wait() returns a child that had died before SIGCHLD was ignored. *)
TermReap(p) ==
  /\ ~Exited /\ term = "wait"
  /\ child[p] = "zombie"
  /\ child' = [child EXCEPT ![p] = "none"]
  /\ term' = "loop" /\ ti' = ti + 1
  /\ UNCHANGED <<mainVars, tableVars, chldVars, sigchld, active, sigs,
                 sockVars, holders, kidVars, told>>

(* With SIGCHLD ignored no child is left to reap: wait() blocks until the   *)
(* last child of the process, whichever it is, is gone, and returns -1.     *)
TermNone ==
  /\ ~Exited /\ term = "wait"
  /\ \A p \in Pids : child[p] = "none"
  /\ term' = "loop" /\ ti' = ti + 1
  /\ UNCHANGED <<mainVars, tableVars, chldVars, sigchld, active, sigs,
                 sockVars, holders, child, kidVars, told>>

TermExit ==
  /\ ~Exited /\ term = "loop" /\ ti = MaxChildren
  /\ ParentExits
  /\ UNCHANGED termVars

ParentTerminate == \/ (\E s \in TermSignals : TermEnter(s))
                   \/ TermSkip \/ TermKill \/ (\E p \in Pids : TermReap(p))
                   \/ TermNone \/ TermExit

-----------------------------------------------------------------------------
(* A child p, from fork() to exit                                           *)

(* p is gone: a zombie and a SIGCHLD for its parent, or nothing at all when *)
(* the parent ignores SIGCHLD or has itself exited.                         *)
Gone(p) ==
  /\ Drops(p)
  /\ IF ~Exited /\ term = "idle"
     THEN child' = [child EXCEPT ![p] = "zombie"] /\ sigchld' = TRUE
     ELSE child' = [child EXCEPT ![p] = "none"] /\ UNCHANGED sigchld
  /\ UNCHANGED <<mainVars, tableVars, chldVars, termVars, sigs, sockVars,
                 kidVars>>

(* The first lines of dialog_with_client() install the child's handlers. *)
InstallHandlers(p) ==
  /\ child[p] = "forked" /\ ~told[p]
  /\ child' = [child EXCEPT ![p] = "dialog"]
  /\ UNCHANGED <<mainVars, tableVars, chldVars, sigchld, termVars, sigs,
                 sockVars, holders, kidVars, told>>

(* Until then a termination signal runs the inherited parent_terminate():   *)
(* SIGTERM to every pid in the child's copy of the table, and exit.         *)
InheritedTerminate(p) ==
  /\ child[p] = "forked" /\ told[p]
  /\ told' = [q \in Pids |-> /\ q # p
                             /\ told[q] \/ (q \in sibs[p] /\ Live(q))]
  /\ Gone(p)

(* The second fork() and execle(): s_sh inherits the child's descriptors. *)
SpawnShell(p) ==
  /\ child[p] = "dialog" /\ ~told[p]
  /\ child' = [child EXCEPT ![p] = "serving"]
  /\ Inherits(Shell(served[p]), p)
  /\ UNCHANGED <<mainVars, tableVars, chldVars, sigchld, termVars, sigs,
                 sockVars, kidVars, told>>

(* kill_child(), or the dialog is over: exit. *)
Finish(p) ==
  /\ child[p] \in {"dialog", "serving"}
  /\ told' = [told EXCEPT ![p] = FALSE]
  /\ Gone(p)

(* The shell exits: a quit command, or its pipes have lost the child. *)
ShellExit(c) ==
  /\ \E d \in Conns : Shell(c) \in holders[d]
  /\ Drops(Shell(c))
  /\ UNCHANGED <<mainVars, tableVars, chldVars, sigchld, termVars, sigs,
                 sockVars, child, kidVars, told>>

Children == \/ \E p \in Pids : \/ InstallHandlers(p) \/ InheritedTerminate(p)
                               \/ SpawnShell(p) \/ Finish(p)
            \/ \E c \in Conns : ShellExit(c)

-----------------------------------------------------------------------------
(* Clients and the operator                                                 *)

Connect(c) ==
  /\ ~Exited /\ conn[c] = "new" /\ Len(queue) < Backlog
  /\ conn' = [conn EXCEPT ![c] = "queued"]
  /\ queue' = Append(queue, c)
  /\ UNCHANGED <<mainVars, tableVars, chldVars, sigchld, termVars, sigs,
                 fdtab, holders, child, kidVars, told>>

(* kill on the daemon, or CTRL-C, which reaches every process of the group: *)
(* children in dialog ignore it, a child that has just been forked has not  *)
(* got that far.                                                            *)
SendTerm(s) ==
  /\ ~Exited /\ s \notin sigs \cup active
  /\ sigs' = sigs \cup {s}
  /\ told' = [p \in Pids |-> \/ told[p]
                             \/ s \in GroupSignals /\ child[p] = "forked"]
  /\ UNCHANGED <<mainVars, tableVars, chldVars, sigchld, termVars, sockVars,
                 holders, child, kidVars>>

(* kill on one child. *)
KillOne(p) ==
  /\ Live(p) /\ ~told[p]
  /\ told' = [told EXCEPT ![p] = TRUE]
  /\ UNCHANGED <<mainVars, tableVars, chldVars, sigchld, termVars, sigs,
                 sockVars, holders, child, kidVars>>

(* A child is stopped or continued (CTRL-Z, fg): signal() does not ask for  *)
(* SA_NOCLDSTOP, so the parent gets a SIGCHLD although nobody died.         *)
StopChild(p) ==
  /\ ~Exited /\ term = "idle" /\ Live(p)
  /\ sigchld' = TRUE
  /\ UNCHANGED <<mainVars, tableVars, chldVars, termVars, sigs, sockVars,
                 holders, child, kidVars, told>>

Environment == \/ \E c \in Conns : Connect(c)
               \/ \E s \in TermSignals : SendTerm(s)
               \/ \E p \in Pids : KillOne(p)

Next == Main \/ ChildTerminate \/ ParentTerminate \/ Children \/ Environment

Spec == Init /\ [][Next]_vars

(* With job control. *)
JobNext == Next \/ ChldNone \/ \E p \in Pids : StopChild(p)
JobSpec == Init /\ [][JobNext]_vars

(***************************************************************************)
(* The scheduler runs every process that can run.  Nothing obliges a       *)
(* client to connect or to leave, the operator to send a signal, or fork() *)
(* to fail; a shell ends once its child is gone (end of file on its        *)
(* standard input, SIGPIPE on its output).                                 *)
(***************************************************************************)
ShellOrphaned(c) ==
  ShellExit(c) /\ ~\E p \in Pids : Live(p) /\ served[p] = c

Fairness ==
  /\ WF_vars(Accept \/ ScanBusy \/ ScanFree \/ Refuse \/ Store
             \/ \E p \in Pids : Fork(p))
  /\ WF_vars(ChildTerminate)
  /\ WF_vars(ParentTerminate)
  /\ \A p \in Pids :
       WF_vars(InstallHandlers(p) \/ InheritedTerminate(p) \/ SpawnShell(p)
               \/ (Finish(p) /\ told[p]))
  /\ \A c \in Conns : WF_vars(ShellOrphaned(c))

FairSpec == Spec /\ Fairness

-----------------------------------------------------------------------------
(* What the daemon promises.                                                *)

Child(p) == Live(p) \/ child[p] = "zombie"

(* The parent knows every child it has to look after: each child, until it *)
(* is reaped, is named by the slot it was forked for, or is the one whose  *)
(* pid main() holds and is about to store (simple_daemon.c:188).           *)
LiveChildRecorded ==
  ~Exited => \A p \in Pids : Child(p) =>
    \/ opid[home[p]] = p
    \/ pc = "store" /\ forked = p /\ i = home[p]

(* No two children that are not yet reaped share a slot, so there are      *)
(* never more of them than MAX_CHILDREN, even when pids are reused and     *)
(* deaths overtake the assignment of offspring[i].opid.                    *)
SlotsNotShared ==
  ~Exited => \A p, q \in Pids :
    Child(p) /\ Child(q) /\ home[p] = home[q] => p = q

(* The socket kept in a child's slot is, until the child is reaped, open   *)
(* in the parent and is the connection that child talks on: closing it in  *)
(* child_terminate can never cut another client off.                       *)
SocketMatchesChild ==
  ~Exited => \A p \in Pids : Child(p) =>
    /\ msock[home[p]] \in Fds
    /\ fdtab[msock[home[p]]] = served[p]

(* The table is right about every child until it is reaped: the child is   *)
(* in it, alone in its slot, beside the socket it serves                   *)
(* (simple_daemon.c:159-192, 269-277).                                     *)
TableTrue == LiveChildRecorded /\ SlotsNotShared /\ SocketMatchesChild

(* wait() in child_terminate never blocks the daemon: each SIGCHLD that is *)
(* delivered stands for a dead child nobody has reaped.                    *)
WaitHasZombie ==
  ~Exited /\ chld = "wait" /\ term = "idle" => \E p \in Pids : child[p] = "zombie"

(* The parent lets go of a connection only when it has refused it, when    *)
(* the child that serves it has been reaped, or by exiting.                *)
ParentKeepsServed ==
  [][\A c \in Conns :
       Parent \in holders[c] /\ Parent \notin holders'[c] =>
         \/ Exited'
         \/ conn'[c] = "refused"
         \/ ~\E p \in Pids : Child(p) /\ served[p] = c]_vars

(* The connections as the clients see them.                                *)
Serving(c) == \E p \in Pids : Live(p) /\ served[p] = c
InHand(c)  == pc \in {"scan", "fork"} /\ fdtab[msgsock] = c

Standing(c) == IF conn[c] # "open" THEN conn[c]
               ELSE IF Serving(c) THEN "served"
               ELSE IF InHand(c) THEN "accepted" ELSE "over"

Service == INSTANCE ConnService
             WITH MaxServed <- MaxChildren,
                  up <- ~Exited,
                  state <- [c \in Conns |-> Standing(c)]

(* The daemon implements the service its clients count on: first come,     *)
(* first served, never more than MAX_CHILDREN at a time, no refusal before *)
(* MAX_CHILDREN connections have had a child (lab5.html, "MAX_CHILDREN").  *)
ServiceImplemented == Service!Spec

(* Nor does the daemon let a connection lie, queued or accepted, however   *)
(* often SIGCHLD interrupts main(): unless it stands for ever in           *)
(* parent_terminate() (see TerminationCompletes), the service progresses.  *)
ServiceIsProgressing == (term # "idle" ~> Exited) => Service!Progress

(* A child that parent_terminate() has not told although it waits: its     *)
(* slot is not reached yet, or it was never recorded.                      *)
UntoldChild(p) ==
  Live(p) /\ ~told[p] /\ \A s \in Slots : s <= ti => opid[s] # p

(* A termination signal ends the daemon, with one exception: wait(), with  *)
(* SIGCHLD ignored, returns only when no child is left, so after the first *)
(* child was told the daemon stands there as long as another lives that it *)
(* has not told (simple_daemon.c:229, 235-240).  Nothing else holds it up. *)
TerminationCompletes ==
  term # "idle" ~>
    Exited \/ [](term = "wait" /\ \E p \in Pids : UntoldChild(p))

(* "When we have been told to exit, we have to go through each child       *)
(* process and terminate them as well" (simple_daemon.c:222-223): every    *)
(* child in the table is gone some time after the signal.  Not so: see     *)
(* TerminationCompletes.                                                   *)
EachChildTerminated ==
  \A p \in Pids :
    (term # "idle" /\ Live(p) /\ \E s \in Slots : opid[s] = p) ~> ~Live(p)

(***************************************************************************)
(* Why they hold: the invariant the daemon's steps preserve.               *)
(***************************************************************************)
Occupied(s) == opid[s] # NoPid

(* Between accept() and the assignment of the pid, main() owns msgsock:    *)
(* no occupied slot has it; the slot it has chosen is and stays free.      *)
MainInv ==
  /\ pc \in {"scan", "fork", "store"} =>
       /\ msgsock \in Fds
       /\ fdtab[msgsock] \in Conns
       /\ \A s \in Slots : Occupied(s) => msock[s] # msgsock
  /\ pc \in {"fork", "store"} =>
       /\ i \in Slots
       /\ ~Occupied(i)
       /\ msock[i] = msgsock
  /\ pc = "store" => forked \in Pids

(* Occupied slots have open sockets, each its own.                         *)
SlotInv ==
  /\ \A s \in Slots : Occupied(s) => /\ msock[s] \in Fds
                                     /\ fdtab[msock[s]] \in Conns
  /\ \A s, t \in Slots :
       Occupied(s) /\ Occupied(t) /\ msock[s] = msock[t] => s = t

(* While the handler sweeps, the pid it has reaped is not in use.          *)
SweepInv == chld = "sweep" => reaped \in Pids /\ child[reaped] = "none"

ServedInv == \A p \in Pids : Child(p) => served[p] \in Conns

TermInv == term = "wait" => ti \in Slots

IInv ==
  /\ TypeOK
  /\ TermInv
  /\ ServedInv
  /\ LiveChildRecorded
  /\ SocketMatchesChild
  /\ ~Exited => MainInv /\ SlotInv /\ SweepInv

(* A connection is open in at most one descriptor, and the parent holds    *)
(* exactly the open ones; the queue holds each waiting connection once.    *)
HolderInv ==
  /\ \A f \in Fds : fdtab[f] \in Conns =>
       conn[fdtab[f]] = "open" /\ Parent \in holders[fdtab[f]]
  /\ \A f, g \in Fds : fdtab[f] = fdtab[g] /\ fdtab[f] \in Conns => f = g
  /\ \A c \in Conns : Parent \in holders[c] => \E f \in Fds : fdtab[f] = c
  /\ \A k \in 1 .. Len(queue) : conn[queue[k]] = "queued"
  /\ \A k, l \in 1 .. Len(queue) : queue[k] = queue[l] => k = l

(* While main() searches the table, each slot it has passed stands for a    *)
(* connection of its own that was given a child, and which no slot still   *)
(* to be passed has.                                                       *)
Opened == {c \in Conns : conn[c] = "open"}

SearchInv ==
  /\ IsFiniteSet(Opened)
  /\ pc = "scan" =>
       \E given \in [0 .. i - 1 -> Opened \ {fdtab[msgsock]}] :
         /\ \A j, k \in 0 .. i - 1 : given[j] = given[k] => j = k
         /\ \A j \in 0 .. i - 1, s \in i .. MaxChildren - 1 :
              Occupied(s) => fdtab[msock[s]] # given[j]

(* Every SIGCHLD, pending or being handled, has a dead child of its own.   *)
ZombieInv ==
  ~Exited /\ term = "idle" =>
    /\ sigchld \/ chld = "wait" => \E p \in Pids : child[p] = "zombie"
    /\ sigchld /\ chld = "wait" =>
         \E p, q \in Pids : p # q /\ child[p] = "zombie" /\ child[q] = "zombie"

=============================================================================
