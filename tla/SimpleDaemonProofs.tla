-------------------------- MODULE SimpleDaemonProofs --------------------------
(***************************************************************************)
(* simple_daemon.c (lab 5).  For any number of slots, pids, connections    *)
(* and descriptors: the invariants of SimpleDaemon, proved from the        *)
(* inductive invariant IInv.  Then the relay of one client, module Dialog, *)
(* for any size of the buffers, the pipes and the socket and any number of *)
(* lines: what it passes on is complete and in order both ways, and with a *)
(* pipe of twice a buffer the child and the shell never wait for each      *)
(* other.                                                                  *)
(***************************************************************************)
EXTENDS SimpleDaemon, Dialog, SequenceTheorems, FiniteSetTheorems, TLAPS

USE DEF Slots, Occupied, Live, Child, Exited, MainRuns

(* At the first accept() the table is empty and no child exists.           *)
THEOREM InitIInv == Init => IInv
<1> SUFFICES ASSUME Init PROVE IInv
  OBVIOUS
<1>1. queue \in Seq(Conns)
  BY DEF Init
<1>2. 0 \in Slots /\ 0 \in 0 .. MaxChildren
  BY ConstantsAssumption
<1>3. TypeOK
  <2> USE <1>1, <1>2 DEF Init
  <2>1. sigs \subseteq TermSignals /\ active \subseteq TermSignals
    OBVIOUS
  <2>2. holders \in [Conns -> SUBSET Holders]
    OBVIOUS
  <2>3. /\ home \in [Pids -> Slots] 
        /\ sibs \in [Pids -> SUBSET Pids]
        /\ told \in [Pids -> BOOLEAN]
    OBVIOUS
  <2>4. /\ opid \in [Slots -> Pids \cup {NoPid}]
        /\ msock \in [Slots -> Fds \cup {NoFd}]
    OBVIOUS
  <2>5. QED
    BY <2>1, <2>2, <2>3, <2>4 DEF TypeOK
<1>4. QED
  BY <1>3 DEF Init, IInv, TermInv, ServedInv, LiveChildRecorded, SocketMatchesChild,
              MainInv, SlotInv, SweepInv

(* The steps of main() *)
LEMMA MainStep ==
  ASSUME IInv, Main PROVE IInv'
<1> USE ConstantsAssumption DEF IInv
<1>1. CASE Accept
  <2> USE <1>1 DEF Accept, mainVars, tableVars, chldVars, termVars, kidVars
  <2>1. TypeOK'
    BY DEF TypeOK, Holders
  <2>2. QED
    BY <2>1 DEF TypeOK, TermInv, ServedInv, LiveChildRecorded,
                SocketMatchesChild, MainInv, SlotInv, SweepInv
<1>2. CASE ScanBusy
  <2> USE <1>2 DEF ScanBusy, FreeSlot, tableVars, chldVars, termVars, sockVars, kidVars
  <2>1. TypeOK'
    BY DEF TypeOK
  <2>2. QED
    BY <2>1 DEF TypeOK, TermInv, ServedInv, LiveChildRecorded,
                SocketMatchesChild, MainInv, SlotInv, SweepInv
<1>3. CASE ScanFree
  <2> USE <1>3 DEF ScanFree, FreeSlot, SocketKept, chldVars, termVars, sockVars, kidVars
  <2>1. TypeOK'
    BY DEF TypeOK, MainInv
  <2>2. QED
    BY <2>1 DEF TypeOK, TermInv, ServedInv, LiveChildRecorded,
                SocketMatchesChild, MainInv, SlotInv, SweepInv
<1>4. CASE Refuse
  <2> USE <1>4 DEF Refuse, NoSlotLeft, ParentCloses, tableVars, chldVars, termVars, kidVars
  <2>1. TypeOK'
    BY DEF TypeOK
  <2>2. QED
    BY <2>1 DEF TypeOK, TermInv, ServedInv, LiveChildRecorded,
                SocketMatchesChild, MainInv, SlotInv, SweepInv
<1>5. ASSUME NEW p \in Pids, Fork(p) PROVE IInv'
  <2> USE <1>5 DEF Fork, Inherits, tableVars, chldVars, termVars, sockVars
  <2>1. TypeOK'
    BY DEF TypeOK, MainInv, Holders
  <2>2. QED
    BY <2>1 DEF TypeOK, TermInv, ServedInv, LiveChildRecorded,
                SocketMatchesChild, MainInv, SlotInv, SweepInv
<1>6. CASE ForkFails
  <2> USE <1>6 DEF ForkFails, ParentExits, Drops, tableVars, chldVars, termVars, kidVars
  <2>1. queue' \in Seq(Conns)
    OBVIOUS
  <2>2. TypeOK'
    BY <2>1 DEF TypeOK
  <2>3. QED
    BY <2>2 DEF TypeOK, TermInv, ServedInv, LiveChildRecorded, SocketMatchesChild
<1>7. CASE Store
  <2> USE <1>7 DEF Store, PidKept, chldVars, termVars, sockVars, kidVars
  <2>1. TypeOK'
    BY DEF TypeOK
  <2>2. QED
    BY <2>1 DEF TypeOK, TermInv, ServedInv, LiveChildRecorded,
                SocketMatchesChild, MainInv, SlotInv, SweepInv
<1>8. QED
  BY <1>1, <1>2, <1>3, <1>4, <1>5, <1>6, <1>7 DEF Main

(* The steps of the SIGCHLD handler *)
LEMMA ChildTerminateStep ==
  ASSUME IInv, ChildTerminate \/ ChldNone PROVE IInv'
<1> USE ConstantsAssumption DEF IInv
<1>1. CASE ChldEnter
  <2> USE <1>1 DEF ChldEnter, mainVars, tableVars, termVars, sockVars, kidVars
  <2>1. TypeOK'
    BY DEF TypeOK
  <2>2. QED
    BY <2>1 DEF TypeOK, TermInv, ServedInv, LiveChildRecorded,
                SocketMatchesChild, MainInv, SlotInv, SweepInv
<1>2. ASSUME NEW p \in Pids, ChldReap(p) PROVE IInv'
  <2> USE <1>2 DEF ChldReap, mainVars, tableVars, termVars, sockVars, kidVars
  <2>1. TypeOK'
    BY DEF TypeOK
  <2>2. QED
    BY <2>1 DEF TypeOK, TermInv, ServedInv, LiveChildRecorded,
                SocketMatchesChild, MainInv, SlotInv, SweepInv
<1>3. CASE ChldNone
  <2> USE <1>3 DEF ChldNone, mainVars, tableVars, termVars, sockVars, kidVars
  <2>1. TypeOK'
    BY DEF TypeOK
  <2>2. QED
    BY <2>1 DEF TypeOK, TermInv, ServedInv, LiveChildRecorded,
                SocketMatchesChild, MainInv, SlotInv, SweepInv
<1>4. CASE ChldSweep
  <2> USE <1>4 DEF ChldSweep, SlotsOf, SocketsOf, ParentCloses, mainVars, termVars, kidVars
  <2>1. TypeOK'
    BY DEF TypeOK
  <2>2. (TermInv /\ ServedInv)'
    BY DEF TypeOK, TermInv, ServedInv
  <2>3. LiveChildRecorded'
    BY DEF TypeOK, LiveChildRecorded, SweepInv
  (* The sockets it closes belong to slots that name the reaped pid. *)
  <2>4. \A f \in Fds : (\A s \in Slots : opid[s] = reaped => msock[s] # f)
                       => fdtab'[f] = fdtab[f]
    BY DEF TypeOK
  <2>5. ASSUME NEW p \in Pids, Child(p)
        PROVE  /\ msock'[home[p]] = msock[home[p]]
               /\ fdtab'[msock[home[p]]] = fdtab[msock[home[p]]]
    <3>1. p # reaped /\ home[p] \in Slots /\ msock[home[p]] \in Fds
      BY <2>5 DEF TypeOK, SweepInv, SocketMatchesChild
    <3>2. opid[home[p]] # reaped
      BY <2>5, <3>1 DEF LiveChildRecorded, MainInv, SweepInv
    <3>3. \A s \in Slots : opid[s] = reaped => msock[s] # msock[home[p]]
      <4>1. reaped # NoPid
        BY DEF SweepInv
      <4>2. CASE opid[home[p]] = p
        BY <4>1, <4>2, <3>1, <3>2 DEF SlotInv
      <4>3. CASE pc = "store" /\ i = home[p]
        BY <4>1, <4>3 DEF MainInv
      <4>4. QED
        BY <2>5, <4>2, <4>3 DEF LiveChildRecorded
    <3>4. QED
      BY <2>4, <3>1, <3>2, <3>3 DEF TypeOK
  <2>6. SocketMatchesChild'
    <3>1. \A p \in Pids : Child(p)' => Child(p)
      OBVIOUS
    <3>2. home' = home /\ served' = served /\ pc' = pc
      OBVIOUS
    <3>3. \A p \in Pids : Child(p) => /\ msock[home[p]] \in Fds
                                     /\ fdtab[msock[home[p]]] = served[p]
      BY DEF SocketMatchesChild
    <3>4. ASSUME NEW p \in Pids, Child(p)'
          PROVE  /\ msock'[home'[p]] \in Fds
                 /\ fdtab'[msock'[home'[p]]] = served'[p]
      <4>1. Child(p)
        BY <3>1, <3>4
      <4>2. /\ msock'[home[p]] = msock[home[p]]
            /\ fdtab'[msock[home[p]]] = fdtab[msock[home[p]]]
        BY <2>5, <4>1
      <4>3. msock[home[p]] \in Fds /\ fdtab[msock[home[p]]] = served[p]
        BY <3>3, <4>1
      <4>4. QED
        BY <3>2, <4>2, <4>3
    <3>5. QED
      BY <3>4 DEF SocketMatchesChild
  <2>7. MainInv'
    <3>1. pc \in {"scan", "fork", "store"} => fdtab'[msgsock] = fdtab[msgsock]
      BY <2>4 DEF MainInv, SweepInv, TypeOK
    <3>2. QED
      BY <3>1 DEF MainInv, SweepInv, TypeOK
  <2>8. SlotInv'
    <3>1. \A s \in Slots : Occupied(s)' =>
            /\ Occupied(s) /\ opid[s] # reaped
            /\ msock'[s] = msock[s]
            /\ fdtab'[msock[s]] = fdtab[msock[s]]
      BY <2>4 DEF SlotInv, SweepInv, TypeOK
    <3>2. QED
      BY <3>1 DEF SlotInv
  <2>9. SweepInv'
    BY DEF SweepInv
  <2>10. QED
    BY <2>1, <2>2, <2>3, <2>6, <2>7, <2>8, <2>9
<1>5. QED
  BY <1>1, <1>2, <1>3, <1>4 DEF ChildTerminate

(* The steps of the termination handler *)
LEMMA ParentTerminateStep ==
  ASSUME IInv, ParentTerminate PROVE IInv'
<1> USE ConstantsAssumption DEF IInv
<1>1. ASSUME NEW s \in TermSignals, TermEnter(s) PROVE IInv'
  <2> USE <1>1 DEF TermEnter, mainVars, tableVars, chldVars, sockVars, kidVars
  <2>1. sigs' \subseteq TermSignals /\ active' \subseteq TermSignals
    BY DEF TypeOK
  <2>2. TypeOK'
    <3>1. ti' \in 0 .. MaxChildren /\ term' \in {"idle", "loop", "wait"}
      OBVIOUS
    <3>2. QED
      BY <2>1, <3>1 DEF TypeOK
  <2>3. QED
    BY <2>2 DEF TypeOK, TermInv, ServedInv, LiveChildRecorded,
                SocketMatchesChild, MainInv, SlotInv, SweepInv
<1>2. CASE TermSkip
  <2> USE <1>2 DEF TermSkip, mainVars, tableVars, chldVars, sockVars, kidVars
  <2>1. TypeOK'
    BY DEF TypeOK
  <2>2. QED
    BY <2>1 DEF TypeOK, TermInv, ServedInv, LiveChildRecorded,
                SocketMatchesChild, MainInv, SlotInv, SweepInv
<1>3. CASE TermKill
  <2> USE <1>3 DEF TermKill, mainVars, tableVars, chldVars, sockVars, kidVars
  <2>1. TypeOK'
    BY DEF TypeOK
  <2>2. QED
    BY <2>1 DEF TypeOK, TermInv, ServedInv, LiveChildRecorded,
                SocketMatchesChild, MainInv, SlotInv, SweepInv
<1>4. ASSUME NEW p \in Pids, TermReap(p) PROVE IInv'
  <2> USE <1>4 DEF TermReap, mainVars, tableVars, chldVars, sockVars, kidVars
  <2>1. child' \in [Pids -> {"none", "forked", "dialog", "serving", "zombie"}]
    BY DEF TypeOK
  <2>2. ti' \in 0 .. MaxChildren
    BY DEF TypeOK, TermInv
  <2>3. TypeOK'
    BY <2>1, <2>2 DEF TypeOK
  <2>4. QED
    BY <2>3 DEF TypeOK, TermInv, ServedInv, LiveChildRecorded,
                SocketMatchesChild, MainInv, SlotInv, SweepInv
<1>5. CASE TermNone
  <2> USE <1>5 DEF TermNone, mainVars, tableVars, chldVars, sockVars, kidVars
  <2>1. TypeOK'
    BY DEF TypeOK, TermInv
  <2>2. QED
    BY <2>1 DEF TypeOK, TermInv, ServedInv, LiveChildRecorded,
                SocketMatchesChild, MainInv, SlotInv, SweepInv
<1>6. CASE TermExit
  <2> USE <1>6 DEF TermExit, ParentExits, Drops, termVars, tableVars, chldVars, kidVars
  <2>1. queue' \in Seq(Conns)
    OBVIOUS
  <2>2. TypeOK'
    BY <2>1 DEF TypeOK
  <2>3. QED
    BY <2>2 DEF TypeOK, TermInv, ServedInv, LiveChildRecorded,
                SocketMatchesChild, MainInv, SlotInv, SweepInv
<1>7. QED
  BY <1>1, <1>2, <1>3, <1>4, <1>5, <1>6 DEF ParentTerminate

(* What a child leaves when it ends has its types. *)
LEMMA GoneTypes ==
  ASSUME TypeOK, NEW p \in Pids, Gone(p)
  PROVE  /\ holders' \in [Conns -> SUBSET Holders]
         /\ child' \in [Pids -> {"none", "forked", "dialog", "serving", "zombie"}]
         /\ sigchld' \in BOOLEAN
         /\ UNCHANGED <<mainVars, tableVars, chldVars, termVars, sigs, sockVars, kidVars>>
<1>1. holders' \in [Conns -> SUBSET Holders]
  BY DEF TypeOK, Gone, Drops
<1>2. child' \in [Pids -> {"none", "forked", "dialog", "serving", "zombie"}]
  BY DEF TypeOK, Gone
<1>3. sigchld' \in BOOLEAN
  BY DEF TypeOK, Gone
<1>4. QED
  BY <1>1, <1>2, <1>3 DEF Gone

(* The steps of the children and their shells *)
LEMMA ChildrenStep ==
  ASSUME IInv, Children PROVE IInv'
<1> USE ConstantsAssumption DEF IInv
<1>1. ASSUME NEW p \in Pids, InstallHandlers(p) PROVE IInv'
  <2> USE <1>1 DEF InstallHandlers, mainVars, tableVars, chldVars, termVars, sockVars, kidVars
  <2>1. TypeOK'
    BY DEF TypeOK
  <2>2. QED
    BY <2>1 DEF TypeOK, TermInv, ServedInv, LiveChildRecorded,
                SocketMatchesChild, MainInv, SlotInv, SweepInv
<1>2. ASSUME NEW p \in Pids, InheritedTerminate(p) PROVE IInv'
  <2>1. TypeOK'
    <3>1. told' \in [Pids -> BOOLEAN]
      BY <1>2 DEF InheritedTerminate, TypeOK
    <3>2. QED
      BY <1>2, <3>1, GoneTypes
      DEF InheritedTerminate, TypeOK, mainVars, tableVars, chldVars, termVars, sockVars, kidVars
  <2> USE <1>2 DEF InheritedTerminate, Gone, Drops, mainVars, tableVars, chldVars, termVars, sockVars, kidVars
  <2>2. QED
    BY <2>1 DEF TypeOK, TermInv, ServedInv, LiveChildRecorded,
                SocketMatchesChild, MainInv, SlotInv, SweepInv
<1>3. ASSUME NEW p \in Pids, SpawnShell(p) PROVE IInv'
  <2> USE <1>3 DEF SpawnShell, Inherits, mainVars, tableVars, chldVars, termVars, sockVars, kidVars
  <2>1. TypeOK'
    BY DEF TypeOK, ServedInv, Holders
  <2>2. QED
    BY <2>1 DEF TypeOK, TermInv, ServedInv, LiveChildRecorded,
                SocketMatchesChild, MainInv, SlotInv, SweepInv
<1>4. ASSUME NEW p \in Pids, Finish(p) PROVE IInv'
  <2>1. TypeOK'
    <3>1. told' \in [Pids -> BOOLEAN]
      BY <1>4 DEF Finish, TypeOK
    <3>2. QED
      BY <1>4, <3>1, GoneTypes
      DEF Finish, TypeOK, mainVars, tableVars, chldVars, termVars, sockVars, kidVars
  <2> USE <1>4 DEF Finish, Gone, Drops, mainVars, tableVars, chldVars, termVars, sockVars, kidVars
  <2>2. QED
    BY <2>1 DEF TypeOK, TermInv, ServedInv, LiveChildRecorded,
                SocketMatchesChild, MainInv, SlotInv, SweepInv
<1>5. ASSUME NEW c \in Conns, ShellExit(c) PROVE IInv'
  <2> USE <1>5 DEF ShellExit, Drops, mainVars, tableVars, chldVars, termVars, sockVars, kidVars
  <2>1. TypeOK'
    BY DEF TypeOK
  <2>2. QED
    BY <2>1 DEF TypeOK, TermInv, ServedInv, LiveChildRecorded,
                SocketMatchesChild, MainInv, SlotInv, SweepInv
<1>6. QED
  BY <1>1, <1>2, <1>3, <1>4, <1>5 DEF Children

(* The steps of the clients and the operator *)
LEMMA EnvironmentStep ==
  ASSUME IInv, Environment \/ (\E p \in Pids : StopChild(p)) PROVE IInv'
<1> USE ConstantsAssumption DEF IInv
<1>1. ASSUME NEW c \in Conns, Connect(c) PROVE IInv'
  <2> USE <1>1 DEF Connect, mainVars, tableVars, chldVars, termVars, kidVars
  <2>1. TypeOK'
    <3>1. queue' \in Seq(Conns)
      BY DEF TypeOK
    <3>2. conn' \in [Conns -> {"new", "queued", "open", "refused", "dropped"}]
      BY DEF TypeOK
    <3>3. QED
      BY <3>1, <3>2 DEF TypeOK
  <2>2. QED
    BY <2>1 DEF TypeOK, TermInv, ServedInv, LiveChildRecorded,
                SocketMatchesChild, MainInv, SlotInv, SweepInv
<1>2. ASSUME NEW s \in TermSignals, SendTerm(s) PROVE IInv'
  <2> USE <1>2 DEF SendTerm, mainVars, tableVars, chldVars, termVars, sockVars, kidVars
  <2>1. TypeOK'
    BY DEF TypeOK
  <2>2. QED
    BY <2>1 DEF TypeOK, TermInv, ServedInv, LiveChildRecorded,
                SocketMatchesChild, MainInv, SlotInv, SweepInv
<1>3. ASSUME NEW p \in Pids, KillOne(p) PROVE IInv'
  <2> USE <1>3 DEF KillOne, mainVars, tableVars, chldVars, termVars, sockVars, kidVars
  <2>1. TypeOK'
    BY DEF TypeOK
  <2>2. QED
    BY <2>1 DEF TypeOK, TermInv, ServedInv, LiveChildRecorded,
                SocketMatchesChild, MainInv, SlotInv, SweepInv
<1>4. ASSUME NEW p \in Pids, StopChild(p) PROVE IInv'
  <2> USE <1>4 DEF StopChild, mainVars, tableVars, chldVars, termVars, sockVars, kidVars
  <2>1. TypeOK'
    BY DEF TypeOK
  <2>2. QED
    BY <2>1 DEF TypeOK, TermInv, ServedInv, LiveChildRecorded,
                SocketMatchesChild, MainInv, SlotInv, SweepInv
<1>5. QED
  BY <1>1, <1>2, <1>3, <1>4 DEF Environment

(* Steps that change nothing.                                              *)
LEMMA StutterStep == IInv /\ UNCHANGED vars => IInv'
  BY DEF IInv, TypeOK, TermInv, ServedInv, LiveChildRecorded,
                SocketMatchesChild, MainInv,
         SlotInv, SweepInv, vars, mainVars, tableVars, chldVars, termVars,
         sockVars, kidVars

(* IInv holds in every reachable state, with or without job control. *)
THEOREM JobIInv == JobSpec => []IInv
<1>1. IInv /\ [JobNext]_vars => IInv'
  BY MainStep, ChildTerminateStep, ParentTerminateStep, ChildrenStep,
     EnvironmentStep, StutterStep DEF JobNext, Next
<1>2. QED
  BY <1>1, InitIInv, PTL DEF JobSpec
(* Without stop signals the daemon does less than with them.               *)
LEMMA SpecIsJobSpec == Spec => JobSpec
<1>1. [Next]_vars => [JobNext]_vars
  BY DEF JobNext
<1>2. QED
  BY <1>1, PTL DEF Spec, JobSpec

(* Every variable keeps its type. *)
THEOREM TypeCorrect == JobSpec => []TypeOK
  BY JobIInv, PTL DEF IInv

(* The parent always knows the children it has not reaped. *)
THEOREM ChildrenRecorded == JobSpec => []LiveChildRecorded
  BY JobIInv, PTL DEF IInv

(* A slot's socket is the connection of the child the slot is for. *)
THEOREM SocketsMatch == JobSpec => []SocketMatchesChild
  BY JobIInv, PTL DEF IInv

(* Never two children in one slot: at most MAX_CHILDREN at a time. *)
THEOREM SlotsExclusive == JobSpec => []SlotsNotShared
<1>1. ASSUME IInv, ~Exited,
             NEW p \in Pids, NEW q \in Pids, Child(p), Child(q), home[p] = home[q]
      PROVE  p = q
  <2>1. \/ opid[home[p]] = p
        \/ pc = "store" /\ forked = p /\ i = home[p] /\ opid[i] = NoPid
    BY <1>1 DEF IInv, LiveChildRecorded, MainInv
  <2>2. \/ opid[home[q]] = q
        \/ pc = "store" /\ forked = q /\ i = home[q] /\ opid[i] = NoPid
    BY <1>1 DEF IInv, LiveChildRecorded, MainInv
  <2>3. QED
    BY <1>1, <2>1, <2>2, ConstantsAssumption
<1>2. IInv => SlotsNotShared
  BY <1>1 DEF SlotsNotShared
<1>3. QED
  BY <1>2, JobIInv, PTL

(* Main result for offspring[]: whatever the handlers interrupt, whichever *)
(* pids are reused and whether or not children are stopped, the table is   *)
(* right about every child that is not yet reaped.                         *)
THEOREM TableIsTrue == JobSpec => []TableTrue
<1>1. LiveChildRecorded /\ SlotsNotShared /\ SocketMatchesChild => TableTrue
  BY DEF TableTrue
<1>2. QED
  BY <1>1, ChildrenRecorded, SlotsExclusive, SocketsMatch, PTL

-----------------------------------------------------------------------------
(* Who holds a connection                                                   *)

(* HolderInv speaks of descriptors, connections, holders and queue only.   *)
LEMMA HolderFrame ==
  ASSUME HolderInv, UNCHANGED <<queue, conn, fdtab>>,
         \A c \in Conns : Parent \in holders'[c] <=> Parent \in holders[c]
  PROVE  HolderInv'
  BY DEF HolderInv

(* No connection has arrived, and the parent holds none.                   *)
LEMMA InitHolder == Init => HolderInv
  BY ConstantsAssumption DEF Init, HolderInv

(* main() opens a descriptor at accept() and closes it when it refuses.    *)
LEMMA HolderMain ==
  ASSUME IInv, HolderInv, Main PROVE HolderInv'
<1> USE ConstantsAssumption DEF IInv
<1>1. CASE Accept
  <2>1. PICK f \in Fds : /\ fdtab[f] = NoConn /\ msgsock' = f
                         /\ fdtab' = [fdtab EXCEPT ![f] = Head(queue)]
    BY <1>1 DEF Accept
  <2>2. /\ queue \in Seq(Conns) /\ queue # <<>>
        /\ Head(queue) = queue[1] /\ Head(queue) \in Conns
        /\ 1 \in 1 .. Len(queue)
        /\ queue' = Tail(queue) /\ Len(queue') = Len(queue) - 1
        /\ Len(queue) \in Nat
    BY <1>1 DEF Accept, TypeOK
  <2>3. \A k \in 1 .. Len(queue') : queue'[k] = queue[k + 1]
                                    /\ k + 1 \in 2 .. Len(queue)
    BY <2>2
  <2>4. conn[Head(queue)] = "queued"
    BY <2>2 DEF HolderInv
  <2>5. /\ conn' = [conn EXCEPT ![Head(queue)] = "open"]
        /\ holders' = [holders EXCEPT ![Head(queue)] = {Parent}]
    BY <1>1 DEF Accept
  <2>6. \A g \in Fds : fdtab[g] \in Conns => fdtab[g] # Head(queue)
    BY <2>4 DEF HolderInv
  <2>7. \A g \in Fds : fdtab'[g] \in Conns =>
          conn'[fdtab'[g]] = "open" /\ Parent \in holders'[fdtab'[g]]
    BY <2>1, <2>2, <2>5 DEF HolderInv, TypeOK
  <2>8. \A g, h \in Fds : fdtab'[g] = fdtab'[h] /\ fdtab'[g] \in Conns => g = h
    BY <2>1, <2>2, <2>6 DEF HolderInv, TypeOK
  <2>9. \A c \in Conns : Parent \in holders'[c] => \E g \in Fds : fdtab'[g] = c
    BY <2>1, <2>2, <2>5 DEF HolderInv, TypeOK
  <2>10. \A k \in 1 .. Len(queue') : conn'[queue'[k]] = "queued"
    <3>1. ASSUME NEW k \in 1 .. Len(queue') PROVE conn'[queue'[k]] = "queued"
      <4>1. k + 1 \in 1 .. Len(queue) /\ k + 1 # 1 /\ queue'[k] = queue[k + 1]
        BY <2>2, <2>3
      <4>2. queue[k + 1] # queue[1] /\ conn[queue[k + 1]] = "queued"
        BY <2>2, <4>1 DEF HolderInv
      <4>3. queue[k + 1] \in Conns
        BY <2>2, <4>1
      <4>4. QED
        BY <2>2, <2>5, <4>1, <4>2, <4>3 DEF TypeOK
    <3>2. QED
      BY <3>1
  <2>11. \A k, l \in 1 .. Len(queue') : queue'[k] = queue'[l] => k = l
    <3>1. ASSUME NEW k \in 1 .. Len(queue'), NEW l \in 1 .. Len(queue'),
                 queue'[k] = queue'[l]
          PROVE  k = l
      <4>1. k + 1 \in 1 .. Len(queue) /\ l + 1 \in 1 .. Len(queue)
        BY <2>2, <2>3
      <4>2. k + 1 = l + 1
        BY <2>3, <3>1, <4>1 DEF HolderInv
      <4>3. QED
        BY <4>2
    <3>2. QED
      BY <3>1
  <2>12. QED
    BY <2>7, <2>8, <2>9, <2>10, <2>11 DEF HolderInv
<1>2. CASE ScanBusy
  BY <1>2, HolderFrame DEF ScanBusy, sockVars
<1>3. CASE ScanFree
  BY <1>3, HolderFrame DEF ScanFree, sockVars
<1>4. CASE Refuse
  <2> USE <1>4 DEF Refuse, ParentCloses
  <2>1. msgsock \in Fds /\ fdtab[msgsock] \in Conns
    BY DEF MainInv
  <2>2. \A k \in 1 .. Len(queue) : queue[k] # fdtab[msgsock]
    BY <2>1 DEF HolderInv
  <2>3. \A k \in 1 .. Len(queue) : queue[k] \in Conns
    BY DEF TypeOK
  <2>4. QED
    BY <2>1, <2>2, <2>3 DEF TypeOK, HolderInv
<1>5. ASSUME NEW p \in Pids, Fork(p) PROVE HolderInv'
  BY <1>5, HolderFrame DEF Fork, Inherits, sockVars, TypeOK
<1>6. CASE ForkFails
  BY <1>6 DEF ForkFails, ParentExits, Drops, HolderInv, TypeOK
<1>7. CASE Store
  BY <1>7, HolderFrame DEF Store, sockVars
<1>8. QED
  BY <1>1, <1>2, <1>3, <1>4, <1>5, <1>6, <1>7 DEF Main

(* The handlers close what they drop from the parent's holdings.           *)
LEMMA HolderHandlers ==
  ASSUME IInv, HolderInv, ChildTerminate \/ ChldNone \/ ParentTerminate PROVE HolderInv'
<1> USE ConstantsAssumption DEF IInv
<1>1. CASE ChldEnter
  BY <1>1, HolderFrame DEF ChldEnter, sockVars
<1>2. ASSUME NEW p \in Pids, ChldReap(p) PROVE HolderInv'
  BY <1>2, HolderFrame DEF ChldReap, sockVars
<1>3. CASE ChldNone
  BY <1>3, HolderFrame DEF ChldNone, sockVars
<1>4. CASE ChldSweep
  <2> USE <1>4 DEF ChldSweep, ParentCloses
  <2>1. \A f \in Fds : fdtab'[f] \in Conns =>
          fdtab'[f] = fdtab[f] /\ f \notin SocketsOf(reaped)
    BY DEF TypeOK
  <2>2. \A f \in Fds : fdtab'[f] \in Conns =>
          conn'[fdtab'[f]] = "open" /\ Parent \in holders'[fdtab'[f]]
    BY <2>1 DEF HolderInv, TypeOK
  <2>3. \A f, g \in Fds : fdtab'[f] = fdtab'[g] /\ fdtab'[f] \in Conns => f = g
    BY <2>1 DEF HolderInv
  <2>4. \A c \in Conns : Parent \in holders'[c] => \E f \in Fds : fdtab'[f] = c
    BY DEF HolderInv, TypeOK
  <2>5. QED
    BY <2>2, <2>3, <2>4 DEF HolderInv
<1>5. ASSUME NEW s \in TermSignals, TermEnter(s) PROVE HolderInv'
  BY <1>5, HolderFrame DEF TermEnter, sockVars
<1>6. CASE TermSkip
  BY <1>6, HolderFrame DEF TermSkip, sockVars
<1>7. CASE TermKill
  BY <1>7, HolderFrame DEF TermKill, sockVars
<1>8. ASSUME NEW p \in Pids, TermReap(p) PROVE HolderInv'
  BY <1>8, HolderFrame DEF TermReap, sockVars
<1>9. CASE TermNone
  BY <1>9, HolderFrame DEF TermNone, sockVars
<1>10. CASE TermExit
  BY <1>10 DEF TermExit, ParentExits, Drops, HolderInv, TypeOK
<1>11. QED
  BY <1>1, <1>2, <1>3, <1>4, <1>5, <1>6, <1>7, <1>8, <1>9, <1>10
     DEF ChildTerminate, ParentTerminate

(* Children and clients leave the parent's descriptors alone.              *)
LEMMA HolderOthers ==
  ASSUME IInv, HolderInv,
         Children \/ Environment \/ \E p \in Pids : StopChild(p)
  PROVE  HolderInv'
<1> USE ConstantsAssumption DEF IInv
<1>1. ASSUME NEW p \in Pids, InstallHandlers(p) PROVE HolderInv'
  BY <1>1, HolderFrame DEF InstallHandlers, sockVars
<1>2. ASSUME NEW p \in Pids, InheritedTerminate(p) PROVE HolderInv'
  BY <1>2, HolderFrame DEF InheritedTerminate, Gone, Drops, sockVars, TypeOK
<1>3. ASSUME NEW p \in Pids, SpawnShell(p) PROVE HolderInv'
  <2>1. Parent # Shell(served[p])
    BY <1>3 DEF SpawnShell, ServedInv, Shell
  <2>2. QED
    BY <1>3, <2>1, HolderFrame DEF SpawnShell, Inherits, sockVars, TypeOK
<1>4. ASSUME NEW p \in Pids, Finish(p) PROVE HolderInv'
  BY <1>4, HolderFrame DEF Finish, Gone, Drops, sockVars, TypeOK
<1>5. ASSUME NEW c \in Conns, ShellExit(c) PROVE HolderInv'
  <2>1. Parent # Shell(c)
    BY DEF Shell
  <2>2. QED
    BY <1>5, <2>1, HolderFrame DEF ShellExit, Drops, sockVars, TypeOK
<1>6. ASSUME NEW c \in Conns, Connect(c) PROVE HolderInv'
  <2>1. /\ conn[c] = "new" /\ queue' = Append(queue, c)
        /\ conn' = [conn EXCEPT ![c] = "queued"]
        /\ UNCHANGED <<fdtab, holders>>
    BY <1>6 DEF Connect
  <2>2. queue \in Seq(Conns) /\ Len(queue) \in Nat
    BY DEF TypeOK
  <2>3. \A k \in 1 .. Len(queue) : queue[k] # c /\ queue[k] \in Conns
    BY <2>1, <2>2 DEF HolderInv
  <2>4. /\ Len(queue') = Len(queue) + 1
        /\ \A k \in 1 .. Len(queue) : queue'[k] = queue[k]
        /\ queue'[Len(queue) + 1] = c
    BY <2>1, <2>2
  <2>5. \A k \in 1 .. Len(queue') : conn'[queue'[k]] = "queued"
    BY <2>1, <2>2, <2>3, <2>4 DEF HolderInv, TypeOK
  <2>6. \A k, l \in 1 .. Len(queue') : queue'[k] = queue'[l] => k = l
    BY <2>2, <2>3, <2>4 DEF HolderInv
  <2>7. QED
    BY <2>1, <2>5, <2>6 DEF HolderInv, TypeOK
<1>7. ASSUME NEW s \in TermSignals, SendTerm(s) PROVE HolderInv'
  BY <1>7, HolderFrame DEF SendTerm, sockVars
<1>8. ASSUME NEW p \in Pids, KillOne(p) PROVE HolderInv'
  BY <1>8, HolderFrame DEF KillOne, sockVars
<1>9. ASSUME NEW p \in Pids, StopChild(p) PROVE HolderInv'
  BY <1>9, HolderFrame DEF StopChild, sockVars
<1>10. QED
  BY <1>1, <1>2, <1>3, <1>4, <1>5, <1>6, <1>7, <1>8, <1>9
     DEF Children, Environment

(* Steps that change nothing.                                              *)
LEMMA HolderStutter == HolderInv /\ UNCHANGED vars => HolderInv'
  BY HolderFrame DEF vars, sockVars

(* So the parent holds a connection exactly while a descriptor has it.     *)
THEOREM JobHolderInv == JobSpec => []HolderInv
<1>1. IInv /\ HolderInv /\ [JobNext]_vars => HolderInv'
  BY HolderMain, HolderHandlers, HolderOthers, HolderStutter DEF JobNext, Next
<1>2. QED
  BY <1>1, InitHolder, JobIInv, PTL DEF JobSpec

(* The parent gives up a connection only when it refuses it, after the     *)
(* child serving it is reaped, or by exiting.                              *)
THEOREM ServedConnectionsKept == JobSpec => ParentKeepsServed
<1> DEFINE Step(c) ==
      Parent \in holders[c] /\ Parent \notin holders'[c] =>
        \/ Exited'
        \/ conn'[c] = "refused"
        \/ ~\E p \in Pids : Child(p) /\ served[p] = c
<1>1. ASSUME IInv, HolderInv, JobNext, NEW c \in Conns PROVE Step(c)
  <2> USE <1>1, ConstantsAssumption DEF IInv
  <2>1. CASE ChldSweep
    <3>1. SUFFICES ASSUME Parent \in holders[c], Parent \notin holders'[c],
                          NEW p \in Pids, Child(p), served[p] = c
                   PROVE  FALSE
      OBVIOUS
    <3>2. PICK s \in Slots : /\ opid[s] = reaped
                             /\ msock[s] \in Fds
                             /\ fdtab[msock[s]] = c
      BY <2>1, <3>1 DEF ChldSweep, ParentCloses, SocketsOf, SlotsOf, TypeOK
    <3>3. reaped \in Pids /\ p # reaped /\ ~Exited
      BY <2>1, <3>1 DEF ChldSweep, SweepInv
    <3>4. home[p] \in Slots /\ msock[home[p]] \in Fds /\ fdtab[msock[home[p]]] = c
      BY <3>1, <3>3 DEF TypeOK, SocketMatchesChild
    <3>5. msock[home[p]] = msock[s]
      <4>1. \A f, g \in Fds : fdtab[f] = c /\ fdtab[g] = c => f = g
        BY DEF HolderInv
      <4>2. QED
        BY <3>2, <3>4, <4>1
    <3>6. CASE opid[home[p]] = p
      BY <3>2, <3>3, <3>4, <3>5, <3>6 DEF SlotInv
    <3>7. CASE pc = "store" /\ i = home[p]
      BY <3>2, <3>3, <3>5, <3>7 DEF MainInv
    <3>8. QED
      BY <3>1, <3>3, <3>6, <3>7 DEF LiveChildRecorded
  <2>2. CASE Main
    <3>1. CASE Accept
      BY <3>1 DEF Accept, TypeOK
    <3>2. CASE Refuse
      BY <3>2 DEF Refuse, ParentCloses, MainInv, TypeOK
    <3>3. CASE ForkFails
      BY <3>3 DEF ForkFails, ParentExits
    <3>4. CASE ScanBusy \/ ScanFree \/ Store
      BY <3>4 DEF ScanBusy, ScanFree, Store
    <3>5. CASE \E p \in Pids : Fork(p)
      BY <3>5 DEF Fork, Inherits, TypeOK
    <3>6. QED
      BY <2>2, <3>1, <3>2, <3>3, <3>4, <3>5 DEF Main
  <2>3. CASE ChldNone \/ (ChildTerminate /\ ~ChldSweep)
    BY <2>3 DEF ChildTerminate, ChldEnter, ChldReap, ChldNone
  <2>4. CASE ParentTerminate
    <3>1. CASE TermExit
      BY <3>1 DEF TermExit, ParentExits
    <3>2. CASE ParentTerminate /\ ~TermExit
      BY <3>2 DEF ParentTerminate, TermEnter, TermSkip, TermKill, TermReap, TermNone
    <3>3. QED
      BY <2>4, <3>1, <3>2
  <2>5. CASE Children
    <3>1. ASSUME NEW h, h # Parent, Drops(h) PROVE Step(c)
      BY <3>1 DEF Drops, TypeOK
    <3>2. \A d \in Conns : Parent # Shell(d)
      BY DEF Shell
    <3>3. CASE \E p \in Pids : InheritedTerminate(p) \/ Finish(p)
      BY <3>1, <3>3 DEF InheritedTerminate, Finish, Gone
    <3>4. CASE \E d \in Conns : ShellExit(d)
      BY <3>1, <3>2, <3>4 DEF ShellExit
    <3>5. CASE \E p \in Pids : InstallHandlers(p) \/ SpawnShell(p)
      <4>1. CASE \E p \in Pids : InstallHandlers(p)
        BY <4>1 DEF InstallHandlers
      <4>2. CASE \E p \in Pids : SpawnShell(p)
        <5>1. holders[c] \subseteq holders'[c]
          BY <4>2 DEF SpawnShell, Inherits
        <5>2. QED
          BY <5>1
      <4>3. QED
        BY <3>5, <4>1, <4>2
    <3>6. QED
      BY <2>5, <3>3, <3>4, <3>5 DEF Children
  <2>6. CASE Environment \/ \E p \in Pids : StopChild(p)
    BY <2>6 DEF Environment, Connect, SendTerm, KillOne, StopChild
  <2>7. QED
    BY <1>1, <2>1, <2>2, <2>3, <2>4, <2>5, <2>6 DEF JobNext, Next
<1>2. IInv /\ HolderInv /\ [JobNext]_vars =>
        [\A c \in Conns : Step(c)]_vars
  BY <1>1
<1>3. QED
  BY <1>2, JobIInv, JobHolderInv, PTL DEF JobSpec, ParentKeepsServed

-----------------------------------------------------------------------------
(* Without job control wait() never blocks the handler                      *)

(* ZombieInv speaks of children, SIGCHLD and the handlers only.            *)
LEMMA ZombieFrame ==
  ASSUME ZombieInv, UNCHANGED <<pc, term, sigchld, chld>>,
         \A p \in Pids : child[p] = "zombie" => child'[p] = "zombie"
  PROVE  ZombieInv'
  BY DEF ZombieInv

(* Only a death raises SIGCHLD, and only the handler's wait() reaps.       *)
LEMMA ZombieStep ==
  ASSUME IInv, ZombieInv, Next PROVE ZombieInv'
<1> USE ConstantsAssumption DEF IInv
<1>1. CASE Main
  <2>1. CASE ForkFails
    BY <2>1 DEF ForkFails, ParentExits, ZombieInv
  <2>2. CASE Accept \/ ScanBusy \/ ScanFree \/ Refuse \/ Store
    BY <2>2 DEF Accept, ScanBusy, ScanFree, Refuse, Store, ZombieInv, chldVars, termVars
  <2>3. CASE \E p \in Pids : Fork(p)
    BY <2>3 DEF Fork, ZombieInv, chldVars, termVars, TypeOK
  <2>4. QED
    BY <1>1, <2>1, <2>2, <2>3 DEF Main
<1>2. CASE ChildTerminate
  <2>1. CASE ChldEnter
    BY <2>1 DEF ChldEnter, ZombieInv, termVars
  <2>2. ASSUME NEW p \in Pids, ChldReap(p) PROVE ZombieInv'
    BY <2>2 DEF ChldReap, ZombieInv, termVars, TypeOK
  <2>3. CASE ChldSweep
    BY <2>3 DEF ChldSweep, ZombieInv, termVars
  <2>4. QED
    BY <1>2, <2>1, <2>2, <2>3 DEF ChildTerminate
<1>3. CASE ParentTerminate
  <2>1. term' # "idle"
    BY <1>3 DEF ParentTerminate, TermEnter, TermSkip, TermKill, TermReap,
                TermNone, TermExit, termVars
  <2>2. QED
    BY <2>1 DEF ZombieInv
<1>4. CASE Children
  <2>1. ASSUME NEW p \in Pids, child[p] # "zombie", child[p] # "none", Gone(p)
        PROVE  ZombieInv'
    BY <2>1 DEF Gone, ZombieInv, mainVars, chldVars, termVars, TypeOK
  <2>2. CASE \E p \in Pids : InheritedTerminate(p) \/ Finish(p)
    BY <2>1, <2>2 DEF InheritedTerminate, Finish
  <2>3. CASE \E p \in Pids : InstallHandlers(p) \/ SpawnShell(p)
    BY <2>3, ZombieFrame
       DEF InstallHandlers, SpawnShell, mainVars, chldVars, termVars, TypeOK
  <2>4. CASE \E c \in Conns : ShellExit(c)
    BY <2>4, ZombieFrame DEF ShellExit, mainVars, chldVars, termVars
  <2>5. QED
    BY <1>4, <2>2, <2>3, <2>4 DEF Children
<1>5. CASE Environment
  BY <1>5, ZombieFrame
     DEF Environment, Connect, SendTerm, KillOne, mainVars, chldVars, termVars
<1>6. QED
  BY <1>1, <1>2, <1>3, <1>4, <1>5 DEF Next

(* A SIGCHLD handler that has been entered finds a dead child: its wait()  *)
(* returns at once.                                                        *)
THEOREM WaitReturns == Spec => []WaitHasZombie
<1>1. Init => ZombieInv
  BY DEF Init, ZombieInv
<1>2. IInv /\ ZombieInv /\ [Next]_vars => ZombieInv'
  <2>1. ASSUME ZombieInv, UNCHANGED vars PROVE ZombieInv'
    BY <2>1 DEF ZombieInv, vars, mainVars, chldVars, termVars
  <2>2. QED
    BY <2>1, ZombieStep
<1>3. ZombieInv => WaitHasZombie
  BY DEF ZombieInv, WaitHasZombie
<1>4. QED
  BY <1>1, <1>2, <1>3, JobIInv, SpecIsJobSpec, PTL DEF Spec

-----------------------------------------------------------------------------
(* The daemon implements the service of module ConnService                  *)

(* A connection a live child serves is open, and is not the one main() has  *)
(* in hand.                                                                *)
LEMMA ServingIs ==
  ASSUME IInv, HolderInv, ~Exited, NEW c \in Conns
  PROVE  /\ Serving(c) => conn[c] = "open"
         /\ InHand(c) => conn[c] = "open" /\ ~Serving(c)
<1> USE ConstantsAssumption DEF IInv
<1>1. ASSUME Serving(c) PROVE conn[c] = "open" /\ ~InHand(c)
  <2>1. PICK p \in Pids : Live(p) /\ served[p] = c
    BY <1>1 DEF Serving
  <2>2. /\ home[p] \in Slots /\ msock[home[p]] \in Fds
        /\ fdtab[msock[home[p]]] = c
    BY <2>1 DEF SocketMatchesChild, TypeOK
  <2>3. conn[c] = "open"
    BY <2>2 DEF HolderInv
  <2>4. ASSUME InHand(c) PROVE FALSE
    <3>1. msgsock \in Fds /\ fdtab[msgsock] = c
      BY <2>4 DEF InHand, MainInv
    <3>2. msock[home[p]] = msgsock
      <4>1. \A f, g \in Fds : fdtab[f] = fdtab[g] /\ fdtab[f] \in Conns => f = g
        BY DEF HolderInv
      <4> HIDE DEF IInv
      <4>2. QED
        BY <2>2, <3>1, <4>1
    <3>3. opid[home[p]] = p
      BY <2>1, <2>4 DEF LiveChildRecorded, InHand
    <3>4. QED
      BY <2>2, <2>4, <3>2, <3>3 DEF MainInv, InHand
  <2>5. QED
    BY <2>3, <2>4
<1>2. InHand(c) => conn[c] = "open"
  <2>1. \A f \in Fds : fdtab[f] \in Conns => conn[fdtab[f]] = "open"
    BY DEF HolderInv
  <2> HIDE DEF IInv
  <2>2. QED
    BY <2>1 DEF IInv, InHand, MainInv
<1>3. QED
  BY <1>1, <1>2

(* What the refinement mapping says of a connection. *)
LEMMA StandingIs ==
  ASSUME IInv, HolderInv, ~Exited, NEW c \in Conns
  PROVE  /\ Serving(c) <=> Standing(c) = "served"
         /\ InHand(c) <=> Standing(c) = "accepted"
         /\ conn[c] # "open" => Standing(c) = conn[c]
         /\ Standing(c) \in {"served", "accepted", "over"} <=> conn[c] = "open"
<1>1. conn[c] \in {"new", "queued", "open", "refused", "dropped"}
  BY DEF IInv, TypeOK
<1>2. QED
  BY <1>1, ServingIs DEF Standing

(* Both modules count alike. *)
LEMMA SameCount == \A S : Service!Cardinality(S) = Cardinality(S)
  BY DEF Cardinality, Service!Cardinality

(* At the start every connection is new. *)
LEMMA InitService == Init => Service!Init
<1>1. ASSUME Init, NEW c \in Conns PROVE Standing(c) = "new"
  BY <1>1 DEF Init, Standing
<1>2. QED
  BY <1>1 DEF Init, Service!Init

(* accept() takes the head of the listen queue. *)
LEMMA AcceptTakes ==
  ASSUME IInv, HolderInv, Accept PROVE Service!Take
<1> USE ConstantsAssumption DEF IInv
<1>1. ~Exited /\ ~Exited' /\ queue # <<>> /\ queue' = Tail(queue)
  BY DEF Accept
<1>2. Head(queue) \in Conns /\ conn[Head(queue)] = "queued"
  <2>1. queue \in Seq(Conns) /\ queue # <<>> /\ 1 \in 1 .. Len(queue)
    BY <1>1 DEF TypeOK
  <2>2. QED
    BY <2>1 DEF HolderInv
<1>3. \A c \in Conns : ~InHand(c) /\ (InHand(c)' <=> c = Head(queue))
  BY <1>2 DEF Accept, InHand, TypeOK
<1>4. \A c \in Conns : Serving(c)' <=> Serving(c)
  BY DEF Accept, Serving, kidVars
<1>5. ~Serving(Head(queue))
  BY <1>1, <1>2, ServingIs
<1>6. \A c \in Conns : Standing(c)' = IF c = Head(queue) THEN "accepted" ELSE Standing(c)
  BY <1>2, <1>3, <1>4, <1>5 DEF Standing, Accept, TypeOK
<1>7. \A c \in Conns : Standing(c) # "accepted"
  BY <1>1, <1>3, StandingIs
<1>8. QED
  BY <1>1, <1>2, <1>6, <1>7 DEF Service!Take, Service!In

(* fork() gives the connection in hand a child; there was room for it. *)
LEMMA ForkServes ==
  ASSUME IInv, HolderInv, NEW p \in Pids, Fork(p)
  PROVE  /\ Standing(fdtab[msgsock]) = "accepted"
         /\ \A c \in Conns : Standing(c)' = IF c = fdtab[msgsock] THEN "served"
                                            ELSE Standing(c)
         /\ \E c \in Conns : Service!Serve(c)
<1> USE ConstantsAssumption DEF IInv
<1> DEFINE it == fdtab[msgsock]
<1>1. ~Exited /\ ~Exited' /\ pc = "fork" /\ pc' = "store"
  BY DEF Fork
<1>2. it \in Conns /\ conn[it] = "open" /\ InHand(it)
  BY <1>1 DEF MainInv, HolderInv, InHand
<1>3. Standing(it) = "accepted"
  BY <1>1, <1>2, StandingIs
<1>4. \A c \in Conns : Serving(c)' <=> (Serving(c) \/ c = it)
  <2>1. /\ child[p] = "none"
        /\ child' = [child EXCEPT ![p] = "forked"]
        /\ served' = [served EXCEPT ![p] = it]
    BY DEF Fork
  <2>2. child \in [Pids -> {"none", "forked", "dialog", "serving", "zombie"}]
        /\ served \in [Pids -> Conns \cup {NoConn}]
    BY DEF TypeOK
  <2>3. \A q \in Pids : /\ q # p => child'[q] = child[q] /\ served'[q] = served[q]
                        /\ child'[p] = "forked" /\ served'[p] = it
    BY <2>1, <2>2
  <2>4. QED
    BY <2>1, <2>3 DEF Serving
<1>5. \A c \in Conns : /\ InHand(c) <=> c = it
                       /\ ~InHand(c)'
                       /\ conn'[c] = conn[c]
  BY <1>1 DEF InHand, Fork, sockVars
<1>6. \A c \in Conns : Standing(c)' = IF c = it THEN "served" ELSE Standing(c)
  BY <1>2, <1>4, <1>5 DEF Standing
(* Each connection that is served has a child, in a slot other than i.     *)
<1>7. Cardinality(Service!In("served")) < MaxChildren
  <2> DEFINE S == Service!In("served")
             T == Slots \ {i}
             of(c) == CHOOSE q \in Pids : Live(q) /\ served[q] = c
             f == [c \in S |-> home[of(c)]]
  <2>1. S = {c \in Conns : Serving(c)}
    BY <1>1, StandingIs DEF Service!In
  <2>2. \A c \in S : of(c) \in Pids /\ Live(of(c)) /\ served[of(c)] = c
    BY <2>1 DEF Serving
  <2>3. \A q \in Pids : Child(q) => home[q] \in Slots /\ opid[home[q]] = q
    BY <1>1 DEF LiveChildRecorded, TypeOK
  <2>4. \A q \in Pids : Child(q) => home[q] \in T
    BY <1>1, <2>3 DEF MainInv
  <2>5. f \in [S -> T]
    BY <2>2, <2>4
  <2>6. \A c, d \in S : f[c] = f[d] => c = d
    <3>1. SUFFICES ASSUME NEW c \in S, NEW d \in S, f[c] = f[d] PROVE c = d
      OBVIOUS
    <3>2. of(c) = of(d)
      BY <2>2, <2>3, <3>1
    <3>3. QED
      BY <2>2, <3>2
  <2>7. f \in Injection(S, T)
    BY <2>5, <2>6 DEF Injection, IsInjective
  <2>8. IsFiniteSet(Slots) /\ Cardinality(Slots) = MaxChildren /\ i \in Slots
    BY <1>1, FS_Interval DEF MainInv
  <2>9. IsFiniteSet(T) /\ Cardinality(T) = MaxChildren - 1
    <3> HIDE DEF Slots
    <3>1. QED
      BY <2>8, FS_RemoveElement
  <2>10. Cardinality(S) <= Cardinality(T) /\ IsFiniteSet(S)
    BY <2>7, <2>9, FS_Injection
  <2>11. Cardinality(S) \in Nat
    BY <2>10, FS_CardinalityType
  <2>12. QED
    BY <2>9, <2>10, <2>11
<1>8. Service!Serve(it)
  <2>1. queue' = queue
    BY DEF Fork, sockVars
  <2>2. QED
    BY <1>1, <1>2, <1>3, <1>6, <1>7, <2>1, SameCount DEF Service!Serve
<1>9. QED
  BY <1>2, <1>3, <1>6, <1>8

(* A search that has found no slot has passed MAX_CHILDREN of them. *)
LEMMA RefuseTurnsAway ==
  ASSUME IInv, HolderInv, SearchInv, Refuse
  PROVE  \E c \in Conns : Service!TurnAway(c)
<1> USE ConstantsAssumption DEF IInv
<1> DEFINE it == fdtab[msgsock]
<1>1. ~Exited /\ ~Exited' /\ pc = "scan" /\ pc' = "accept" /\ i = MaxChildren
      /\ queue' = queue
  BY DEF Refuse, NoSlotLeft
<1>2. it \in Conns /\ conn[it] = "open" /\ InHand(it)
  BY <1>1 DEF MainInv, HolderInv, InHand
<1>3. Standing(it) = "accepted"
  BY <1>1, <1>2, StandingIs
<1>4. \A c \in Conns : Serving(c)' <=> Serving(c)
  BY DEF Refuse, Serving, kidVars
<1>5. \A c \in Conns : /\ InHand(c) <=> c = it
                       /\ ~InHand(c)'
                       /\ conn'[c] = IF c = it THEN "refused" ELSE conn[c]
  BY <1>1, <1>2 DEF InHand, Refuse, TypeOK
<1>6. \A c \in Conns : Standing(c)' = IF c = it THEN "refused" ELSE Standing(c)
  BY <1>2, <1>4, <1>5 DEF Standing
<1>7. Cardinality(Service!In("served") \cup Service!In("over")) >= MaxChildren
  <2> DEFINE G == Service!In("served") \cup Service!In("over")
  <2>1. G = Opened \ {it}
    <3>1. \A c \in Conns : c \in Opened \ {it} <=> Standing(c) \in {"served", "over"}
      BY <1>1, <1>5, StandingIs DEF Opened
    <3>2. QED
      BY <3>1 DEF Service!In, Opened
  <2>2. PICK given \in [0 .. i - 1 -> Opened \ {it}] :
          \A j, k \in 0 .. i - 1 : given[j] = given[k] => j = k
    BY <1>1 DEF SearchInv
  <2>3. given \in Injection(0 .. i - 1, G)
    BY <2>1, <2>2 DEF Injection, IsInjective
  <2>4. IsFiniteSet(G)
    BY <2>1, FS_Subset DEF SearchInv
  <2>5. Cardinality(0 .. i - 1) = MaxChildren
    BY <1>1, FS_Interval
  <2>6. Cardinality(G) \in Nat
    BY <2>4, FS_CardinalityType
  <2>7. QED
    BY <2>3, <2>4, <2>5, <2>6, FS_Injection
<1>8. Service!TurnAway(it)
  BY <1>1, <1>2, <1>3, <1>6, <1>7, SameCount DEF Service!TurnAway
<1>9. QED
  BY <1>2, <1>8

(* exit() drops what is queued or in hand and lets the children go on. *)
LEMMA ExitStops ==
  ASSUME IInv, HolderInv, ~Exited, ParentExits PROVE Service!Stop
<1> USE ConstantsAssumption DEF IInv
<1>1. Exited' /\ queue' = <<>>
  BY DEF ParentExits
<1>2. \A c \in Conns : Serving(c)' <=> Serving(c)
  BY DEF ParentExits, Serving, TypeOK, kidVars
<1>3. \A c \in Conns : /\ ~InHand(c)'
                       /\ conn'[c] = IF conn[c] = "queued" \/ InHand(c)
                                     THEN "dropped" ELSE conn[c]
  BY DEF ParentExits, InHand, TypeOK
<1>4. \A c \in Conns : Standing(c)' = IF Standing(c) \in {"queued", "accepted"}
                                      THEN "dropped" ELSE Standing(c)
  <2>1. SUFFICES ASSUME NEW c \in Conns
                 PROVE  Standing(c)' = IF Standing(c) \in {"queued", "accepted"}
                                       THEN "dropped" ELSE Standing(c)
    OBVIOUS
  <2>2. CASE InHand(c)
    BY <1>2, <1>3, <2>2, StandingIs DEF Standing
  <2>3. CASE ~InHand(c)
    <3>1. conn'[c] = IF conn[c] = "queued" THEN "dropped" ELSE conn[c]
      BY <1>3, <2>3
    <3>2. conn[c] = "queued" <=> Standing(c) = "queued"
      BY <2>3 DEF Standing
    <3>3. Standing(c) # "accepted"
      BY <2>3, StandingIs
    <3>4. QED
      BY <1>2, <1>3, <2>3, <3>1, <3>2, <3>3 DEF Standing
  <2>4. QED
    BY <2>2, <2>3
<1>5. QED
  BY <1>1, <1>4 DEF Service!Stop

(* The death of a child ends the connection it serves. *)
LEMMA DeathEnds ==
  ASSUME IInv, HolderInv, NEW p \in Pids, child[p] \in {"forked", "dialog", "serving"}, Gone(p)
  PROVE  (\E c \in Conns : Service!End(c)) \/ UNCHANGED Service!vars
<1> USE ConstantsAssumption DEF IInv
<1>0. PICK it \in Conns : it = served[p]
  BY DEF ServedInv
<1>1. /\ (Exited' <=> Exited) /\ queue' = queue /\ conn' = conn
      /\ \A c \in Conns : InHand(c)' <=> InHand(c)
  BY DEF Gone, mainVars, sockVars, InHand
<1>2. \A c \in Conns : c # it => (Serving(c)' <=> Serving(c))
  <2>1. \A q \in Pids : q # p => child'[q] = child[q]
    BY DEF Gone, TypeOK
  <2>2. served' = served
    BY DEF Gone, kidVars
  <2>3. child'[p] \in {"none", "zombie"}
    BY DEF Gone, TypeOK
  <2>4. QED
    BY <1>0, <2>1, <2>2, <2>3 DEF Serving
<1>3. Serving(it)
  BY <1>0 DEF Serving
<1>4. \A c \in Conns : c # it => Standing(c)' = Standing(c)
  BY <1>1, <1>2 DEF Standing
<1>5. Standing(it)' # Standing(it) => Standing(it) = "served" /\ Standing(it)' = "over"
  <2>1. ~InHand(it) /\ ~InHand(it)'
    <3>1. ~InHand(it)
      BY ServingIs, <1>3 DEF InHand
    <3>2. QED
      BY <1>1, <3>1
  <2>2. Standing(it) = IF conn[it] # "open" THEN conn[it] ELSE "served"
    BY <1>3 DEF Standing
  <2>3. Standing(it)' = IF conn[it] # "open" THEN conn[it]
                        ELSE IF Serving(it)' THEN "served" ELSE "over"
    BY <1>1, <2>1 DEF Standing
  <2>4. QED
    BY <2>2, <2>3
<1>6. CASE Standing(it)' = Standing(it)
  BY <1>1, <1>4, <1>6 DEF Service!vars
<1>7. CASE Standing(it)' # Standing(it)
  <2>1. Service!End(it)
    BY <1>1, <1>3, <1>4, <1>5, <1>7 DEF Service!End
  <2>2. QED
    BY <1>3, <2>1
<1>8. QED
  BY <1>6, <1>7

(* connect() joins the listen queue. *)
LEMMA ConnectArrives ==
  ASSUME NEW c \in Conns, IInv, Connect(c) PROVE Service!Arrive(c)
<1>1. /\ Standing(c) = "new" /\ ~Exited /\ ~Exited' /\ queue' = Append(queue, c)
  BY DEF Connect, Standing, mainVars
<1>2. \A d \in Conns : Standing(d)' = IF d = c THEN "queued" ELSE Standing(d)
  BY DEF Connect, Standing, Serving, InHand, kidVars, mainVars, IInv, TypeOK
<1>3. QED
  BY <1>1, <1>2 DEF Service!Arrive

(* No connection is open at the start. *)
LEMMA InitSearch == Init => SearchInv
<1>1. Init => Opened = {}
  BY DEF Init, Opened
<1>2. QED
  BY <1>1, FS_EmptySet DEF Init, SearchInv

(* SearchInv survives when slots are freed behind main()'s back. *)
LEMMA SearchFrame ==
  ASSUME IInv, SearchInv, Opened' = Opened, UNCHANGED <<pc, i, msgsock>>,
         pc = "scan" => fdtab'[msgsock] = fdtab[msgsock],
         \A s \in Slots : Occupied(s)' => /\ Occupied(s)
                                         /\ fdtab'[msock'[s]] = fdtab[msock[s]]
  PROVE  SearchInv'
<1>1. ASSUME pc = "scan"
      PROVE  \E given \in [0 .. i - 1 -> Opened \ {fdtab'[msgsock]}] :
               /\ \A j, k \in 0 .. i - 1 : given[j] = given[k] => j = k
               /\ \A j \in 0 .. i - 1, s \in i .. MaxChildren - 1 :
                    Occupied(s)' => fdtab'[msock'[s]] # given[j]
  <2>1. PICK given \in [0 .. i - 1 -> Opened \ {fdtab[msgsock]}] :
               /\ \A j, k \in 0 .. i - 1 : given[j] = given[k] => j = k
               /\ \A j \in 0 .. i - 1, s \in i .. MaxChildren - 1 :
                    Occupied(s) => fdtab[msock[s]] # given[j]
    BY <1>1 DEF SearchInv
  <2>2. i \in 0 .. MaxChildren
    BY DEF IInv, TypeOK
  <2>3. i .. MaxChildren - 1 \subseteq Slots
    BY <2>2, ConstantsAssumption
  <2>4. given \in [0 .. i - 1 -> Opened \ {fdtab'[msgsock]}]
    BY <1>1, <2>1
  <2>5. \A j \in 0 .. i - 1, s \in i .. MaxChildren - 1 :
          Occupied(s)' => fdtab'[msock'[s]] # given[j]
    BY <2>1, <2>3
  <2>6. QED
    BY <2>1, <2>4, <2>5
<1>2. QED
  BY <1>1 DEF SearchInv

(* The descriptor main() has in hand and those of the slots that stay.      *)
LEMMA SweepKeeps ==
  ASSUME IInv, ChldSweep
  PROVE  /\ pc \in {"scan", "fork"} => fdtab'[msgsock] = fdtab[msgsock]
         /\ \A s \in Slots : Occupied(s)' =>
              /\ Occupied(s)
              /\ fdtab'[msock'[s]] = fdtab[msock[s]]
<1> USE ConstantsAssumption DEF IInv, ChldSweep, SlotsOf, SocketsOf, ParentCloses
<1>1. ~Exited /\ reaped # NoPid
  BY DEF SweepInv
<1>2. \A f \in Fds : (\A s \in Slots : opid[s] = reaped => msock[s] # f)
                     => fdtab'[f] = fdtab[f]
  BY DEF TypeOK
<1>3. pc \in {"scan", "fork"} => fdtab'[msgsock] = fdtab[msgsock]
  BY <1>1, <1>2 DEF MainInv
<1>4. ASSUME NEW s \in Slots, Occupied(s)'
      PROVE  /\ Occupied(s)
             /\ fdtab'[msock'[s]] = fdtab[msock[s]]
  <2>1. Occupied(s) /\ opid[s] # reaped /\ msock'[s] = msock[s]
    BY <1>4 DEF TypeOK
  <2>2. QED
    BY <1>1, <1>2, <2>1 DEF SlotInv
<1>5. QED
  BY <1>3, <1>4

(* Each slot the search passes adds its own connection. *)
LEMMA SearchMain ==
  ASSUME IInv, HolderInv, SearchInv, Main PROVE SearchInv'
<1> USE ConstantsAssumption DEF IInv
<1>1. CASE Accept
  <2>1. Head(queue) \in Conns
    BY <1>1 DEF Accept, TypeOK
  <2>2. Opened' = Opened \cup {Head(queue)}
    BY <1>1, <2>1 DEF Accept, Opened, TypeOK
  <2>3. IsFiniteSet(Opened')
    BY <2>2, FS_AddElement DEF SearchInv
  <2>4. i' = 0 /\ 0 .. i' - 1 = {}
    BY <1>1 DEF Accept
  <2>5. [j \in 0 .. i' - 1 |-> 0] \in [0 .. i' - 1 -> Opened' \ {fdtab'[msgsock']}]
    BY <2>4
  <2>6. QED
    BY <2>3, <2>4, <2>5 DEF SearchInv
<1>2. CASE ScanBusy
  <2> DEFINE new == fdtab[msock[i]]
  <2>1. PICK given \in [0 .. i - 1 -> Opened \ {fdtab[msgsock]}] :
          /\ \A j, k \in 0 .. i - 1 : given[j] = given[k] => j = k
          /\ \A j \in 0 .. i - 1, s \in i .. MaxChildren - 1 :
               Occupied(s) => fdtab[msock[s]] # given[j]
    BY <1>2 DEF ScanBusy, SearchInv
  <2>2. /\ ~Exited /\ i' = i + 1 /\ Occupied(i) /\ i \in Slots
        /\ UNCHANGED <<pc, msgsock, opid, msock, fdtab, conn>>
    BY <1>2 DEF ScanBusy, FreeSlot, tableVars, sockVars, TypeOK
  <2>3. /\ msock[i] \in Fds /\ new \in Conns
        /\ msgsock \in Fds /\ msock[i] # msgsock
    BY <1>2, <2>2 DEF SlotInv, MainInv, ScanBusy
  <2>4. new \in Opened \ {fdtab[msgsock]}
    BY <2>3 DEF HolderInv, Opened
  <2>5. \A s \in i + 1 .. MaxChildren - 1 : Occupied(s) => fdtab[msock[s]] # new
    <3>1. SUFFICES ASSUME NEW s \in i + 1 .. MaxChildren - 1, Occupied(s),
                          fdtab[msock[s]] = new
                   PROVE  FALSE
      OBVIOUS
    <3>2. s \in Slots /\ s # i
      BY <2>2
    <3>3. msock[s] \in Fds
      BY <2>2, <3>1, <3>2 DEF SlotInv
    <3>4. msock[s] = msock[i]
      BY <2>3, <3>1, <3>3 DEF HolderInv
    <3>5. QED
      BY <2>2, <3>1, <3>2, <3>4 DEF SlotInv
  <2> DEFINE more == [j \in 0 .. i |-> IF j = i THEN new ELSE given[j]]
  <2>6. more \in [0 .. i -> Opened \ {fdtab[msgsock]}]
    BY <2>2, <2>4
  <2>7. \A j, k \in 0 .. i : more[j] = more[k] => j = k
    BY <2>1, <2>2
  <2>8. \A j \in 0 .. i, s \in i + 1 .. MaxChildren - 1 :
          Occupied(s) => fdtab[msock[s]] # more[j]
    BY <2>1, <2>2, <2>5
  <2>9. i' - 1 = i /\ Opened' = Opened
    BY <2>2 DEF Opened
  <2>10. SearchInv' <=>
           /\ IsFiniteSet(Opened)
           /\ pc = "scan" =>
                \E g \in [0 .. i -> Opened \ {fdtab[msgsock]}] :
                  /\ \A j, k \in 0 .. i : g[j] = g[k] => j = k
                  /\ \A j \in 0 .. i, s \in i + 1 .. MaxChildren - 1 :
                       Occupied(s) => fdtab[msock[s]] # g[j]
    BY <2>2, <2>9 DEF SearchInv
  <2>11. IsFiniteSet(Opened)
    BY DEF SearchInv
  <2> HIDE DEF more
  <2>12. QED
    BY <2>6, <2>7, <2>8, <2>10, <2>11
<1>3. CASE Refuse
  <2>1. Opened' \subseteq Opened
    BY <1>3 DEF Refuse, Opened, TypeOK, MainInv
  <2>2. QED
    BY <1>3, <2>1, FS_Subset DEF Refuse, SearchInv
<1>4. CASE ScanFree \/ (\E p \in Pids : Fork(p)) \/ Store
  <2>1. Opened' = Opened /\ pc' # "scan"
    BY <1>4 DEF ScanFree, Fork, Store, Opened, sockVars
  <2>2. QED
    BY <2>1 DEF SearchInv
<1>5. CASE ForkFails
  <2>1. Opened' \subseteq Opened /\ pc' # "scan"
    BY <1>5 DEF ForkFails, ParentExits, Opened
  <2>2. QED
    BY <2>1, FS_Subset DEF SearchInv
<1>6. QED
  BY <1>1, <1>2, <1>3, <1>4, <1>5 DEF Main

(* Nobody else touches what the search has seen, but for the slots the     *)
(* handler frees.                                                          *)
LEMMA SearchOthers ==
  ASSUME IInv, SearchInv,
         \/ ChildTerminate \/ ChldNone \/ ParentTerminate \/ Children
         \/ Environment \/ \E p \in Pids : StopChild(p)
  PROVE  SearchInv'
<1> USE ConstantsAssumption DEF IInv
<1>1. CASE ChldSweep
  <2>1. Opened' = Opened /\ UNCHANGED <<pc, i, msgsock>>
    BY <1>1 DEF ChldSweep, Opened, mainVars
  <2>2. QED
    BY <1>1, <2>1, SweepKeeps, SearchFrame
<1>2. CASE TermExit
  <2>1. Opened' \subseteq Opened /\ pc' # "scan"
    BY <1>2 DEF TermExit, ParentExits, Opened
  <2>2. QED
    BY <2>1, FS_Subset DEF SearchInv
<1>3. CASE UNCHANGED <<pc, i, msgsock, opid, msock, fdtab>> /\ Opened' = Opened
  BY <1>3, SearchFrame
<1>4. ASSUME ~ChldSweep, ~TermExit
      PROVE  UNCHANGED <<pc, i, msgsock, opid, msock, fdtab>> /\ Opened' = Opened
  <2>1. CASE ChildTerminate \/ ChldNone
    BY <1>4, <2>1 DEF ChildTerminate, ChldEnter, ChldReap, ChldNone, Opened,
       mainVars, tableVars, sockVars
  <2>2. CASE ParentTerminate
    BY <1>4, <2>2 DEF ParentTerminate, TermEnter, TermSkip, TermKill, TermReap,
       TermNone, Opened, mainVars, tableVars, sockVars
  <2>3. CASE Children
    BY <2>3 DEF Children, InstallHandlers, InheritedTerminate, SpawnShell, Finish,
       ShellExit, Gone, Opened, mainVars, tableVars, sockVars
  <2>4. ASSUME NEW c \in Conns, Connect(c)
        PROVE  UNCHANGED <<pc, i, msgsock, opid, msock, fdtab>> /\ Opened' = Opened
    BY <2>4 DEF Connect, Opened, mainVars, tableVars, TypeOK
  <2>5. CASE Environment \/ \E p \in Pids : StopChild(p)
    BY <2>4, <2>5 DEF Environment, SendTerm, KillOne, StopChild, Opened,
       mainVars, tableVars, sockVars
  <2>6. QED
    BY <2>1, <2>2, <2>3, <2>5
<1>5. QED
  BY <1>1, <1>2, <1>3, <1>4

(* The steps a client cannot see. *)
LEMMA Unseen ==
  ASSUME UNCHANGED <<queue, conn>>, Exited' <=> Exited,
         \A c \in Conns : Serving(c)' <=> Serving(c),
         \A c \in Conns : InHand(c)' <=> InHand(c)
  PROVE  UNCHANGED Service!vars
<1>1. \A c \in Conns : Standing(c)' = Standing(c)
  BY DEF Standing
<1>2. QED
  BY <1>1 DEF Service!vars

(* Each step of the daemon is a step of the service or none.               *)
LEMMA MainImplements ==
  ASSUME IInv, HolderInv, SearchInv, Main
  PROVE  Service!Next \/ UNCHANGED Service!vars
<1>1. CASE Accept
  BY <1>1, AcceptTakes DEF Service!Next
<1>2. CASE Refuse
  BY <1>2, RefuseTurnsAway DEF Service!Next, Service!Decide
<1>3. CASE \E p \in Pids : Fork(p)
  BY <1>3, ForkServes DEF Service!Next, Service!Decide
<1>4. CASE ForkFails
  <2>1. ~Exited /\ ParentExits
    BY <1>4 DEF ForkFails
  <2>2. QED
    BY <2>1, ExitStops DEF Service!Next
<1>5. CASE ScanBusy \/ ScanFree \/ Store
  <2>1. UNCHANGED <<queue, conn>> /\ (Exited' <=> Exited)
    BY <1>5 DEF ScanBusy, ScanFree, Store, sockVars
  <2>2. \A c \in Conns : Serving(c)' <=> Serving(c)
    BY <1>5 DEF ScanBusy, ScanFree, Store, Serving, kidVars
  <2>3. \A c \in Conns : InHand(c)' <=> InHand(c)
    BY <1>5 DEF ScanBusy, ScanFree, Store, InHand, sockVars
  <2>4. QED
    BY <2>1, <2>2, <2>3, Unseen
<1>6. QED
  BY <1>1, <1>2, <1>3, <1>4, <1>5 DEF Main

(* Of the handlers only the exit is seen from outside. *)
LEMMA HandlersImplement ==
  ASSUME IInv, HolderInv, ChildTerminate \/ ChldNone \/ ParentTerminate
  PROVE  Service!Next \/ UNCHANGED Service!vars
<1>1. CASE TermExit
  <2>1. ~Exited /\ ParentExits
    BY <1>1 DEF TermExit
  <2>2. QED
    BY <2>1, ExitStops DEF Service!Next
<1>2. CASE ~TermExit
  <2>1. UNCHANGED <<queue, conn, pc, msgsock, served>>
    BY <1>2 DEF ChildTerminate, ChldEnter, ChldReap, ChldSweep, ChldNone,
       ParentTerminate, TermEnter, TermSkip, TermKill, TermReap, TermNone,
       mainVars, sockVars, kidVars
  <2>2. \A p \in Pids : Live(p)' <=> Live(p)
    BY <1>2 DEF ChildTerminate, ChldEnter, ChldReap, ChldSweep, ChldNone,
       ParentTerminate, TermEnter, TermSkip, TermKill, TermReap, TermNone,
       IInv, TypeOK
  <2>3. \A c \in Conns : Serving(c)' <=> Serving(c)
    <3> HIDE DEF Live
    <3>1. QED
      BY <2>1, <2>2 DEF Serving
  <2>4. pc \in {"scan", "fork"} => fdtab'[msgsock] = fdtab[msgsock]
    <3>1. CASE ChldSweep
      BY <3>1, SweepKeeps
    <3>2. CASE ~ChldSweep
      BY <1>2, <3>2 DEF ChildTerminate, ChldEnter, ChldReap, ChldNone,
         ParentTerminate, TermEnter, TermSkip, TermKill, TermReap, TermNone, sockVars
    <3>3. QED
      BY <3>1, <3>2
  <2>5. \A c \in Conns : InHand(c)' <=> InHand(c)
    BY <2>1, <2>4 DEF InHand
  <2>6. QED
    BY <2>1, <2>3, <2>5, Unseen
<1>3. QED
  BY <1>1, <1>2

(* Of the children only their deaths are. *)
LEMMA ChildrenImplement ==
  ASSUME IInv, HolderInv, Children
  PROVE  Service!Next \/ UNCHANGED Service!vars
<1>1. CASE \E p \in Pids : InheritedTerminate(p) \/ Finish(p)
  BY <1>1, DeathEnds DEF InheritedTerminate, Finish, Service!Next
<1>2. CASE (\E p \in Pids : InstallHandlers(p) \/ SpawnShell(p))
           \/ \E c \in Conns : ShellExit(c)
  <2>1. UNCHANGED <<queue, conn, fdtab, pc, msgsock, served>>
    BY <1>2 DEF InstallHandlers, SpawnShell, ShellExit, mainVars, sockVars, kidVars
  <2>2. \A p \in Pids : Live(p)' <=> Live(p)
    BY <1>2 DEF InstallHandlers, SpawnShell, ShellExit, IInv, TypeOK
  <2>3. \A c \in Conns : Serving(c)' <=> Serving(c)
    <3> HIDE DEF Live
    <3>1. QED
      BY <2>1, <2>2 DEF Serving
  <2>4. \A c \in Conns : InHand(c)' <=> InHand(c)
    BY <2>1 DEF InHand
  <2>5. QED
    BY <2>1, <2>3, <2>4, Unseen
<1>3. QED
  BY <1>1, <1>2 DEF Children

(* Clients arrive; signals are not seen. *)
LEMMA EnvironmentImplements ==
  ASSUME IInv, Environment \/ \E p \in Pids : StopChild(p)
  PROVE  Service!Next \/ UNCHANGED Service!vars
<1>1. CASE \E c \in Conns : Connect(c)
  BY <1>1, ConnectArrives DEF Service!Next
<1>2. CASE (\E s \in TermSignals : SendTerm(s))
           \/ \E p \in Pids : KillOne(p) \/ StopChild(p)
  <2>1. UNCHANGED <<queue, conn, fdtab, pc, msgsock, served, child>>
    BY <1>2 DEF SendTerm, KillOne, StopChild, mainVars, sockVars, kidVars
  <2>2. \A c \in Conns : Serving(c)' <=> Serving(c)
    BY <2>1 DEF Serving
  <2>3. \A c \in Conns : InHand(c)' <=> InHand(c)
    BY <2>1 DEF InHand
  <2>4. QED
    BY <2>1, <2>2, <2>3, Unseen
<1>3. QED
  BY <1>1, <1>2 DEF Environment

(* The daemon implements the service its clients count on, for any number   *)
(* of slots, processes, connections and descriptors, with or without job    *)
(* control: connections are taken first come, first served, never more than *)
(* MAX_CHILDREN are served at a time, and none is refused before            *)
(* MAX_CHILDREN others have been given a child (simple_daemon.c:159-192).   *)
THEOREM DaemonServes == JobSpec => ServiceImplemented
<1>1. IInv /\ SearchInv /\ HolderInv /\ [JobNext]_vars => SearchInv'
  <2>1. ASSUME IInv, SearchInv, UNCHANGED vars PROVE SearchInv'
    <3>1. /\ UNCHANGED <<pc, i, msgsock, fdtab, opid, msock>>
          /\ Opened' = Opened
      BY <2>1 DEF vars, mainVars, tableVars, sockVars, Opened
    <3>2. QED
      BY <2>1, <3>1, SearchFrame
  <2>2. QED
    BY <2>1, SearchMain, SearchOthers DEF JobNext, Next
<1>2. IInv /\ HolderInv /\ SearchInv /\ [JobNext]_vars
        => [Service!Next]_(Service!vars)
  <2>1. ASSUME UNCHANGED vars PROVE UNCHANGED Service!vars
    <3>1. UNCHANGED <<queue, conn, fdtab, pc, msgsock, served, child>>
      BY <2>1 DEF vars, mainVars, sockVars, kidVars
    <3>2. /\ \A c \in Conns : Serving(c)' <=> Serving(c)
          /\ \A c \in Conns : InHand(c)' <=> InHand(c)
      BY <3>1 DEF Serving, InHand
    <3>3. QED
      BY <3>1, <3>2, Unseen
  <2>2. QED
    BY <2>1, MainImplements, HandlersImplement, ChildrenImplement,
       EnvironmentImplements DEF JobNext, Next
<1>3. QED
  BY <1>1, <1>2, InitService, InitSearch, JobIInv, JobHolderInv, PTL
     DEF JobSpec, ServiceImplemented, Service!Spec

HIDE DEF Slots, Occupied, Live, Child, Exited, MainRuns

(***************************************************************************)
(* The relay of one client                                                 *)
(***************************************************************************)

(* Between a read and the write that passes it on, and at no other time,    *)
(* buf holds data: lines on their way in, outputs on their way out.         *)
BufHolds ==
  /\ Len(buf) <= RecvMax
  /\ childPC = "write" => buf \in Seq(Lines)
  /\ childPC = "send" => buf \in Seq(Outputs)
  /\ childPC \notin {"write", "send"} => buf = <<>>

(* Nothing is said before there is a shell, and nothing sent before the     *)
(* greeting.                                                                *)
Opening ==
  /\ childPC \in {"greet", "pipe", "fork"} => sh = "none"
  /\ sh \in {"none", "exec"} => fromShell = <<>>
  /\ childPC = "greet" => outSock = <<>> /\ seen = <<>> /\ said = <<>>

DialogIInv == DialogTypeOK /\ InwardInOrder /\ OutwardInOrder /\ BufHolds /\ Opening

(* The child turns to the socket only when the shell has nothing to say.    *)
(* From then on each command the shell reads leaves room in its pipe and    *)
(* earns at most an answer and the next prompt.                             *)
Owed == IF sh = "read" THEN 2 ELSE IF sh = "prompt" THEN 1 ELSE 0
RepliesBounded ==
  childPC \in {"recv", "write"} /\ sh # "gone" =>
    Len(fromShell) + 2 * Len(toShell) <= 2 * ToShellCap + Owed

-----------------------------------------------------------------------------
(* One read: what it returns and what it leaves are the whole (First() and  *)
(* After(), the read() and recv() calls of the child and of the shell).     *)
LEMMA FirstAfter ==
  ASSUME NEW S, NEW s \in Seq(S), NEW n \in Nat, n > 0
  PROVE  /\ First(s, n) \in Seq(S) /\ Len(First(s, n)) <= n
         /\ After(s, Len(First(s, n))) \in Seq(S)
         /\ Len(After(s, Len(First(s, n)))) = Len(s) - Len(First(s, n))
         /\ First(s, n) \o After(s, Len(First(s, n))) = s
         /\ s # <<>> => Len(First(s, n)) > 0
<1> DEFINE k == IF Len(s) < n THEN Len(s) ELSE n
           f == SubSeq(s, 1, k)
           a == SubSeq(s, k + 1, Len(s))
<1>1. k \in Nat /\ k <= n /\ k <= Len(s) /\ Len(s) \in Nat /\ (s # <<>> => k > 0)
  BY EmptySeq, LenProperties
<1> HIDE DEF k
<1>e. \A j \in 1 .. Len(s) : s[j] \in S
  BY ElementOfSeq
<1>2. f \in Seq(S) /\ Len(f) = k
  BY <1>1, <1>e, SubSeqProperties
<1>3. a \in Seq(S) /\ Len(a) = Len(s) - k
  BY <1>1, <1>e, SubSeqProperties
<1>4. f \o a = s
  <2>1. /\ 1 \in 1 .. Len(s) + 1 /\ k \in 1 - 1 .. Len(s)
        /\ Len(s) \in k .. Len(s)
    BY <1>1
  <2>2. f \o a = SubSeq(s, 1, Len(s))
    BY <2>1, ConcatAdjacentSubSeq
  <2>3. QED
    BY <2>2, SubSeqFull
<1>5. First(s, n) = f /\ After(s, Len(First(s, n))) = a
  BY <1>2 DEF k, First, After
<1>6. QED
  BY <1>1, <1>2, <1>3, <1>4, <1>5

(* A piece moved from the head of what follows to the tail of what precedes *)
(* leaves the whole as it was: concatenation is associative.                *)
LEMMA Associative ==
  ASSUME NEW S, NEW a \in Seq(S), NEW b \in Seq(S), NEW c \in Seq(S)
  PROVE  a \o (b \o c) = a \o b \o c
BY ConcatAssociative, SMTT(30)

(* Lines moved from one queue to the next keep their order. *)
LEMMA MovingLines ==
  \A a, b, c \in Seq(Lines) : a \o b \in Seq(Lines) /\ a \o (b \o c) = a \o b \o c
BY Associative, ConcatProperties

(* Outputs moved from one queue to the next keep their order. *)
LEMMA MovingOutputs ==
  \A a, b, c \in Seq(Outputs) : a \o b \in Seq(Outputs) /\ a \o (b \o c) = a \o b \o c
BY Associative, ConcatProperties

(* Of both, the order alone. *)
LEMMA LinesMoved == \A a, b, c \in Seq(Lines) : a \o (b \o c) = a \o b \o c
BY Associative

LEMMA OutputsMoved == \A a, b, c \in Seq(Outputs) : a \o (b \o c) = a \o b \o c
BY Associative

-----------------------------------------------------------------------------
(* The sizes of buffers and pipes. *)
LEMMA Sizes ==
  /\ RecvMax \in Nat /\ RecvMax > 0 /\ ShellMax \in Nat /\ ShellMax > 0
  /\ ToShellCap \in Nat /\ ToShellCap > 0 /\ FromShellCap \in Nat /\ FromShellCap > 0
  /\ SockCap \in Nat /\ SockCap > 0 /\ RecvMax <= ToShellCap /\ RecvMax <= SockCap
BY SizesAssumption

(* The greeting is one output. *)
LEMMA GreetingSays ==
  /\ <<>> \in Seq(Outputs) /\ Len(<<>>) = 0
  /\ <<"greeting">> \in Seq(Outputs) /\ Len(<<"greeting">>) = 1
BY DEF Outputs

(* Nothing has been typed, said or passed on when the child starts. *)
THEOREM InitDialogIInv == DialogInit => DialogIInv
<1> SUFFICES ASSUME DialogInit PROVE DialogIInv
  OBVIOUS
<1>1. <<>> \in Seq(Lines) /\ <<>> \in Seq(Outputs) /\ Len(<<>>) = 0
  BY EmptySeq
<1>2. /\ childPC = "greet" /\ sh = "none" /\ buf = <<>>
      /\ outSock = <<>> /\ fromShell = <<>> /\ seen = <<>> /\ said = <<>>
  BY DEF DialogInit
<1>3. urgent \in BOOLEAN /\ command = "" /\ client = "open"
  BY DEF DialogInit
<1>4. inSock = <<>> /\ toShell = <<>> /\ got = <<>> /\ sent = <<>>
  BY DEF DialogInit
<1>5. DialogTypeOK
  <2>1. Len(toShell) <= ToShellCap /\ Len(fromShell) <= FromShellCap /\ Len(outSock) <= SockCap
    BY <1>1, <1>2, <1>4, Sizes
  <2>2. QED
    BY <1>1, <1>2, <1>3, <1>4, <2>1, Zenon DEF DialogTypeOK, ChildPCs
<1>6. <<>> \o <<>> = <<>>
  BY <1>1, ConcatEmptySeq
<1>7. InwardInOrder /\ OutwardInOrder
  BY <1>2, <1>4, <1>6 DEF InwardInOrder, OutwardInOrder, InBuf, OutBuf, Greeting
<1>8. BufHolds /\ Opening
  BY <1>1, <1>2, Sizes DEF BufHolds, Opening
<1>9. QED
  BY <1>5, <1>7, <1>8 DEF DialogIInv

(* What every step starts from: the data in each place, and its type. *)
Typed ==
  /\ inSock \in Seq(Lines) /\ toShell \in Seq(Lines)
  /\ sent \in Seq(Lines) /\ got \in Seq(Lines) /\ InBuf \in Seq(Lines)
  /\ outSock \in Seq(Outputs) /\ fromShell \in Seq(Outputs)
  /\ said \in Seq(Outputs) /\ seen \in Seq(Outputs) /\ OutBuf \in Seq(Outputs)

(* The types, from the invariant. *)
LEMMA TypedData == ASSUME DialogIInv PROVE Typed
<1>1. <<>> \in Seq(Lines) /\ <<>> \in Seq(Outputs)
  BY EmptySeq
<1>2. InBuf \in Seq(Lines) /\ OutBuf \in Seq(Outputs)
  BY <1>1 DEF DialogIInv, BufHolds, InBuf, OutBuf
<1>3. QED
  BY <1>2 DEF DialogIInv, DialogTypeOK, Typed

USE DEF childVars, pipes, shellVars, history

(* The child greets, makes the pipes and forks the shell. *)
LEMMA OpeningIInv ==
  ASSUME DialogIInv, Greet \/ MakePipes \/ ForkShell PROVE DialogIInv'
<1>1. Typed
  BY TypedData
<1>2. CASE Greet
  <2>1. /\ childPC = "greet" /\ childPC' = "pipe" /\ sh = "none" /\ client' = client
        /\ outSock = <<>> /\ fromShell = <<>> /\ seen = <<>> /\ said = <<>> /\ buf = <<>>
        /\ outSock' = IF client = "open" THEN Append(outSock, "greeting") ELSE outSock
        /\ UNCHANGED <<buf, fromShell, seen, said>>
    BY <1>2 DEF Greet, DialogIInv, Opening, BufHolds
  <2>2. Append(outSock, "greeting") = <<"greeting">>
    BY <2>1
  <2>3. outSock' \in Seq(Outputs) /\ Len(outSock') <= SockCap
    <3>1. outSock' \in {<<>>, <<"greeting">>}
      BY <2>1, <2>2
    <3>2. QED
      <4>1. ASSUME NEW q, q \in Seq(Outputs), Len(q) \in {0, 1}
            PROVE  Len(q) <= SockCap
        BY <4>1, Sizes
      <4>2. QED
        BY GreetingSays, <3>1, <4>1
  <2>4. DialogTypeOK'
    BY <1>2, <2>1, <2>3 DEF Greet, DialogIInv, DialogTypeOK, ChildPCs
  <2>5. InwardInOrder'
    BY <1>2, <2>1 DEF Greet, DialogIInv, InwardInOrder, Relaying, InBuf
  <2>6. OutwardInOrder'
    <3>1. <<>> \o <<"greeting">> \o <<>> \o <<>> = <<"greeting">> \o <<>>
      BY GreetingSays, ConcatEmptySeq
    <3>2. QED
      BY <2>1, <2>2, <3>1 DEF OutwardInOrder, OutBuf, Greeting
  <2>7. BufHolds' /\ Opening'
    BY <1>2, <2>1 DEF Greet, DialogIInv, BufHolds, Opening
  <2>8. QED
    BY <2>4, <2>5, <2>6, <2>7 DEF DialogIInv
<1>3. CASE MakePipes \/ ForkShell
  <2>1. /\ childPC \in {"pipe", "fork"} /\ childPC' \in {"fork", "finish", "select"} /\ sh = "none"
        /\ sh' \in {"none", "exec"} /\ (childPC' = "fork" => sh' = "none")
        /\ UNCHANGED <<buf, inSock, outSock, pipes, command, client, urgent, history>>
    BY <1>3 DEF MakePipes, ForkShell, DialogIInv, Opening
  <2>2. DialogTypeOK' /\ BufHolds' /\ Opening'
    BY <2>1 DEF DialogIInv, DialogTypeOK, ChildPCs, BufHolds, Opening
  <2>3. InwardInOrder' /\ OutwardInOrder'
    BY <2>1 DEF DialogIInv, InwardInOrder, OutwardInOrder, Relaying, InBuf, OutBuf, Greeting
  <2>4. QED
    BY <2>2, <2>3 DEF DialogIInv
<1>4. QED
  BY <1>2, <1>3

(* The child waits for either side. *)
LEMMA SelectIInv ==
  ASSUME DialogIInv, Select PROVE DialogIInv'
<1>1. /\ childPC = "select" /\ childPC' \in {"finish", "read", "recv"}
      /\ UNCHANGED <<buf, inSock, outSock, pipes, shellVars, client, urgent, history>>
  BY DEF Select
<1>2. DialogTypeOK' /\ BufHolds' /\ Opening'
  BY <1>1 DEF DialogIInv, DialogTypeOK, ChildPCs, BufHolds, Opening
<1>3. InwardInOrder' /\ OutwardInOrder'
  BY <1>1 DEF DialogIInv, InwardInOrder, OutwardInOrder, Relaying, InBuf, OutBuf, Greeting
<1>4. QED
  BY <1>2, <1>3 DEF DialogIInv

(* The child passes an output of the shell on to the client. *)
LEMMA OutwardIInv ==
  ASSUME DialogIInv, ReadPipe \/ Send PROVE DialogIInv'
<1>1. Typed
  BY TypedData
<1>2. CASE ReadPipe
  <2>1. /\ childPC = "read" /\ buf = <<>>
        /\ buf' = First(fromShell, RecvMax)
        /\ fromShell' = After(fromShell, Len(First(fromShell, RecvMax)))
        /\ childPC' = IF buf' = <<>> THEN "finish" ELSE "send"
        /\ UNCHANGED <<inSock, outSock, toShell, shellVars, client, urgent, history>>
    BY <1>2 DEF ReadPipe, DialogIInv, BufHolds
  <2>2. /\ fromShell \in Seq(Outputs) /\ Len(fromShell) <= FromShellCap
        /\ sh \in {"none", "exec"} => fromShell = <<>>
    BY DEF DialogIInv, DialogTypeOK, Opening
  <2>3. /\ buf' \in Seq(Outputs) /\ Len(buf') <= RecvMax /\ fromShell' \in Seq(Outputs)
        /\ Len(fromShell') = Len(fromShell) - Len(buf')
        /\ buf' \o fromShell' = fromShell
    BY <2>1, <2>2, Sizes, FirstAfter
  <2>4. Len(fromShell') <= Len(fromShell) /\ (fromShell = <<>> => fromShell' = <<>>)
    BY <2>2, <2>3, EmptySeq, LenProperties
  <2>5. DialogTypeOK'
    <3>1. Len(fromShell') <= FromShellCap
      BY <2>2, <2>3, <2>4, Sizes, LenProperties
    <3>2. QED
      BY <2>1, <2>3, <3>1 DEF DialogIInv, DialogTypeOK, ChildPCs
  <2>6. BufHolds' /\ Opening'
    BY <2>1, <2>2, <2>3, <2>4 DEF DialogIInv, BufHolds, Opening
  <2>7. InwardInOrder'
    BY <2>1 DEF DialogIInv, InwardInOrder, Relaying, InBuf
  <2>8. OutwardInOrder'
    <3>1. SUFFICES ASSUME client = "open"
                   PROVE  seen \o outSock \o buf' \o fromShell' = <<"greeting">> \o said
      BY <2>1 DEF OutwardInOrder, Relaying, OutBuf, Greeting
    <3>2. seen \o outSock \o <<>> \o fromShell = <<"greeting">> \o said
      BY <2>1, <3>1 DEF DialogIInv, OutwardInOrder, Relaying, OutBuf, Greeting
    <3>3. /\ seen \o outSock \in Seq(Outputs)
          /\ seen \o outSock \o <<>> = seen \o outSock
      BY <1>1, ConcatProperties, ConcatEmptySeq DEF Typed
    <3>4. seen \o outSock \o (buf' \o fromShell') = seen \o outSock \o buf' \o fromShell'
      <4>1. seen \o outSock \in Seq(Outputs) /\ buf' \in Seq(Outputs)
            /\ fromShell' \in Seq(Outputs)
        BY <2>3, <3>3
      <4>2. QED
        BY <4>1, OutputsMoved
    <3>5. QED
      BY <2>3, <3>2, <3>3, <3>4
  <2>9. QED
    BY <2>5, <2>6, <2>7, <2>8 DEF DialogIInv
<1>3. CASE Send
  <2>1. /\ childPC = "send" /\ childPC' = "select" /\ buf' = <<>> /\ buf \in Seq(Outputs)
        /\ \/ /\ Len(outSock) + Len(buf) <= SockCap /\ outSock' = outSock \o buf
              /\ client' = client
           \/ client' = "reset" /\ outSock' = outSock
        /\ UNCHANGED <<inSock, pipes, shellVars, urgent, history>>
    BY <1>3 DEF Send, AllToClient, DialogIInv, BufHolds
  <2>2. outSock' \in Seq(Outputs) /\ Len(outSock') <= SockCap
    <3>1. outSock \o buf \in Seq(Outputs) /\ Len(outSock \o buf) = Len(outSock) + Len(buf)
      BY <1>1, <2>1, ConcatProperties DEF Typed
    <3>2. Len(outSock) <= SockCap
      BY DEF DialogIInv, DialogTypeOK
    <3>3. QED
      BY <1>1, <2>1, <3>1, <3>2 DEF Typed
  <2>e. <<>> \in Seq(Outputs) /\ Len(<<>>) = 0
    BY EmptySeq
  <2>3. DialogTypeOK' /\ BufHolds' /\ Opening'
    <3>1. DialogTypeOK'
      BY <2>1, <2>2, <2>e DEF DialogIInv, DialogTypeOK, ChildPCs
    <3>2. BufHolds'
      BY <2>1, <2>e, Sizes DEF BufHolds
    <3>3. Opening'
      BY <2>1 DEF DialogIInv, Opening
    <3>4. QED
      BY <3>1, <3>2, <3>3
  <2>4. InwardInOrder'
    BY <2>1 DEF DialogIInv, InwardInOrder, Relaying, InBuf
  <2>5. OutwardInOrder'
    <3>1. SUFFICES ASSUME client = "open", outSock' = outSock \o buf
                   PROVE  seen \o (outSock \o buf) \o <<>> \o fromShell = <<"greeting">> \o said
      BY <2>1 DEF OutwardInOrder, Relaying, OutBuf, Greeting
    <3>2. seen \o outSock \o buf \o fromShell = <<"greeting">> \o said
      BY <2>1, <3>1 DEF DialogIInv, OutwardInOrder, Relaying, OutBuf, Greeting
    <3>3. seen \o (outSock \o buf) = seen \o outSock \o buf
      <4>1. seen \in Seq(Outputs) /\ outSock \in Seq(Outputs) /\ buf \in Seq(Outputs)
        BY <1>1, <2>1 DEF Typed
      <4>2. QED
        BY <4>1, OutputsMoved
    <3>4. seen \o outSock \o buf \o <<>> = seen \o outSock \o buf
      BY <1>1, <2>1, ConcatProperties, ConcatEmptySeq DEF Typed
    <3>5. QED
      BY <3>2, <3>3, <3>4
  <2>6. QED
    BY <2>3, <2>4, <2>5 DEF DialogIInv
<1>4. QED
  BY <1>2, <1>3

(* The child passes lines of the client on to the shell. *)
LEMMA InwardIInv ==
  ASSUME DialogIInv, RecvSocket \/ WriteShell PROVE DialogIInv'
<1>1. Typed
  BY TypedData
<1>e. <<>> \in Seq(Lines) /\ Len(<<>>) = 0
  BY EmptySeq
<1>2. CASE RecvSocket
  <2>1. /\ childPC = "recv" /\ buf = <<>>
        /\ buf' = IF client = "reset" THEN <<>> ELSE First(inSock, RecvMax)
        /\ inSock' = After(inSock, Len(buf'))
        /\ childPC' = IF buf' = <<>> THEN "finish" ELSE "write"
        /\ UNCHANGED <<outSock, pipes, shellVars, client, urgent, history>>
    BY <1>2 DEF RecvSocket, DialogIInv, BufHolds
  <2>2. /\ First(inSock, RecvMax) \in Seq(Lines) /\ Len(First(inSock, RecvMax)) <= RecvMax
        /\ After(inSock, Len(First(inSock, RecvMax))) \in Seq(Lines)
        /\ First(inSock, RecvMax) \o After(inSock, Len(First(inSock, RecvMax))) = inSock
    BY <1>1, Sizes, FirstAfter DEF Typed
  <2>3. After(inSock, Len(<<>>)) = inSock
    <3>1. After(inSock, Len(<<>>)) = SubSeq(inSock, 1, Len(inSock))
      BY <1>e DEF After
    <3>2. QED
      BY <1>1, <3>1, SubSeqFull DEF Typed
  <2>4. buf' \in Seq(Lines) /\ Len(buf') <= RecvMax /\ inSock' \in Seq(Lines)
    BY <1>1, <1>e, <2>1, <2>2, <2>3, Sizes DEF Typed
  <2>5. DialogTypeOK'
    BY <2>1, <2>4 DEF DialogIInv, DialogTypeOK, ChildPCs
  <2>6. BufHolds' /\ Opening'
    BY <2>1, <2>4 DEF DialogIInv, BufHolds, Opening
  <2>7. InwardInOrder'
    <3>1. SUFFICES ASSUME client # "reset"
                   PROVE  got \o toShell \o buf' \o inSock' = sent
      BY <2>1 DEF InwardInOrder, Relaying, InBuf
    <3>2. got \o toShell \o <<>> \o inSock = sent
      BY <2>1, <3>1 DEF DialogIInv, InwardInOrder, Relaying, InBuf
    <3>3. got \o toShell \in Seq(Lines) /\ got \o toShell \o <<>> = got \o toShell
      BY <1>1, ConcatProperties, ConcatEmptySeq DEF Typed
    <3>4. buf' \o inSock' = inSock
      BY <2>1, <2>2, <3>1
    <3>5. got \o toShell \o (buf' \o inSock') = got \o toShell \o buf' \o inSock'
      BY <2>4, <3>3, LinesMoved
    <3>6. QED
      BY <3>2, <3>3, <3>4, <3>5
  <2>8. OutwardInOrder'
    BY <2>1 DEF DialogIInv, OutwardInOrder, Relaying, OutBuf, Greeting
  <2>9. QED
    BY <2>5, <2>6, <2>7, <2>8 DEF DialogIInv
<1>3. CASE WriteShell
  <2>1. /\ childPC = "write" /\ childPC' = "select" /\ buf' = <<>> /\ buf \in Seq(Lines)
        /\ Len(toShell) + Len(buf) <= ToShellCap /\ toShell' = toShell \o buf
        /\ UNCHANGED <<inSock, outSock, fromShell, shellVars, client, urgent, history>>
    BY <1>3 DEF WriteShell, RoomInPipe, AllToShell, DialogIInv, BufHolds
  <2>2. toShell' \in Seq(Lines) /\ Len(toShell') <= ToShellCap
    BY <1>1, <2>1, ConcatProperties DEF Typed
  <2>3. DialogTypeOK'
    BY <1>e, <2>1, <2>2 DEF DialogIInv, DialogTypeOK, ChildPCs
  <2>4. BufHolds' /\ Opening'
    <3>1. BufHolds'
      BY <1>e, <2>1, Sizes DEF BufHolds
    <3>2. Opening'
      BY <2>1 DEF DialogIInv, Opening
    <3>3. QED
      BY <3>1, <3>2
  <2>5. InwardInOrder'
    <3>1. SUFFICES ASSUME client # "reset"
                   PROVE  got \o (toShell \o buf) \o <<>> \o inSock = sent
      BY <2>1 DEF InwardInOrder, Relaying, InBuf
    <3>2. got \o toShell \o buf \o inSock = sent
      BY <2>1, <3>1 DEF DialogIInv, InwardInOrder, Relaying, InBuf
    <3>3. got \in Seq(Lines) /\ toShell \in Seq(Lines) /\ buf \in Seq(Lines)
      BY <1>1, <2>1 DEF Typed
    <3>4. got \o (toShell \o buf) = got \o toShell \o buf
      BY <3>3, LinesMoved
    <3>5. got \o toShell \o buf \o <<>> = got \o toShell \o buf
      BY <3>3, ConcatProperties, ConcatEmptySeq
    <3>6. QED
      BY <3>2, <3>4, <3>5
  <2>6. OutwardInOrder'
    BY <2>1 DEF DialogIInv, OutwardInOrder, Relaying, OutBuf, Greeting
  <2>7. QED
    BY <2>3, <2>4, <2>5, <2>6 DEF DialogIInv
<1>4. QED
  BY <1>2, <1>3

(* The child ends; what was on its way is of no one's concern. *)
LEMMA EndsIInv ==
  ASSUME DialogIInv, Ends PROVE DialogIInv'
<1>1. /\ childPC' = "gone" /\ buf' = <<>>
      /\ UNCHANGED <<inSock, outSock, pipes, shellVars, client, urgent, history>>
  BY DEF Ends
<1>2. <<>> \in Seq(Lines) /\ Len(<<>>) = 0
  BY EmptySeq
<1>3. DialogTypeOK'
  BY <1>1, <1>2 DEF DialogIInv, DialogTypeOK, ChildPCs
<1>4. BufHolds'
  BY <1>1, <1>2, Sizes DEF BufHolds
<1>5. Opening' /\ InwardInOrder' /\ OutwardInOrder'
  BY <1>1 DEF DialogIInv, Opening, InwardInOrder, OutwardInOrder, Relaying
<1>6. QED
  BY <1>3, <1>4, <1>5 DEF DialogIInv

(* One more output of the shell goes to the end of its pipe, and is said. *)
LEMMA SaidInOrder ==
  ASSUME DialogIInv, NEW out \in Outputs, sh \notin {"none", "exec"} \/ sh' = "gone",
         sh # "none", Len(fromShell) < FromShellCap,
         fromShell' = Append(fromShell, out), said' = Append(said, out),
         UNCHANGED <<childVars, outSock, client, seen>>
  PROVE  /\ fromShell' \in Seq(Outputs) /\ Len(fromShell') <= FromShellCap
         /\ said' \in Seq(Outputs)
         /\ OutwardInOrder'
<1>1. /\ seen \in Seq(Outputs) /\ outSock \in Seq(Outputs) /\ OutBuf \in Seq(Outputs)
      /\ fromShell \in Seq(Outputs) /\ said \in Seq(Outputs)
  BY TypedData DEF Typed
<1>2. <<out>> \in Seq(Outputs) /\ fromShell' = fromShell \o <<out>> /\ said' = said \o <<out>>
  BY <1>1, AppendIsConcat
<1>3. /\ fromShell' \in Seq(Outputs) /\ Len(fromShell') = Len(fromShell) + 1
      /\ said' \in Seq(Outputs)
  BY <1>1, AppendProperties
<1>4. Len(fromShell') <= FromShellCap
  BY <1>1, <1>3, Sizes, LenProperties
<1>5. OutwardInOrder'
  <2>1. SUFFICES ASSUME Relaying, client = "open"
                 PROVE  seen \o outSock \o OutBuf \o fromShell' = Greeting \o said'
    BY DEF OutwardInOrder, Relaying, OutBuf, Greeting
  <2>2. seen \o outSock \o OutBuf \o fromShell = Greeting \o said
    BY <2>1 DEF DialogIInv, OutwardInOrder
  <2>3. Greeting \in Seq(Outputs) /\ seen \o outSock \o OutBuf \in Seq(Outputs)
    <3>1. Greeting \in Seq(Outputs)
      BY GreetingSays DEF Greeting
    <3>2. QED
      BY <1>1, <3>1, MovingOutputs
  <2> DEFINE before == seen \o outSock \o OutBuf
  <2>b. before \in Seq(Outputs)
    BY <2>3
  <2> HIDE DEF before
  <2>4. before \o (fromShell \o <<out>>) = before \o fromShell \o <<out>>
    <3>1. fromShell \in Seq(Outputs) /\ <<out>> \in Seq(Outputs)
      BY <1>1, <1>2
    <3>2. QED
      BY <2>b, <3>1, OutputsMoved
  <2>5. Greeting \o (said \o <<out>>) = Greeting \o said \o <<out>>
    <3>1. said \in Seq(Outputs) /\ <<out>> \in Seq(Outputs)
      BY <1>1, <1>2
    <3>2. QED
      BY <2>3, <3>1, OutputsMoved
  <2>6. QED
    BY <1>2, <2>2, <2>4, <2>5 DEF before
<1>6. QED
  BY <1>3, <1>4, <1>5

(* The shell starts, prompts, reads a command and answers it. *)
LEMMA ShellIInv ==
  ASSUME DialogIInv, ShellStep PROVE DialogIInv'
<1>1. Typed
  BY TypedData
<1>2. CASE Exec
  <2>1. /\ sh = "exec" /\ sh' \in {"prompt", "gone"}
        /\ \/ UNCHANGED <<fromShell, said>>
           \/ /\ sh' = "gone"
              /\ fromShell' = Append(fromShell, "cannot spawn")
              /\ said' = Append(said, "cannot spawn")
        /\ UNCHANGED <<childVars, inSock, outSock, toShell, command, client, urgent,
                       sent, got, seen>>
    BY <1>2 DEF Exec
  <2>2. fromShell = <<>> /\ Len(fromShell) < FromShellCap /\ childPC # "greet"
    BY <2>1, Sizes, EmptySeq DEF DialogIInv, Opening
  <2>3. /\ fromShell' \in Seq(Outputs) /\ Len(fromShell') <= FromShellCap
        /\ said' \in Seq(Outputs) /\ OutwardInOrder'
    <3>1. CASE UNCHANGED <<fromShell, said>>
      BY <2>1, <3>1 DEF DialogIInv, DialogTypeOK, OutwardInOrder, Relaying, OutBuf, Greeting
    <3>2. "cannot spawn" \in Outputs
      BY DEF Outputs
    <3>3. QED
      BY <2>1, <2>2, <3>1, <3>2, SaidInOrder
  <2>4. DialogTypeOK'
    BY <2>1, <2>3 DEF DialogIInv, DialogTypeOK
  <2>5. InwardInOrder' /\ BufHolds' /\ Opening'
    BY <2>1, <2>2 DEF DialogIInv, InwardInOrder, Relaying, InBuf, BufHolds, Opening
  <2>6. QED
    BY <2>3, <2>4, <2>5 DEF DialogIInv
<1>3. CASE Prompt \/ Answer
  <2>1. PICK out \in {"prompt", "goodbye", "answer"} :
          \/ sh' = "gone" /\ UNCHANGED <<fromShell, said>>
          \/ /\ Len(fromShell) < FromShellCap
             /\ fromShell' = Append(fromShell, out)
             /\ said' = Append(said, out)
    BY <1>3 DEF Prompt, Answer, Say
  <2>2. /\ sh \in {"prompt", "answer"} /\ sh' \in {"gone", "read", "prompt"}
        /\ UNCHANGED <<childVars, inSock, outSock, toShell, command, client, urgent,
                       sent, got, seen>>
    BY <1>3 DEF Prompt, Answer, Say
  <2>3. childPC # "greet"
    BY <2>2 DEF DialogIInv, Opening
  <2>4. /\ fromShell' \in Seq(Outputs) /\ Len(fromShell') <= FromShellCap
        /\ said' \in Seq(Outputs) /\ OutwardInOrder'
    <3>1. CASE UNCHANGED <<fromShell, said>>
      BY <2>2, <3>1 DEF DialogIInv, DialogTypeOK, OutwardInOrder, Relaying, OutBuf, Greeting
    <3>2. out \in Outputs
      BY DEF Outputs
    <3>3. QED
      BY <2>1, <2>2, <3>1, <3>2, SaidInOrder
  <2>5. DialogTypeOK'
    BY <2>2, <2>4 DEF DialogIInv, DialogTypeOK
  <2>6. InwardInOrder' /\ BufHolds' /\ Opening'
    BY <2>2, <2>3 DEF DialogIInv, InwardInOrder, Relaying, InBuf, BufHolds, Opening
  <2>7. QED
    BY <2>4, <2>5, <2>6 DEF DialogIInv
<1>4. CASE ReadCommand
  <2> DEFINE line == First(toShell, ShellMax)
  <2>1. /\ sh = "read" /\ sh' = "answer"
        /\ command' = IF line = <<>> THEN "" ELSE line[1]
        /\ toShell' = After(toShell, Len(line)) /\ got' = got \o line
        /\ UNCHANGED <<childVars, inSock, outSock, fromShell, client, urgent, sent,
                       said, seen>>
    BY <1>4 DEF ReadCommand
  <2>2. /\ line \in Seq(Lines) /\ After(toShell, Len(line)) \in Seq(Lines)
        /\ Len(After(toShell, Len(line))) = Len(toShell) - Len(line)
        /\ line \o After(toShell, Len(line)) = toShell
    BY <1>1, Sizes, FirstAfter DEF Typed
  <2> HIDE DEF line
  <2>3. command' \in Lines \cup {""}
    <3>1. line # <<>> => line[1] \in Lines
      BY <2>2, EmptySeq, ElementOfSeq
    <3>2. QED
      BY <2>1, <3>1
  <2>4. toShell' \in Seq(Lines) /\ Len(toShell') <= ToShellCap
    <3>1. Len(toShell) \in Nat /\ Len(line) \in Nat /\ Len(toShell) <= ToShellCap
      BY <1>1, <2>2, LenProperties DEF Typed, DialogIInv, DialogTypeOK
    <3>2. Len(toShell') <= Len(toShell)
      <4>1. Len(toShell') = Len(toShell) - Len(line)
        BY <2>1, <2>2
      <4>2. QED
        BY <3>1, <4>1
    <3>3. ASSUME NEW m \in Int, NEW n \in Nat, m <= n, n <= ToShellCap
          PROVE  m <= ToShellCap
      BY <3>3, Sizes
    <3>4. toShell' \in Seq(Lines)
      BY <2>1, <2>2
    <3>5. QED
      BY <3>1, <3>2, <3>3, <3>4, LenProperties
  <2>5. got' \in Seq(Lines)
    BY <1>1, <2>1, <2>2, MovingLines DEF Typed
  <2>6. DialogTypeOK'
    BY <2>1, <2>3, <2>4, <2>5 DEF DialogIInv, DialogTypeOK
  <2>7. got' \o toShell' = got \o toShell
    <3>1. got \in Seq(Lines) /\ line \in Seq(Lines) /\ toShell' \in Seq(Lines)
      BY <1>1, <2>2, <2>4 DEF Typed
    <3>2. got \o (line \o toShell') = got \o line \o toShell'
      BY <3>1, LinesMoved
    <3>3. QED
      BY <2>1, <2>2, <3>2
  <2>8. InwardInOrder'
    BY <2>1, <2>7 DEF DialogIInv, InwardInOrder, Relaying, InBuf
  <2>9. OutwardInOrder' /\ BufHolds' /\ Opening'
    BY <2>1 DEF DialogIInv, OutwardInOrder, Relaying, OutBuf, Greeting, BufHolds, Opening
  <2>10. QED
    BY <2>6, <2>8, <2>9 DEF DialogIInv
<1>5. QED
  BY <1>2, <1>3, <1>4 DEF ShellStep

(* The client types, looks, closes or interrupts. *)
LEMMA ClientIInv ==
  ASSUME DialogIInv, Client PROVE DialogIInv'
<1>1. Typed
  BY TypedData
<1>2. CASE \E l \in Lines : Type(l)
  <2>1. PICK l \in Lines :
          /\ inSock' = Append(inSock, l) /\ sent' = Append(sent, l)
          /\ UNCHANGED <<childVars, outSock, pipes, shellVars, client, urgent, got,
                         said, seen>>
    BY <1>2 DEF Type
  <2>2. /\ <<l>> \in Seq(Lines) /\ inSock' = inSock \o <<l>> /\ sent' = sent \o <<l>>
        /\ inSock' \in Seq(Lines) /\ sent' \in Seq(Lines)
    <3>1. inSock \in Seq(Lines) /\ sent \in Seq(Lines)
      BY <1>1 DEF Typed
    <3>2. <<l>> \in Seq(Lines) /\ Append(inSock, l) = inSock \o <<l>>
          /\ Append(sent, l) = sent \o <<l>>
      BY <3>1, AppendIsConcat
    <3>3. Append(inSock, l) \in Seq(Lines) /\ Append(sent, l) \in Seq(Lines)
      BY <3>1, AppendProperties
    <3>4. QED
      BY <2>1, <3>2, <3>3
  <2>3. DialogTypeOK'
    BY <2>1, <2>2 DEF DialogIInv, DialogTypeOK
  <2>4. InwardInOrder'
    <3> DEFINE before == got \o toShell \o InBuf
    <3>1. before \in Seq(Lines)
      BY <1>1, MovingLines DEF Typed
    <3>2. Relaying' => before \o inSock = sent
      BY <2>1 DEF DialogIInv, InwardInOrder, Relaying
    <3> HIDE DEF before
    <3>3. before \o (inSock \o <<l>>) = before \o inSock \o <<l>>
      <4>1. inSock \in Seq(Lines)
        BY <1>1 DEF Typed
      <4>2. QED
        BY <2>2, <3>1, <4>1, LinesMoved
    <3>4. Relaying' => before \o inSock' = sent'
      BY <2>2, <3>2, <3>3
    <3>5. QED
      BY <2>1, <3>4 DEF before, InwardInOrder, InBuf
  <2>5. OutwardInOrder' /\ BufHolds' /\ Opening'
    BY <2>1 DEF DialogIInv, OutwardInOrder, Relaying, OutBuf, Greeting, BufHolds, Opening
  <2>6. QED
    BY <2>3, <2>4, <2>5 DEF DialogIInv
<1>3. CASE Look
  <2>1. /\ outSock # <<>> /\ seen' = seen \o outSock /\ outSock' = <<>>
        /\ UNCHANGED <<childVars, inSock, pipes, shellVars, client, urgent, sent, got,
                       said>>
    BY <1>3 DEF Look
  <2>2. seen' \in Seq(Outputs) /\ outSock' \in Seq(Outputs) /\ Len(outSock') <= SockCap
    BY <1>1, <2>1, MovingOutputs, GreetingSays, Sizes DEF Typed
  <2>3. DialogTypeOK'
    BY <2>1, <2>2 DEF DialogIInv, DialogTypeOK
  <2>4. seen' \o outSock' = seen \o outSock
    BY <2>1, <2>2, ConcatEmptySeq
  <2>5. OutwardInOrder'
    BY <2>1, <2>4 DEF DialogIInv, OutwardInOrder, Relaying, OutBuf, Greeting
  <2>6. InwardInOrder' /\ BufHolds' /\ Opening'
    BY <2>1 DEF DialogIInv, InwardInOrder, Relaying, InBuf, BufHolds, Opening
  <2>7. QED
    BY <2>3, <2>5, <2>6 DEF DialogIInv
<1>4. CASE Close
  <2>1. /\ client' \in {"closed", "reset"} /\ client = "open" /\ outSock' = <<>>
        /\ UNCHANGED <<childVars, inSock, pipes, shellVars, urgent, history>>
    BY <1>4 DEF Close
  <2>2. outSock' \in Seq(Outputs) /\ Len(outSock') <= SockCap
    BY <2>1, GreetingSays, Sizes
  <2>3. DialogTypeOK'
    BY <2>1, <2>2 DEF DialogIInv, DialogTypeOK
  <2>4. InwardInOrder' /\ OutwardInOrder' /\ BufHolds' /\ Opening'
    BY <2>1 DEF DialogIInv, InwardInOrder, OutwardInOrder, Relaying, InBuf, BufHolds, Opening
  <2>5. QED
    BY <2>3, <2>4 DEF DialogIInv
<1>5. CASE Interrupt
  <2>1. /\ urgent' = TRUE
        /\ UNCHANGED <<childVars, inSock, outSock, pipes, shellVars, client, history>>
    BY <1>5 DEF Interrupt
  <2>2. DialogTypeOK'
    BY <2>1 DEF DialogIInv, DialogTypeOK
  <2>3. InwardInOrder' /\ OutwardInOrder' /\ BufHolds' /\ Opening'
    BY <2>1 DEF DialogIInv, InwardInOrder, OutwardInOrder, Relaying, InBuf, OutBuf, Greeting,
                BufHolds, Opening
  <2>4. QED
    BY <2>2, <2>3 DEF DialogIInv
<1>6. QED
  BY <1>2, <1>3, <1>4, <1>5 DEF Client

(* Every step of the client, of dialog_with_client() and of the shell keeps *)
(* the invariant: what is between client and shell is in order, and whoever *)
(* waits finds room or data.                                                *)
THEOREM NextDialogIInv == DialogIInv /\ [DialogNext]_dialogVars => DialogIInv'
<1> SUFFICES ASSUME DialogIInv, [DialogNext]_dialogVars PROVE DialogIInv'
  OBVIOUS
<1>1. CASE RelayStep
  BY <1>1, OpeningIInv, SelectIInv, OutwardIInv, InwardIInv, EndsIInv
  DEF RelayStep, FinishDialog, Killed
<1>2. CASE KillChild
  BY <1>2, EndsIInv DEF KillChild
<1>3. CASE UNCHANGED dialogVars
  <2>1. DialogTypeOK'
    BY <1>3 DEF dialogVars, DialogIInv, DialogTypeOK
  <2>2. InwardInOrder' /\ OutwardInOrder' /\ BufHolds' /\ Opening'
    BY <1>3 DEF dialogVars, DialogIInv, InwardInOrder, OutwardInOrder, Relaying, InBuf, OutBuf,
                Greeting, BufHolds, Opening
  <2>3. QED
    BY <2>1, <2>2 DEF DialogIInv
<1>4. QED
  BY <1>1, <1>2, <1>3, ShellIInv, ClientIInv DEF DialogNext

(* RelayedInOrder, for every size of buffers, pipes and socket and however   *)
(* much is typed: in each direction what has been passed on, what is on the *)
(* way and what waits are together all there ever was, in order             *)
(* (dialog_with_client(), simple_daemon.c:390-474).                         *)
THEOREM RelayIsInOrder == DialogSpec => []RelayedInOrder
<1>1. DialogIInv => RelayedInOrder
  BY DEF DialogIInv, RelayedInOrder
<1>2. QED
  BY InitDialogIInv, NextDialogIInv, <1>1, PTL DEF DialogSpec

-----------------------------------------------------------------------------
(* The bound on the shell's replies holds with DialogIInv: the child turns to the *)
(* socket with fromShell empty, and each command read gives room for two.   *)
LEMMA NextReplies == DialogIInv /\ RepliesBounded /\ [DialogNext]_dialogVars => RepliesBounded'
<1> SUFFICES ASSUME DialogIInv, RepliesBounded, [DialogNext]_dialogVars,
                    childPC' \in {"recv", "write"}, sh' # "gone"
             PROVE  Len(fromShell') + 2 * Len(toShell') <= 2 * ToShellCap + Owed'
  BY DEF RepliesBounded
<1>1. /\ Len(fromShell) \in Nat /\ Len(toShell) \in Nat /\ Len(toShell) <= ToShellCap
      /\ ToShellCap \in Nat /\ fromShell \in Seq(Outputs) /\ toShell \in Seq(Lines)
  BY TypedData, LenProperties, Sizes DEF Typed, DialogIInv, DialogTypeOK
<1>2. CASE UNCHANGED <<fromShell, toShell, sh>> /\ childPC \in {"recv", "write"}
  BY <1>2 DEF RepliesBounded, Owed
<1>3. CASE Select
  <2>1. fromShell' = <<>> /\ toShell' = toShell
    BY <1>3 DEF Select, SocketOnly, PipeReadable, PipeHasData
  <2>2. Len(fromShell') = 0 /\ Owed' \in 0 .. 2
    BY <2>1, GreetingSays DEF Owed
  <2>3. QED
    BY <1>1, <2>1, <2>2
<1>4. CASE RelayStep /\ ~Select
  <2>1. RecvSocket \/ childPC' \notin {"recv", "write"}
    BY <1>4 DEF RelayStep, Greet, MakePipes, ForkShell, ReadPipe, Send, WriteShell, FinishDialog,
                Killed, Ends
  <2>2. RecvSocket
    BY <2>1
  <2>3. QED
    BY <1>2, <2>2 DEF RecvSocket
<1>5. CASE KillChild
  BY <1>5 DEF KillChild, Ends
<1>6. CASE ShellStep
  <2>1. childPC' = childPC
    BY <1>6 DEF ShellStep, Exec, Prompt, ReadCommand, Answer
  <2>2. CASE Exec
    <3>1. sh = "exec" /\ sh' = "prompt" /\ UNCHANGED <<fromShell, toShell>>
      BY <2>2 DEF Exec
    <3>2. Owed = 0 /\ Owed' = 1
      BY <3>1 DEF Owed
    <3>3. Len(fromShell) + 2 * Len(toShell) <= 2 * ToShellCap + Owed
      BY <2>1, <3>1 DEF RepliesBounded
    <3>4. QED
      BY <1>1, <3>1, <3>2, <3>3
  <2>3. CASE Prompt \/ Answer
    <3>1. /\ toShell' = toShell
          /\ \E out \in Outputs : fromShell' = Append(fromShell, out)
          /\ \/ sh = "prompt" /\ sh' = "read"
             \/ sh = "answer" /\ sh' = "prompt"
      BY <2>1, <2>3 DEF Prompt, Answer, Say, Outputs
    <3>2. Owed \in Int /\ Owed' = Owed + 1
      BY <3>1 DEF Owed
    <3>3. Len(fromShell') = Len(fromShell) + 1
      BY <1>1, <3>1, AppendProperties
    <3>4. Len(fromShell) + 2 * Len(toShell) <= 2 * ToShellCap + Owed
      BY <2>1, <3>1 DEF RepliesBounded
    <3>5. QED
      BY <1>1, <3>1, <3>2, <3>3, <3>4
  <2>4. CASE ReadCommand
    <3> DEFINE line == First(toShell, ShellMax)
    <3>1. /\ sh = "read" /\ sh' = "answer" /\ toShell # <<>> /\ fromShell' = fromShell
          /\ toShell' = After(toShell, Len(line))
      BY <2>1, <2>4 DEF ReadCommand
    <3>2. /\ line \in Seq(Lines) /\ Len(line) > 0
          /\ Len(After(toShell, Len(line))) = Len(toShell) - Len(line)
      BY <1>1, <3>1, Sizes, FirstAfter
    <3>3. Len(toShell') = Len(toShell) - Len(line) /\ Len(line) \in Nat
      BY <3>1, <3>2, LenProperties
    <3>4. Len(fromShell) + 2 * Len(toShell) <= 2 * ToShellCap + Owed
      BY <2>1, <3>1 DEF RepliesBounded
    <3>5. Owed = 2 /\ Owed' = 0
      BY <3>1 DEF Owed
    <3> HIDE DEF line
    <3>6. QED
      BY <1>1, <3>1, <3>2, <3>3, <3>4, <3>5
  <2>5. QED
    BY <1>6, <2>2, <2>3, <2>4 DEF ShellStep
<1>7. CASE Client \/ UNCHANGED dialogVars
  BY <1>2, <1>7 DEF Client, Type, Look, Close, Interrupt, dialogVars
<1>8. QED
  BY <1>3, <1>4, <1>5, <1>6, <1>7 DEF DialogNext

(* NoMutualBlock, for every size of buffers and pipes with the one from the *)
(* shell twice the child's buffer: while the child waits for room in the    *)
(* pipe to the shell, the shell is not waiting for room in the pipe back    *)
(* (write() in dialog_with_client(), simple_daemon.c:465, against the       *)
(* output of simple_shell.c:24-64).                                         *)
THEOREM NeverMutuallyBlocked ==
  ASSUME FromShellCap >= 2 * RecvMax
  PROVE  DialogSpec => []NoMutualBlock
<1>1. DialogInit => RepliesBounded
  BY DEF DialogInit, RepliesBounded
<1>2. DialogIInv /\ RepliesBounded => NoMutualBlock
  <2> SUFFICES ASSUME DialogIInv, RepliesBounded, ChildBlocked, ShellBlocked PROVE FALSE
    BY DEF NoMutualBlock
  <2>1. /\ childPC = "write" /\ sh \in {"prompt", "answer"}
        /\ Len(toShell) + Len(buf) > ToShellCap /\ Len(fromShell) >= FromShellCap
    BY DEF ChildBlocked, ShellBlocked
  <2>2. /\ Len(toShell) \in Nat /\ Len(fromShell) \in Nat /\ Len(buf) \in Nat
        /\ Len(buf) <= RecvMax
    BY <2>1, TypedData, LenProperties DEF Typed, DialogIInv, BufHolds, InBuf
  <2>3. Owed \in {0, 1}
    BY <2>1 DEF Owed
  <2>4. Len(fromShell) + 2 * Len(toShell) <= 2 * ToShellCap + Owed
    BY <2>1 DEF RepliesBounded
  <2>5. QED
    BY <2>1, <2>2, <2>3, <2>4, Sizes
<1>3. QED
  BY InitDialogIInv, NextDialogIInv, NextReplies, <1>1, <1>2, PTL DEF DialogSpec
=============================================================================
