------------------------------ MODULE GettyProofs ------------------------------
(***************************************************************************)
(* The descriptors of s_getty and of its offspring, and whose input they   *)
(* read, for any callers, names, buffers and number of tries.  The one     *)
(* thing asked is that the process may have seven descriptors.             *)
(***************************************************************************)
EXTENDS Getty, SequenceTheorems, TLAPS

Kinds == {"closed", "std", "sock", "master", "slave"} \cup Callers

(* The table between two sessions: 0 and 1 are given up after the first.    *)
Idle == [d \in Fds |-> IF d = 3 THEN "sock"
                       ELSE IF d = 2 \/ (d < 2 /\ first_fork) THEN "std"
                       ELSE "closed"]

(* The numbers a session gets: in the first one 4, 5 and 6, in a later one  *)
(* 0, 1 and, 2 and 3 being taken, 4.                                        *)
FirstSeats == msgsock = 4 /\ ps_master = 5 /\ ps_slave = 6
LaterSeats == msgsock = 0 /\ ps_master = 1 /\ ps_slave = 4

BeforeTerminal == pc \in {"check", "login", "openps"}
InSession == pc \in {"relay", "kill", "wait"}

TableOK ==
  /\ pc \in {"listen", "check", "login", "openps", "fork", "relay", "kill",
             "wait", "exited", "killed"}
  /\ fds \in [Fds -> Kinds]
  /\ {msgsock, ps_master, ps_slave} \subseteq Fds \cup {-1}
  /\ first_fork \in BOOLEAN
  /\ pc = "listen" => fds = Idle
  /\ BeforeTerminal \/ pc = "fork" \/ InSession => Caller \in Callers
  /\ BeforeTerminal =>
       /\ msgsock = IF first_fork THEN 4 ELSE 0
       /\ fds = [Idle EXCEPT ![msgsock] = Caller]
  /\ pc = "fork" =>
       /\ IF first_fork THEN FirstSeats ELSE LaterSeats
       /\ fds = [Idle EXCEPT ![msgsock] = Caller, ![ps_master] = "master",
                             ![ps_slave] = "slave"]
  /\ InSession =>
       /\ ~first_fork
       /\ FirstSeats \/ LaterSeats
       /\ fds = [Idle EXCEPT ![msgsock] = Caller, ![ps_master] = "master"]

(* The offspring lives only in a session, or behind an s_getty that has     *)
(* been killed; so long, nobody gives the descriptors new numbers.          *)
Offspring ==
  [pc : {"none", "prelogin", "code", "verdict", "exec", "shell", "zombie"},
   pid : Nat, fds : [Fds -> Kinds], tries : 0 .. MaxTries, answer : Seq(Chars)]

ChildOK ==
  /\ child \in Offspring
  /\ lastpid \in Nat /\ child.pid <= lastpid
  /\ child.pc # "none" => InSession \/ pc = "killed"
  /\ child.pc \in {"prelogin", "code", "verdict"} => child.tries < MaxTries
  /\ child.pc \notin {"none", "zombie"} =>
       /\ FirstSeats \/ LaterSeats
       /\ child.fds[ps_slave] = "slave"
  /\ child.pc = "prelogin" =>
       \A d \in Fds : child.fds[d] \in Callers \cup {"master"} => d \in {msgsock, ps_master}
  /\ OffspringOnSlave

(* What one caller has sent, and of that what may reach the terminal. *)
Of(c) == {c} \X Chars
Keyed(c) == {c} \X (Chars \ Controls)

Calls == [stage : {"idle", "queued", "open", "ended"}, in : Seq(Callers \X Chars),
          sent : Nat, left : BOOLEAN, rst : BOOLEAN, oob : BOOLEAN]

ConnOK ==
  /\ queue \in Seq(Callers)
  /\ conn \in [Callers -> Calls]
  /\ \A c \in Callers : conn[c].sent <= MaxSent[c] /\ conn[c].in \in Seq(Of(c))

LoginOK ==
  /\ numtries \in 0 .. MaxTries
  /\ gbuf \in Seq(Callers \X Chars) /\ obuf \in Seq(Callers \X Chars)
  /\ pc = "login" => /\ numtries < MaxTries
                     /\ gbuf \in Seq(Of(Caller)) /\ obuf \in Seq(Of(Caller))

PtyOK ==
  /\ ptyin \in Seq(Callers \X (Chars \ Controls)) /\ Len(ptyin) <= PtySize
  /\ ptyout \in 0 .. MaxOut
  /\ pc = "listen" \/ BeforeTerminal \/ pc = "fork" => ptyin = <<>>
  /\ InSession => ptyin \in Seq(Keyed(Caller))

RestOK ==
  /\ sh_pid \in Nat
  /\ ready \subseteq {"ptty", "sock"}
  /\ after \in {"listen", "exit"}

IInv == TableOK /\ ChildOK /\ ConnOK /\ LoginOK /\ PtyOK /\ RestOK

-----------------------------------------------------------------------------
(* The constants. *)
LEMMA Sizes ==
  /\ MaxTries \in Nat /\ MaxTries > 0 /\ PacketSize \in Nat /\ ReadSize \in Nat
  /\ PtySize \in Nat /\ PtySize > 0 /\ MaxOut \in Nat /\ MaxOut > 0 /\ LastFd \in Nat
  /\ MaxSent \in [Callers -> Nat]
BY ConstantsAssumption

(* A caller is none of the names of descriptors. *)
LEMMA Apart == \A c \in Callers : c \notin {"closed", "std", "sock", "master", "slave"}
BY ConstantsAssumption

(* The empty sequence. *)
LEMMA NoBytes ==
  /\ \A S : <<>> \in Seq(S)
  /\ Len(<<>>) = 0
BY EmptySeq

(* open() takes the lowest free number (the kernel's rule). *)
LEMMA LowestIs ==
  ASSUME NEW t, NEW n \in Fds, t[n] = "closed", \A e \in Fds : e < n => t[e] # "closed"
  PROVE  Lowest(t) = n
<1>1. /\ t[n] = "closed"
      /\ \A e \in Fds : t[e] = "closed" => n <= e
  BY Sizes DEF Fds
<1>2. \A d \in Fds : (t[d] = "closed" /\ \A e \in Fds : t[e] = "closed" => d <= e) => d = n
  BY <1>1, Sizes DEF Fds
<1>3. QED
  BY <1>1, <1>2 DEF Lowest

USE DEF sessionVars, gettyVars, loginVars, relayVars, ptyVars, netVars, childVars

(* The seats are on the table, apart from each other and from 2 and 3. *)
LEMMA SeatNumbers ==
  ASSUME LastFd >= 6
  PROVE  \A d \in {0, 1, 2, 3, 4, 5, 6} : d \in Fds
BY Sizes DEF Fds

(* accept() in a table between sessions. *)
LEMMA AcceptTable ==
  ASSUME LastFd >= 6, TableOK, ConnOK, Accept PROVE TableOK'
<1> DEFINE n == IF first_fork THEN 4 ELSE 0
<1>1. /\ pc = "listen" /\ pc' = "check" /\ fds = Idle /\ first_fork' = first_fork
      /\ fds' = [Idle EXCEPT ![Lowest(Idle)] = Head(queue)] /\ msgsock' = Lowest(Idle)
      /\ Head(queue) \in Callers
      /\ UNCHANGED <<ps_master, ps_slave>>
  BY HeadTailProperties DEF Accept, TableOK, Open, ConnOK
<1>2. n \in Fds
  BY SeatNumbers
<1>3. Lowest(Idle) = n
  <2>1. Idle[n] = "closed" /\ \A e \in Fds : e < n => Idle[e] # "closed"
    BY <1>2, Sizes DEF Idle, Fds
  <2>2. QED
    BY <1>2, <2>1, LowestIs
<1>4. Idle' = Idle /\ Idle \in [Fds -> Kinds]
  BY <1>1 DEF Idle, Kinds
<1>5. Caller' = Head(queue)
  BY <1>1, <1>2, <1>3, <1>4 DEF Caller
<1>6. fds' \in [Fds -> Kinds] /\ fds' = [Idle' EXCEPT ![msgsock'] = Caller']
  BY <1>1, <1>4, <1>5 DEF Kinds
<1>7. {msgsock', ps_master', ps_slave'} \subseteq Fds \cup {-1} /\ first_fork' \in BOOLEAN
  BY <1>1, <1>2, <1>3 DEF TableOK
<1>8. QED
  BY <1>1, <1>3, <1>5, <1>6, <1>7 DEF TableOK, BeforeTerminal, InSession

(* close(msgsock) before there is a terminal: the table is as it was. *)
LEMMA FailedTable ==
  ASSUME LastFd >= 6, TableOK, BeforeTerminal, FailedLogin,
         UNCHANGED <<msgsock, first_fork>>,
         {ps_master', ps_slave'} \subseteq Fds \cup {-1}
  PROVE  TableOK'
<1>1. /\ msgsock = IF first_fork THEN 4 ELSE 0
      /\ fds = [Idle EXCEPT ![msgsock] = Caller]
      /\ pc' = "listen" /\ fds' = Close(fds, {msgsock})
  BY DEF TableOK, FailedLogin
<1>2. Idle' = Idle /\ Idle \in [Fds -> Kinds]
  BY DEF Idle, Kinds
<1>3. fds' = Idle
  BY <1>1, SeatNumbers DEF Close, Idle
<1>4. QED
  BY <1>1, <1>2, <1>3 DEF TableOK, BeforeTerminal, InSession

(* The terminal's two sides, after the call. *)
LEMMA OpenPstermTable ==
  ASSUME LastFd >= 6, TableOK, OpenPsterm PROVE TableOK'
<1> DEFINE m == IF first_fork THEN 5 ELSE 1
           s == IF first_fork THEN 6 ELSE 4
           t == [Idle EXCEPT ![msgsock] = Caller]
           u == [t EXCEPT ![m] = "master"]
<1>1. /\ msgsock = IF first_fork THEN 4 ELSE 0
      /\ Caller \in Callers /\ fds = t /\ pc' = "fork"
      /\ UNCHANGED <<msgsock, first_fork>>
      /\ ps_master' = Lowest(t) /\ ps_slave' = Lowest([t EXCEPT ![Lowest(t)] = "master"])
      /\ fds' = [[t EXCEPT ![Lowest(t)] = "master"] EXCEPT
                   ![Lowest([t EXCEPT ![Lowest(t)] = "master"])] = "slave"]
  BY DEF OpenPsterm, TableOK, BeforeTerminal, Open
<1>2. m \in Fds /\ s \in Fds /\ msgsock \in Fds
  BY <1>1, SeatNumbers
<1>t. \A e \in Fds : t[e] = IF e = msgsock THEN Caller
                            ELSE IF e = 3 THEN "sock"
                            ELSE IF e = 2 \/ (e < 2 /\ first_fork) THEN "std" ELSE "closed"
  BY <1>1 DEF Idle
<1>u. \A e \in Fds : u[e] = IF e = m THEN "master" ELSE t[e]
  BY DEF Idle
<1>c. Caller # "closed"
  BY <1>1, Apart
<1> HIDE DEF t, u
<1>3. Lowest(t) = m
  <2>1. t[m] = "closed" /\ \A e \in Fds : e < m => t[e] # "closed"
    BY <1>1, <1>2, <1>t, <1>c, Sizes DEF Fds
  <2>2. QED
    BY <1>2, <2>1, LowestIs
<1>4. Lowest(u) = s
  <2>1. u[s] = "closed" /\ \A e \in Fds : e < s => u[e] # "closed"
    BY <1>1, <1>2, <1>t, <1>u, <1>c, Sizes DEF Fds
  <2>2. QED
    BY <1>2, <2>1, LowestIs
<1>5. ps_master' = m /\ ps_slave' = s /\ fds' = [u EXCEPT ![s] = "slave"]
  BY <1>1, <1>3, <1>4 DEF u
<1>6. Idle' = Idle /\ Idle \in [Fds -> Kinds]
  BY <1>1 DEF Idle, Kinds
<1>7. Caller' = Caller
  BY <1>1, <1>2, <1>5, <1>6 DEF Caller, t, u
<1>8. fds' \in [Fds -> Kinds]
  BY <1>1, <1>5, <1>6 DEF Kinds, t, u
<1>9. fds' = [Idle' EXCEPT ![msgsock'] = Caller', ![ps_master'] = "master",
                          ![ps_slave'] = "slave"]
  BY <1>1, <1>5, <1>6, <1>7 DEF t, u
<1>10. (IF first_fork THEN FirstSeats ELSE LaterSeats)'
  BY <1>1, <1>5 DEF FirstSeats, LaterSeats
<1>11. {msgsock', ps_master', ps_slave'} \subseteq Fds \cup {-1} /\ first_fork' \in BOOLEAN
  <2>1. first_fork \in BOOLEAN
    BY DEF TableOK
  <2>2. msgsock' \in Fds /\ ps_master' \in Fds /\ ps_slave' \in Fds
    BY <1>1, <1>2, <1>5
  <2>3. QED
    BY <1>1, <2>1, <2>2
<1>12. QED
  BY <1>1, <1>7, <1>8, <1>9, <1>10, <1>11 DEF TableOK, BeforeTerminal, InSession

(* fork() fails: all three are closed again. *)
LEMMA ForkFailsTable ==
  ASSUME LastFd >= 6, TableOK, ForkFails PROVE TableOK'
<1>1. /\ IF first_fork THEN FirstSeats ELSE LaterSeats
      /\ fds = [Idle EXCEPT ![msgsock] = Caller, ![ps_master] = "master",
                            ![ps_slave] = "slave"]
      /\ pc' = "listen" /\ fds' = Close(fds, {ps_slave, ps_master, msgsock})
      /\ UNCHANGED sessionVars
  BY DEF TableOK, ForkFails
<1>2. Idle' = Idle /\ Idle \in [Fds -> Kinds]
  BY <1>1 DEF Idle, Kinds
<1>3. \A e \in Fds : e \notin {ps_slave, ps_master, msgsock} => fds[e] = Idle[e]
  BY <1>1, <1>2
<1>c. \A e \in Fds : e \in {ps_slave, ps_master, msgsock} => Idle[e] = "closed"
  BY <1>1 DEF Idle, FirstSeats, LaterSeats
<1>4. fds' = Idle
  <2>c. \A e \in Fds : fds'[e] = IF e \in {ps_slave, ps_master, msgsock} THEN "closed"
                              ELSE fds[e]
    BY <1>1 DEF Close
  <2>1. \A e \in Fds : fds'[e] = Idle[e]
    BY <1>3, <1>c, <2>c
  <2>2. QED
    BY <1>1, <2>1 DEF Close, Idle
<1>5. QED
  BY <1>1, <1>2, <1>4 DEF TableOK, BeforeTerminal, InSession

(* After fork() the parent keeps the call and the master side.  *)
LEMMA ForkTable ==
  ASSUME LastFd >= 6, TableOK, Fork PROVE TableOK'
<1>1. /\ IF first_fork THEN FirstSeats ELSE LaterSeats
      /\ fds = [Idle EXCEPT ![msgsock] = Caller, ![ps_master] = "master",
                            ![ps_slave] = "slave"]
      /\ pc' = "relay" /\ first_fork' = FALSE
      /\ fds' = Close(fds, {ps_slave} \cup IF first_fork THEN {0, 1} ELSE {})
      /\ UNCHANGED <<msgsock, ps_master, ps_slave>> /\ Caller \in Callers
  BY DEF TableOK, Fork, ParentKeeps
<1>2. Idle' \in [Fds -> Kinds]
  BY DEF Idle, Kinds
<1>3. FirstSeats' \/ LaterSeats'
  BY <1>1 DEF FirstSeats, LaterSeats
<1>4. fds' = [Idle' EXCEPT ![msgsock] = Caller, ![ps_master] = "master"]
  <2> DEFINE u == [Idle' EXCEPT ![msgsock] = Caller, ![ps_master] = "master"]
  <2>1. \A e \in Fds : Idle'[e] = IF e = 3 THEN "sock" ELSE IF e = 2 THEN "std" ELSE "closed"
    BY <1>1 DEF Idle
  <2>2. \A e \in Fds : Idle[e] = IF e = 3 THEN "sock"
                               ELSE IF e = 2 \/ (e < 2 /\ first_fork) THEN "std" ELSE "closed"
    BY DEF Idle
  <2>3. Idle \in [Fds -> Kinds]
    BY DEF Idle, Kinds
  <2>4. \A e \in Fds : fds[e] = IF e = ps_slave THEN "slave" ELSE IF e = ps_master THEN "master"
                              ELSE IF e = msgsock THEN Caller ELSE Idle[e]
    BY <1>1, <2>3
  <2>5. \A e \in Fds : u[e] = IF e = ps_master THEN "master"
                            ELSE IF e = msgsock THEN Caller ELSE Idle'[e]
    BY <1>2
  <2>6. u \in [Fds -> Kinds]
    BY <1>1, <1>2 DEF Kinds
  <2> HIDE DEF u
  <2>7. CASE first_fork
    <3>1. \A e \in Fds : fds'[e] = IF e = 6 \/ e = 0 \/ e = 1 THEN "closed" ELSE fds[e]
      BY <1>1, <2>7 DEF Close, FirstSeats
    <3>n. msgsock = 4 /\ ps_master = 5 /\ ps_slave = 6
      BY <1>1, <2>7 DEF FirstSeats
    <3>2. \A e \in Fds : fds'[e] = u[e]
      BY <2>1, <2>2, <2>4, <2>5, <2>7, <3>1, <3>n, Sizes DEF Fds
    <3>3. QED
      BY <1>1, <2>6, <3>2 DEF Close, u
  <2>8. CASE ~first_fork
    <3>1. \A e \in Fds : fds'[e] = IF e = 4 THEN "closed" ELSE fds[e]
      BY <1>1, <2>8 DEF Close, LaterSeats
    <3>n. msgsock = 0 /\ ps_master = 1 /\ ps_slave = 4
      BY <1>1, <2>8 DEF LaterSeats
    <3>2. \A e \in Fds : fds'[e] = u[e]
      BY <2>1, <2>2, <2>4, <2>5, <2>8, <3>1, <3>n, Sizes DEF Fds
    <3>3. QED
      BY <1>1, <2>6, <3>2 DEF Close, u
  <2>9. QED
    BY <2>7, <2>8
<1>5. msgsock \in Fds /\ ps_master \in Fds /\ msgsock # ps_master
  BY <1>1, SeatNumbers DEF FirstSeats, LaterSeats
<1>6. Caller' = Caller
  BY <1>1, <1>2, <1>4, <1>5 DEF Caller
<1>7. fds' \in [Fds -> Kinds]
  BY <1>1, <1>2, <1>4 DEF Kinds
<1>8. {msgsock', ps_master', ps_slave'} \subseteq Fds \cup {-1}
  BY <1>1 DEF TableOK
<1>9. QED
  BY <1>1, <1>3, <1>4, <1>6, <1>7, <1>8 DEF TableOK, BeforeTerminal, InSession

(* After wait() the descriptors of the session are recycled, or all go.  *)
LEMMA WaitTable ==
  ASSUME LastFd >= 6, TableOK, Wait PROVE TableOK'
<1>1. /\ ~first_fork
      /\ FirstSeats \/ LaterSeats
      /\ fds = [Idle EXCEPT ![msgsock] = Caller, ![ps_master] = "master"]
      /\ UNCHANGED sessionVars
  BY DEF TableOK, Wait, InSession
<1>2. Idle' = Idle /\ Idle \in [Fds -> Kinds]
  BY <1>1 DEF Idle, Kinds
<1>3. CASE pc' = "listen" /\ fds' = Close(fds, {msgsock, ps_master})
  <2>1. \A e \in Fds : e \notin {msgsock, ps_master} => fds[e] = Idle[e]
    BY <1>1, <1>2
  <2>2. \A e \in Fds : e \in {msgsock, ps_master} => Idle[e] = "closed"
    BY <1>1 DEF Idle, FirstSeats, LaterSeats
  <2>c. \A e \in Fds : fds'[e] = IF e \in {msgsock, ps_master} THEN "closed" ELSE fds[e]
    BY <1>3 DEF Close
  <2>3. \A e \in Fds : fds'[e] = Idle[e]
    BY <2>1, <2>2, <2>c
  <2>4. fds' = Idle
    BY <1>3, <2>3 DEF Close, Idle
  <2>5. QED
    BY <1>1, <1>2, <1>3, <2>4 DEF TableOK, BeforeTerminal, InSession
<1>4. CASE pc' = "exited" /\ fds' = AllClosed
  <2>1. fds' \in [Fds -> Kinds]
    BY <1>4 DEF AllClosed, Kinds
  <2>2. QED
    BY <1>1, <1>4, <2>1 DEF TableOK, BeforeTerminal, InSession
<1>5. QED
  BY <1>3, <1>4 DEF Wait, GettyGone

(* The table stays as it is while the call moves on within its stage.  *)
LEMMA SameTable ==
  ASSUME TableOK, UNCHANGED <<fds, sessionVars>>,
         \/ pc' = pc
         \/ BeforeTerminal /\ BeforeTerminal'
         \/ InSession /\ InSession'
  PROVE  TableOK' /\ Caller' = Caller
<1>1. Idle' = Idle /\ Caller' = Caller
  BY DEF Idle, Caller
<1>2. QED
  BY <1>1 DEF TableOK, BeforeTerminal, InSession, FirstSeats, LaterSeats

(* Every step keeps the table of descriptors. *)
LEMMA NextTable ==
  ASSUME LastFd >= 6, TableOK, ConnOK, [Next]_vars PROVE TableOK'
<1>1. CASE UNCHANGED <<fds, sessionVars, pc>>
  BY <1>1, SameTable
<1>2. CASE Accept \/ OpenPsterm \/ ForkFails \/ Fork \/ Wait
  BY <1>2, AcceptTable, OpenPstermTable, ForkFailsTable, ForkTable, WaitTable
<1>3. CASE HostRefused \/ LoginEof
  <2>1. BeforeTerminal /\ FailedLogin /\ UNCHANGED sessionVars
    BY <1>3 DEF HostRefused, LoginEof, BeforeTerminal
  <2>2. {ps_master', ps_slave'} \subseteq Fds \cup {-1}
    BY <2>1 DEF TableOK
  <2>3. QED
    BY <2>1, <2>2, FailedTable
<1>4. CASE OpenPstermFails
  <2>1. /\ BeforeTerminal /\ FailedLogin /\ UNCHANGED <<msgsock, first_fork>>
        /\ \/ ps_master' = -1 /\ ps_slave' = ps_slave
           \/ ps_master' = Lowest(fds) /\ ps_slave' = -1
    BY <1>4 DEF OpenPstermFails, BeforeTerminal
  <2>2. ps_master \in Fds \cup {-1} /\ ps_slave \in Fds \cup {-1}
    BY DEF TableOK
  <2>3. Lowest(fds) \in Fds
    <3> DEFINE m == IF first_fork THEN 5 ELSE 1
    <3>1. m \in Fds
      BY SeatNumbers
    <3>2. \A e \in Fds : fds[e] = IF e = msgsock THEN Caller
                            ELSE IF e = 3 THEN "sock"
                            ELSE IF e = 2 \/ (e < 2 /\ first_fork) THEN "std" ELSE "closed"
      BY <2>1 DEF TableOK, Idle
    <3>3. Caller \in Callers /\ msgsock = IF first_fork THEN 4 ELSE 0
      BY <2>1 DEF TableOK
    <3>4. Caller # "closed"
      BY <3>3, Apart
    <3>5. fds[m] = "closed" /\ \A e \in Fds : e < m => fds[e] # "closed"
      BY <3>1, <3>2, <3>3, <3>4, Sizes DEF Fds
    <3>6. QED
      BY <3>1, <3>5, LowestIs
  <2>4. QED
    BY <2>1, <2>2, <2>3, FailedTable
<1>5. CASE LoginBad
  <2>1. /\ BeforeTerminal /\ UNCHANGED sessionVars
        /\ FailedLogin \/ UNCHANGED <<fds, sessionVars, pc>>
    BY <1>5 DEF LoginBad, BeforeTerminal
  <2>2. {ps_master', ps_slave'} \subseteq Fds \cup {-1}
    BY <2>1 DEF TableOK
  <2>3. QED
    BY <1>1, <2>1, <2>2, FailedTable
<1>6. CASE HostAccepted \/ LoginGood
  <2>1. BeforeTerminal /\ BeforeTerminal' /\ UNCHANGED <<fds, sessionVars>>
    BY <1>6 DEF HostAccepted, LoginGood, BeforeTerminal
  <2>2. QED
    BY <2>1, SameTable
<1>7. CASE AcceptFails \/ LoginRead \/ LoginKey
  BY <1>1, <1>7 DEF AcceptFails, LoginRead, LoginKey
<1>8. CASE RelayStep \/ Kill
  <2>1. InSession /\ InSession' /\ UNCHANGED <<fds, sessionVars>>
    BY <1>8 DEF RelayStep, Select, SelectTimeout, SelectException, PtyTurn, SockTurn,
                SockReset, Kill, Stop, InSession
  <2>2. QED
    BY <2>1, SameTable
<1>9. CASE BrokenPipe
  <2>1. fds' \in [Fds -> Kinds] /\ pc' = "killed" /\ UNCHANGED sessionVars
    BY <1>9 DEF BrokenPipe, GettyGone, AllClosed, Kinds
  <2>2. QED
    BY <2>1 DEF TableOK, BeforeTerminal, InSession
<1>10. CASE ChildStep
  BY <1>1, <1>10 DEF ChildStep, PreLogin, CodeByte, CodeAccepted, CodeRejected,
     NoAuthority, Exec, ExecFails, ShellRead, ShellWrite, ShellExit, Orphaned
<1>11. CASE CallerStep \/ UNCHANGED vars
  BY <1>1, <1>11 DEF CallerStep, Connect, HangUp, SendUrgent, Send, vars
<1>12. QED
  BY <1>2, <1>3, <1>4, <1>5, <1>6, <1>7, <1>8, <1>9, <1>10, <1>11
  DEF Next, GettyStep, LoginStep, StopStep

-----------------------------------------------------------------------------
(* The offspring.                                                           *)

(* A step that leaves the child alone. *)
LEMMA SameChild ==
  ASSUME ChildOK, UNCHANGED childVars,
         child.pc # "none" => /\ InSession' \/ pc' = "killed"
                              /\ UNCHANGED <<msgsock, ps_master, ps_slave>>
  PROVE  ChildOK'
<1>1. child' = child /\ lastpid' = lastpid
  OBVIOUS
<1>2. CASE child.pc = "none"
  BY <1>1, <1>2 DEF ChildOK, OffspringOnSlave
<1>3. CASE child.pc # "none"
  <2>1. InSession' \/ pc' = "killed"
    BY <1>3
  <2>2. msgsock' = msgsock /\ ps_master' = ps_master /\ ps_slave' = ps_slave
    BY <1>3
  <2>3. (FirstSeats \/ LaterSeats) => (FirstSeats' \/ LaterSeats')
    BY <2>2 DEF FirstSeats, LaterSeats
  <2>4. QED
    BY <1>1, <2>1, <2>2, <2>3 DEF ChildOK, OffspringOnSlave
<1>4. QED
  BY <1>2, <1>3

(* Dead or reaped: nothing more is asked of it than its type. *)
LEMMA DeadChild ==
  ASSUME TableOK, ChildOK, InSession \/ pc = "killed" => InSession' \/ pc' = "killed",
         lastpid' = lastpid,
         \/ child.pc # "none" /\ child' = Dead
         \/ child' = NoChild
  PROVE  ChildOK'
<1>1. AllClosed \in [Fds -> Kinds] /\ <<>> \in Seq(Chars) /\ 0 \in 0 .. MaxTries
  BY NoBytes, Sizes DEF AllClosed, Kinds
<1>a. child \in Offspring /\ child.pid <= lastpid /\ lastpid \in Nat
  BY DEF ChildOK
<1>b. child' = Dead => child' \in Offspring /\ child'.pc = "zombie" /\ child'.pid = child.pid
  BY <1>1, <1>a DEF Offspring, Dead
<1>c. child' = NoChild => child' \in Offspring /\ child'.pc = "none" /\ child'.pid = 0
  BY <1>1 DEF Offspring, NoChild
<1>2. child' \in Offspring /\ child'.pc \in {"none", "zombie"} /\ child'.pid <= lastpid
  BY <1>a, <1>b, <1>c
<1>3. child'.pc # "none" => InSession' \/ pc' = "killed"
  BY DEF ChildOK, NoChild
<1>4. QED
  BY <1>2, <1>3 DEF ChildOK, OffspringOnSlave

(* fork() gives it the table of its parent. *)
LEMMA ForkChild ==
  ASSUME LastFd >= 6, TableOK, ChildOK, Fork PROVE ChildOK'
<1>1. /\ IF first_fork THEN FirstSeats ELSE LaterSeats
      /\ fds = [Idle EXCEPT ![msgsock] = Caller, ![ps_master] = "master",
                            ![ps_slave] = "slave"]
      /\ fds \in [Fds -> Kinds]
      /\ UNCHANGED <<msgsock, ps_master, ps_slave>>
      /\ lastpid' = lastpid + 1 /\ pc' = "relay"
      /\ child' = [NoChild EXCEPT !.pc = "prelogin", !.pid = lastpid + 1, !.fds = fds]
  BY DEF TableOK, Fork
<1>a. lastpid \in Nat /\ <<>> \in Seq(Chars) /\ 0 \in 0 .. MaxTries
  BY NoBytes, Sizes DEF ChildOK
<1>b. child' = [pc |-> "prelogin", pid |-> lastpid + 1, fds |-> fds, tries |-> 0,
               answer |-> <<>>]
  BY <1>1 DEF NoChild
<1>c. /\ child'.pc = "prelogin" /\ child'.pid = lastpid + 1 /\ child'.fds \in [Fds -> Kinds]
      /\ lastpid + 1 \in Nat
  BY <1>1, <1>a, <1>b
<1>d. child' \in Offspring
  <2>1. fds \in [Fds -> Kinds] /\ lastpid + 1 \in Nat /\ <<>> \in Seq(Chars) /\ 0 \in 0 .. MaxTries
    BY <1>1, <1>a, <1>c
  <2>2. QED
    BY <1>b, <2>1 DEF Offspring
<1>2. child' \in Offspring /\ child'.pid <= lastpid' /\ lastpid' \in Nat
  BY <1>1, <1>a, <1>c, <1>d
<1>3. child'.pc = "prelogin" /\ child'.fds = fds /\ child'.tries < MaxTries
  BY <1>b, Sizes
<1>4. (FirstSeats \/ LaterSeats)'
  BY <1>1 DEF FirstSeats, LaterSeats
<1>5. Idle \in [Fds -> Kinds] /\ \A d \in Fds : Idle[d] \in {"std", "sock", "closed"}
  BY DEF Idle, Kinds
<1>6. fds[ps_slave] = "slave"
  <2>1. ps_slave \in Fds
    BY <1>1, SeatNumbers DEF FirstSeats, LaterSeats
  <2>2. QED
    BY <1>1, <1>5, <2>1
<1>7. \A d \in Fds : fds[d] \in Callers \cup {"master"} => d \in {msgsock, ps_master}
  BY <1>1, <1>5, Apart
<1>8. InSession'
  BY <1>1 DEF InSession
<1>9. QED
  BY <1>1, <1>2, <1>3, <1>4, <1>6, <1>7, <1>8 DEF ChildOK, OffspringOnSlave

(* A step of the offspring itself, that leaves it alive. *)
LEMMA LiveChild ==
  ASSUME ChildOK, child.pc # "none", UNCHANGED gettyVars, lastpid' = lastpid,
         child' \in Offspring, child'.pid = child.pid,
         child'.pc \in {"code", "verdict", "exec", "shell"},
         child'.pc \in {"code", "verdict"} => child'.tries < MaxTries,
         FirstSeats \/ LaterSeats, child'.fds[ps_slave] = "slave",
         OffspringOnSlave'
  PROVE  ChildOK'
<1>1. InSession' \/ pc' = "killed"
  BY DEF ChildOK, InSession
<1>2. (FirstSeats \/ LaterSeats)' /\ ps_slave' = ps_slave
  BY DEF FirstSeats, LaterSeats
<1>3. child'.pid <= lastpid' /\ lastpid' \in Nat
  BY DEF ChildOK
<1>4. QED
  BY <1>1, <1>2, <1>3 DEF ChildOK

(* pre_login() moves onto the slave side: 0 and 1 are the numbers of the    *)
(* call and the master side, from the second session on, and these two are  *)
(* closed before.                                                           *)
LEMMA PreLoginChild ==
  ASSUME LastFd >= 6, TableOK, ChildOK, PreLogin PROVE ChildOK'
<1> DEFINE own == Close(child.fds, {msgsock, ps_master})
<1>1. /\ child.pc = "prelogin"
      /\ FirstSeats \/ LaterSeats
      /\ child \in Offspring
      /\ child.fds[ps_slave] = "slave" /\ child.fds \in [Fds -> Kinds]
      /\ \A d \in Fds : child.fds[d] \in Callers \cup {"master"} => d \in {msgsock, ps_master}
  BY DEF PreLogin, ChildOK, Offspring
<1>2. /\ 0 \in Fds /\ 1 \in Fds /\ ps_slave \in Fds
      /\ ps_slave \notin {msgsock, ps_master, 0, 1}
  BY <1>1, SeatNumbers DEF FirstSeats, LaterSeats
<1>3. /\ \A d \in Fds : own[d] = IF d \in {msgsock, ps_master} THEN "closed" ELSE child.fds[d]
      /\ own \in [Fds -> Kinds]
  BY <1>1 DEF Close, Kinds
<1>4. own[ps_slave] = "slave"
  BY <1>1, <1>2, <1>3
<1>5. child' = [child EXCEPT !.pc = "code", !.fds = [own EXCEPT ![0] = "slave", ![1] = "slave"]]
  BY <1>4 DEF PreLogin, OnSlave
<1> HIDE DEF own
<1>6. \A d \in Fds : own[d] \notin Callers \cup {"master"}
  BY <1>1, <1>3, Apart
<1> DEFINE t == [own EXCEPT ![0] = "slave", ![1] = "slave"]
<1>7. /\ t \in [Fds -> Kinds] /\ t[0] = "slave" /\ t[1] = "slave" /\ t[ps_slave] = "slave"
      /\ \A d \in Fds : t[d] \notin Callers \cup {"master"}
  BY <1>2, <1>3, <1>4, <1>6, Apart DEF Kinds
<1>8. child' = [child EXCEPT !.pc = "code", !.fds = t]
  BY <1>5
<1> HIDE DEF t
<1>9. child' \in Offspring /\ child'.pid = child.pid /\ child'.pc = "code" /\ child'.fds = t
  BY <1>1, <1>7, <1>8 DEF Offspring
<1>10. child'.tries < MaxTries
  <2>1. child.tries < MaxTries
    BY <1>1 DEF ChildOK
  <2>2. QED
    BY <1>1, <1>8, <2>1 DEF Offspring
<1>11. OffspringOnSlave'
  BY <1>7, <1>9 DEF OffspringOnSlave
<1>12. UNCHANGED gettyVars /\ lastpid' = lastpid
  BY DEF PreLogin
<1>13. child'.fds[ps_slave] = "slave" /\ child.pc # "none"
  BY <1>1, <1>7, <1>9
<1>14. QED
  BY <1>1, <1>9, <1>10, <1>11, <1>12, <1>13, LiveChild

(* What the later steps of the offspring start from. *)
LEMMA OnTheSlave ==
  ASSUME ChildOK, child.pc \in {"code", "verdict", "exec", "shell"}
  PROVE  /\ child \in Offspring /\ child.fds \in [Fds -> Kinds]
         /\ FirstSeats \/ LaterSeats
         /\ child.fds[ps_slave] = "slave"
         /\ child.fds[0] = "slave" /\ child.fds[1] = "slave"
         /\ \A d \in Fds : child.fds[d] \notin Callers \cup {"master"}
BY DEF ChildOK, OffspringOnSlave, Offspring

(* A step of the child that asks for the access code keeps it with its *)
(* session.                                                            *)
LEMMA CodeChild ==
  ASSUME ChildOK, PtyOK, CodeByte \/ CodeAccepted PROVE ChildOK'
<1>1. /\ child.pc \in {"code", "verdict"} /\ child.tries < MaxTries
      /\ UNCHANGED gettyVars /\ lastpid' = lastpid
  BY DEF ChildOK, CodeByte, CodeAccepted
<1>2. child \in Offspring
  BY <1>1, OnTheSlave
<1>3. /\ child' \in Offspring /\ child'.pc \in {"code", "verdict", "exec"}
      /\ child'.pid = child.pid /\ child'.fds = child.fds /\ child'.tries = child.tries
  <2>1. CASE CodeAccepted
    <3>1. child' = [child EXCEPT !.pc = "exec", !.answer = <<>>] /\ <<>> \in Seq(Chars)
      BY <2>1, NoBytes DEF CodeAccepted
    <3>2. QED
      BY <1>2, <3>1 DEF Offspring
  <2>2. CASE CodeByte /\ Head(ptyin)[2] = "NL"
    <3>1. child' = [child EXCEPT !.pc = "verdict"]
      BY <2>2 DEF CodeByte
    <3>2. QED
      BY <1>2, <3>1 DEF Offspring
  <2>3. CASE CodeByte /\ Head(ptyin)[2] # "NL"
    <3>1. /\ child' = [child EXCEPT !.answer = Typed(child.answer, Head(ptyin)[2])]
          /\ child.pc = "code"
          /\ ptyin # <<>> /\ ptyin \in Seq(Callers \X (Chars \ Controls))
      BY <2>3 DEF CodeByte, PtyOK
    <3>2. Head(ptyin) \in Callers \X (Chars \ Controls)
      BY <3>1, HeadTailProperties
    <3>3. Head(ptyin)[2] \in Chars
      BY <3>2
    <3>4. child.answer \in Seq(Chars)
      BY <1>2 DEF Offspring
    <3>5. Append(child.answer, Head(ptyin)[2]) \in Seq(Chars)
      BY <3>3, <3>4, AppendProperties
    <3>6. Typed(child.answer, Head(ptyin)[2]) \in Seq(Chars)
      BY <3>4, <3>5 DEF Typed
    <3>7. QED
      BY <1>2, <3>1, <3>6 DEF Offspring
  <2>4. QED
    BY <2>1, <2>2, <2>3
<1>4. /\ FirstSeats \/ LaterSeats
      /\ child'.fds[ps_slave] = "slave" /\ child'.fds[0] = "slave" /\ child'.fds[1] = "slave"
      /\ \A d \in Fds : child'.fds[d] \notin Callers \cup {"master"}
  BY <1>1, <1>3, OnTheSlave
<1>5. OffspringOnSlave'
  BY <1>3, <1>4 DEF OffspringOnSlave
<1>6. child'.tries < MaxTries /\ child.pc # "none"
  BY <1>1, <1>3
<1>7. QED
  BY <1>1, <1>3, <1>4, <1>5, <1>6, LiveChild

(* A wrong code: one try more, as long as there is one. *)
LEMMA RejectedChild ==
  ASSUME TableOK, ChildOK, CodeRejected PROVE ChildOK'
<1>1. /\ child.pc = "verdict" /\ child.tries < MaxTries
      /\ UNCHANGED gettyVars /\ lastpid' = lastpid
  BY DEF ChildOK, CodeRejected
<1>2. child \in Offspring /\ child.tries \in 0 .. MaxTries
  BY <1>1, OnTheSlave DEF Offspring
<1>3. CASE child' = Dead
  <2>1. InSession \/ pc = "killed" => InSession' \/ pc' = "killed"
    BY <1>1 DEF InSession
  <2>2. child.pc # "none"
    BY <1>1
  <2>3. QED
    BY <1>1, <1>3, <2>1, <2>2, DeadChild
<1>4. CASE child' # Dead
  <2>1. /\ child.tries + 1 # MaxTries
        /\ child' = [child EXCEPT !.pc = "code", !.tries = child.tries + 1, !.answer = <<>>]
    BY <1>4 DEF CodeRejected, Ends, TriesUsedUp
  <2>2. child.tries + 1 \in 0 .. MaxTries /\ child.tries + 1 < MaxTries
    BY <1>1, <1>2, <2>1, Sizes
  <2>3. /\ child' \in Offspring /\ child'.pc = "code" /\ child'.tries = child.tries + 1
        /\ child'.pid = child.pid /\ child'.fds = child.fds
    BY <1>2, <2>1, <2>2, NoBytes DEF Offspring
  <2>4. /\ FirstSeats \/ LaterSeats
        /\ child'.fds[ps_slave] = "slave" /\ child'.fds[0] = "slave" /\ child'.fds[1] = "slave"
        /\ \A d \in Fds : child'.fds[d] \notin Callers \cup {"master"}
    BY <1>1, <2>3, OnTheSlave
  <2>5. OffspringOnSlave'
    BY <2>3, <2>4 DEF OffspringOnSlave
  <2>6. child'.tries < MaxTries /\ child.pc # "none"
    BY <1>1, <2>2, <2>3
  <2>7. QED
    BY <1>1, <2>3, <2>4, <2>5, <2>6, LiveChild
<1>5. QED
  BY <1>3, <1>4

(* The shell: 2 as well, and one more number for the controlling terminal. *)
LEMMA ExecChild ==
  ASSUME LastFd >= 6, ChildOK, Exec PROVE ChildOK'
<1>1. child.pc = "exec" /\ UNCHANGED gettyVars /\ lastpid' = lastpid
  BY DEF Exec
<1>2. /\ child \in Offspring /\ child.fds \in [Fds -> Kinds]
      /\ FirstSeats \/ LaterSeats
      /\ child.fds[ps_slave] = "slave"
      /\ child.fds[0] = "slave" /\ child.fds[1] = "slave"
      /\ \A d \in Fds : child.fds[d] \notin Callers \cup {"master"}
  BY <1>1, OnTheSlave
<1>3. /\ 0 \in Fds /\ 1 \in Fds /\ 2 \in Fds /\ ps_slave \in Fds
  BY <1>2, SeatNumbers DEF FirstSeats, LaterSeats
<1> DEFINE t == [child.fds EXCEPT ![2] = "slave"]
<1>4. /\ t \in [Fds -> Kinds] /\ t[0] = "slave" /\ t[1] = "slave" /\ t[2] = "slave"
      /\ t[ps_slave] = "slave" /\ \A d \in Fds : t[d] \notin Callers \cup {"master"}
  BY <1>2, <1>3, Apart DEF Kinds
<1>5. PICK u : child' = [child EXCEPT !.pc = "shell", !.fds = u] /\ (u = t \/ u = Open(t, "slave"))
  BY <1>2 DEF Exec
<1> HIDE DEF t
<1>6. /\ u \in [Fds -> Kinds]
      /\ \A d \in Fds : u[d] = t[d] \/ u[d] = "slave"
  BY <1>4, <1>5 DEF Open, Kinds
<1>7. /\ u[0] = "slave" /\ u[1] = "slave" /\ u[2] = "slave" /\ u[ps_slave] = "slave"
      /\ \A d \in Fds : u[d] \notin Callers \cup {"master"}
  BY <1>3, <1>4, <1>6, Apart
<1>8. child' \in Offspring /\ child'.pc = "shell" /\ child'.pid = child.pid /\ child'.fds = u
  BY <1>2, <1>5, <1>6 DEF Offspring
<1>9. OffspringOnSlave'
  BY <1>7, <1>8 DEF OffspringOnSlave
<1>10. child'.fds[ps_slave] = "slave" /\ child.pc # "none"
  BY <1>1, <1>7, <1>8
<1>11. QED
  BY <1>1, <1>2, <1>8, <1>9, <1>10, LiveChild

(* Every step keeps the child with its session. *)
LEMMA NextChild ==
  ASSUME LastFd >= 6, TableOK, ChildOK, PtyOK, [Next]_vars PROVE ChildOK'
<1>1. CASE Fork
  BY <1>1, ForkChild
<1>2. CASE PreLogin
  BY <1>2, PreLoginChild
<1>3. CASE CodeByte \/ CodeAccepted
  BY <1>3, CodeChild
<1>4. CASE CodeRejected
  BY <1>4, RejectedChild
<1>5. CASE Exec
  BY <1>5, ExecChild
<1>6. CASE NoAuthority \/ ExecFails \/ ShellExit \/ Orphaned
  <2>1. child.pc # "none" /\ child' = Dead /\ lastpid' = lastpid /\ pc' = pc
    BY <1>6 DEF NoAuthority, ExecFails, ShellExit, Orphaned, Ends, Running
  <2>2. QED
    BY <2>1, DeadChild DEF InSession
<1>7. CASE Kill
  <2>1. CASE Hits(sh_pid)
    <3>1. child.pc # "none" /\ child' = Dead /\ lastpid' = lastpid /\ InSession'
      BY <1>7, <2>1 DEF Kill, Hits, Running, InSession
    <3>2. QED
      BY <3>1, DeadChild
  <2>2. CASE ~Hits(sh_pid)
    <3>1. UNCHANGED childVars /\ InSession' /\ UNCHANGED <<msgsock, ps_master, ps_slave>>
      BY <1>7, <2>2 DEF Kill, InSession
    <3>2. QED
      BY <3>1, SameChild
  <2>3. QED
    BY <2>1, <2>2
<1>8. CASE Wait
  <2>1. child' = NoChild /\ lastpid' = lastpid
    BY <1>8 DEF Wait
  <2>2. AllClosed \in [Fds -> Kinds] /\ <<>> \in Seq(Chars) /\ 0 \in 0 .. MaxTries
    BY NoBytes, Sizes DEF AllClosed, Kinds
  <2>3. child' \in Offspring /\ child'.pc = "none" /\ child'.pid = 0
    BY <2>1, <2>2 DEF NoChild, Offspring
  <2>4. lastpid \in Nat
    BY DEF ChildOK
  <2>5. QED
    BY <2>1, <2>3, <2>4 DEF ChildOK, OffspringOnSlave
<1>9. CASE Accept \/ AcceptFails \/ HostRefused \/ HostAccepted \/ LoginRead \/ LoginEof
           \/ LoginKey \/ LoginBad \/ LoginGood \/ OpenPsterm \/ OpenPstermFails \/ ForkFails
  <2>1. /\ pc \in {"listen", "check", "login", "openps", "fork"}
        /\ UNCHANGED childVars
    BY <1>9 DEF Accept, AcceptFails, HostRefused, HostAccepted, LoginRead, LoginEof,
       LoginKey, LoginBad, LoginGood, OpenPsterm, OpenPstermFails, ForkFails
  <2>2. child.pc = "none"
    BY <2>1 DEF ChildOK, InSession
  <2>3. QED
    BY <2>1, <2>2, SameChild
<1>10. CASE RelayStep \/ BrokenPipe
  <2>1. /\ InSession' \/ pc' = "killed"
        /\ UNCHANGED childVars /\ UNCHANGED <<msgsock, ps_master, ps_slave>>
    BY <1>10 DEF RelayStep, Select, SelectTimeout, SelectException, PtyTurn, SockTurn,
       SockReset, Stop, InSession, BrokenPipe
  <2>2. QED
    BY <2>1, SameChild
<1>11. CASE ShellRead \/ ShellWrite \/ CallerStep \/ UNCHANGED vars
  <2>1. UNCHANGED childVars /\ UNCHANGED <<pc, msgsock, ps_master, ps_slave>>
    BY <1>11 DEF ShellRead, ShellWrite, CallerStep, Connect, HangUp, SendUrgent, Send, vars
  <2>2. child.pc # "none" => InSession' \/ pc' = "killed"
    BY <2>1 DEF ChildOK, InSession
  <2>3. QED
    BY <2>1, <2>2, SameChild
<1>12. QED
  BY <1>1, <1>2, <1>3, <1>4, <1>5, <1>6, <1>7, <1>8, <1>9, <1>10, <1>11
  DEF Next, GettyStep, LoginStep, StopStep, ChildStep

-----------------------------------------------------------------------------
(* Bytes, and whose they are.                                               *)

(* The two parts of a sequence that is cut. *)
LEMMA FirstAfter ==
  ASSUME NEW S, NEW s \in Seq(S), NEW n \in Nat
  PROVE  /\ First(s, n) \in Seq(S) /\ Len(First(s, n)) <= n
         /\ After(s, n) \in Seq(S)
<1>1. \A i \in 1 .. Len(s) : s[i] \in S
  BY ElementOfSeq
<1>2. Len(s) \in Nat
  BY LenProperties
<1>3. First(s, n) \in Seq(S) /\ Len(First(s, n)) <= n
  <2> DEFINE k == IF Len(s) < n THEN Len(s) ELSE n
  <2>1. k \in Nat /\ k <= n /\ k <= Len(s)
    BY <1>2
  <2> HIDE DEF k
  <2>2. SubSeq(s, 1, k) \in Seq(S) /\ Len(SubSeq(s, 1, k)) = k
    BY <1>1, <1>2, <2>1, SubSeqProperties
  <2>3. QED
    BY <2>1, <2>2 DEF First, k
<1>4. After(s, n) \in Seq(S)
  <2>1. \A i \in n + 1 .. Len(s) : s[i] \in S
    BY <1>1
  <2>2. QED
    BY <1>2, <2>1, SubSeqProperties DEF After
<1>5. QED
  BY <1>3, <1>4

(* A sequence over a larger set. *)
LEMMA SeqOver ==
  ASSUME NEW S, NEW T, NEW s \in Seq(S), \A i \in 1 .. Len(s) : s[i] \in T
  PROVE  s \in Seq(T)
<1>1. Len(s) \in Nat /\ s \in [1 .. Len(s) -> S]
  BY LenProperties
<1>2. s \in [1 .. Len(s) -> T]
  BY <1>1
<1>3. QED
  BY <1>1, <1>2, SeqDef

(* Bytes of one caller, with and without the keys that send signals. *)
LEMMA Owned ==
  ASSUME NEW c \in Callers
  PROVE  /\ \A s \in Seq(Of(c)) : s \in Seq(Callers \X Chars)
         /\ \A s \in Seq(Keyed(c)) : s \in Seq(Callers \X (Chars \ Controls))
         /\ \A s \in Seq(Of(c)) : ControlsIn(s) = {} => s \in Seq(Keyed(c))
<1>1. ASSUME NEW s \in Seq(Of(c)) PROVE s \in Seq(Callers \X Chars)
  <2>1. \A i \in 1 .. Len(s) : s[i] \in Of(c)
    BY ElementOfSeq
  <2>2. \A i \in 1 .. Len(s) : s[i] \in Callers \X Chars
    BY <2>1 DEF Of
  <2>3. QED
    BY <2>2, SeqOver
<1>2. ASSUME NEW s \in Seq(Keyed(c)) PROVE s \in Seq(Callers \X (Chars \ Controls))
  <2>1. \A i \in 1 .. Len(s) : s[i] \in Keyed(c)
    BY ElementOfSeq
  <2>2. \A i \in 1 .. Len(s) : s[i] \in Callers \X (Chars \ Controls)
    BY <2>1 DEF Keyed
  <2>3. QED
    BY <2>2, SeqOver
<1>3. ASSUME NEW s \in Seq(Of(c)), ControlsIn(s) = {} PROVE s \in Seq(Keyed(c))
  <2>1. \A i \in 1 .. Len(s) : s[i] \in Of(c)
    BY ElementOfSeq
  <2>2. \A i \in 1 .. Len(s) : s[i][2] \notin Controls
    BY <1>3 DEF ControlsIn
  <2>3. \A i \in 1 .. Len(s) : s[i] \in Keyed(c)
    BY <2>1, <2>2 DEF Of, Keyed
  <2>4. QED
    BY <2>3, SeqOver
<1>4. QED
  BY <1>1, <1>2, <1>3

-----------------------------------------------------------------------------
(* The calls.                                                               *)

(* A step that changes one connection. *)
LEMMA ConnAt ==
  ASSUME ConnOK, NEW c \in Callers, NEW k \in Calls, k.sent <= MaxSent[c],
         k.in \in Seq(Of(c)), conn' = [conn EXCEPT ![c] = k], queue' \in Seq(Callers)
  PROVE  ConnOK'
BY DEF ConnOK

(* A connection that is over. *)
LEMMA CallOver ==
  /\ Over \in Calls
  /\ \A c \in Callers : Over.sent <= MaxSent[c] /\ Over.in \in Seq(Of(c))
<1>1. <<>> \in Seq(Callers \X Chars) /\ \A c \in Callers : <<>> \in Seq(Of(c))
  BY NoBytes
<1>2. NewCall \in Calls /\ NewCall.sent = 0 /\ NewCall.in = <<>>
  BY <1>1 DEF NewCall, Calls
<1>3. Over \in Calls /\ Over.sent = 0 /\ Over.in = <<>>
  BY <1>2 DEF Over, Calls
<1>4. \A c \in Callers : 0 <= MaxSent[c]
  BY Sizes
<1>5. QED
  BY <1>1, <1>2, <1>3, <1>4

(* A connection that is written to. *)
LEMMA CallWrittenTo ==
  ASSUME ConnOK, NEW c \in Callers, NEW k \in WrittenTo(c)
  PROVE  k \in Calls /\ k.sent <= MaxSent[c] /\ k.in \in Seq(Of(c))
<1>1. conn[c] \in Calls /\ conn[c].sent <= MaxSent[c] /\ conn[c].in \in Seq(Of(c))
  BY DEF ConnOK
<1>2. PICK r : k = [conn[c] EXCEPT !.rst = r] /\ (r = conn[c].rst \/ r \in BOOLEAN)
  BY Zenon DEF WrittenTo
<1>3. r \in BOOLEAN
  BY <1>1, <1>2 DEF Calls
<1>4. QED
  BY <1>1, <1>2, <1>3 DEF Calls

(* Every step keeps the connections. *)
LEMMA NextConn ==
  ASSUME TableOK, ConnOK, [Next]_vars PROVE ConnOK'
<1>1. CASE UNCHANGED netVars
  BY <1>1 DEF ConnOK
<1>2. ASSUME queue' \in Seq(Callers), NEW c \in Callers, conn' = [conn EXCEPT ![c] = Over]
      PROVE  ConnOK'
  BY <1>2, ConnAt, CallOver
<1>3. ASSUME queue' = queue, NEW c \in Callers, NEW k \in WrittenTo(c),
             conn' = [conn EXCEPT ![c] = k]
      PROVE  ConnOK'
  <2>1. queue' \in Seq(Callers)
    BY <1>3 DEF ConnOK
  <2>2. QED
    BY <1>3, <2>1, ConnAt, CallWrittenTo
<1>4. ASSUME NEW own, GettyGone(own) PROVE ConnOK'
  <2>1. queue' \in Seq(Callers)
    BY <1>4, NoBytes DEF GettyGone
  <2>2. \A c \in Callers : conn'[c] = Over \/ conn'[c] = conn[c]
    BY <1>4 DEF GettyGone
  <2>3. conn' = [c \in Callers |-> conn'[c]]
    BY <1>4 DEF GettyGone
  <2>4. QED
    BY <2>1, <2>2, <2>3, CallOver DEF ConnOK
<1>c. pc \in {"check", "login", "openps", "fork", "relay", "kill", "wait"} => Caller \in Callers
  BY DEF TableOK, BeforeTerminal, InSession
<1>5. CASE Accept \/ AcceptFails
  <2>1. queue \in Seq(Callers) /\ queue # <<>> /\ queue' = Tail(queue)
    BY <1>5 DEF Accept, AcceptFails, ConnOK
  <2>2. Head(queue) \in Callers /\ queue' \in Seq(Callers)
    BY <2>1, HeadTailProperties
  <2>3. CASE AcceptFails
    BY <1>2, <2>2, <2>3 DEF AcceptFails
  <2>4. CASE Accept
    <3> DEFINE c == Head(queue)
               k == [conn[c] EXCEPT !.stage = "open"]
    <3>1. conn[c] \in Calls /\ conn[c].sent <= MaxSent[c] /\ conn[c].in \in Seq(Of(c))
      BY <2>2 DEF ConnOK
    <3>2. k \in Calls /\ k.sent <= MaxSent[c] /\ k.in \in Seq(Of(c))
      BY <3>1 DEF Calls
    <3>3. conn' = [conn EXCEPT ![c] = k]
      BY <2>4 DEF Accept
    <3> HIDE DEF k
    <3>4. QED
      BY <2>2, <3>2, <3>3, ConnAt
  <2>5. QED
    BY <1>5, <2>3, <2>4
<1>6. CASE HostRefused \/ LoginEof \/ OpenPstermFails \/ ForkFails
  <2>1. Caller \in Callers /\ conn' = [conn EXCEPT ![Caller] = Over] /\ queue' = queue
    BY <1>c, <1>6 DEF HostRefused, LoginEof, OpenPstermFails, ForkFails, FailedLogin
  <2>2. queue' \in Seq(Callers)
    BY <2>1 DEF ConnOK
  <2>3. QED
    BY <1>2, <2>1, <2>2
<1>7. CASE HostAccepted \/ LoginKey \/ LoginBad \/ LoginGood \/ PtyTurn
  <2>1. Caller \in Callers /\ queue' = queue
    BY <1>c, <1>7 DEF HostAccepted, LoginKey, LoginBad, LoginGood, PtyTurn
  <2>2. \/ conn' = conn
        \/ conn' = [conn EXCEPT ![Caller] = Over]
        \/ \E k \in WrittenTo(Caller) : conn' = [conn EXCEPT ![Caller] = k]
    BY <1>7 DEF HostAccepted, LoginKey, LoginBad, LoginGood, PtyTurn, FailedLogin
  <2>3. queue' \in Seq(Callers)
    BY <2>1 DEF ConnOK
  <2>4. QED
    BY <1>1, <1>2, <1>3, <2>1, <2>2, <2>3
<1>8. CASE LoginRead \/ SockTurn
  <2>1. Caller \in Callers /\ queue' = queue
    BY <1>c, <1>8 DEF LoginRead, SockTurn
  <2>2. PICK n \in Nat : conn' = [conn EXCEPT ![Caller].in = After(conn[Caller].in, n)]
    BY <1>8, Sizes DEF LoginRead, SockTurn
  <2> DEFINE k == [conn[Caller] EXCEPT !.in = After(conn[Caller].in, n)]
  <2>3. conn[Caller] \in Calls /\ conn[Caller].sent <= MaxSent[Caller]
        /\ conn[Caller].in \in Seq(Of(Caller))
    BY <2>1 DEF ConnOK
  <2>4. After(conn[Caller].in, n) \in Seq(Of(Caller))
    BY <2>3, FirstAfter
  <2>5. After(conn[Caller].in, n) \in Seq(Callers \X Chars)
    BY <2>1, <2>4, Owned
  <2>6. k \in Calls /\ k.sent <= MaxSent[Caller] /\ k.in \in Seq(Of(Caller))
    BY <2>3, <2>4, <2>5 DEF Calls
  <2>7. conn' = [conn EXCEPT ![Caller] = k]
    BY <2>2
  <2>8. queue' \in Seq(Callers)
    BY <2>1 DEF ConnOK
  <2> HIDE DEF k
  <2>9. QED
    BY <2>1, <2>6, <2>7, <2>8, ConnAt
<1>9. CASE Wait \/ BrokenPipe
  <2>1. CASE GettyGone(Caller)
    BY <1>4, <2>1
  <2>2. CASE ~GettyGone(Caller)
    <3>1. Caller \in Callers /\ conn' = [conn EXCEPT ![Caller] = Over] /\ queue' = queue
      BY <1>c, <1>9, <2>2 DEF Wait, BrokenPipe
    <3>2. queue' \in Seq(Callers)
      BY <3>1 DEF ConnOK
    <3>3. QED
      BY <1>2, <3>1, <3>2
  <2>3. QED
    BY <2>1, <2>2
<1>10. ASSUME NEW c \in Callers, Connect(c) \/ HangUp(c) \/ SendUrgent(c)
       PROVE  ConnOK'
  <2>1. conn[c] \in Calls /\ conn[c].sent <= MaxSent[c] /\ conn[c].in \in Seq(Of(c))
        /\ conn[c].sent \in Nat /\ MaxSent[c] \in Nat
    BY Sizes DEF ConnOK, Calls
  <2>2. queue' \in Seq(Callers)
    <3>1. queue \in Seq(Callers) /\ queue' \in {queue, Append(queue, c)}
      BY <1>10 DEF Connect, HangUp, SendUrgent, ConnOK
    <3>2. QED
      BY <3>1, AppendProperties
  <2>3. PICK k : /\ conn' = [conn EXCEPT ![c] = k]
                 /\ \/ k = [conn[c] EXCEPT !.stage = "queued"]
                    \/ \E r \in BOOLEAN : k = [conn[c] EXCEPT !.left = TRUE, !.rst = r]
                    \/ /\ k = [conn[c] EXCEPT !.oob = TRUE, !.sent = conn[c].sent + 1]
                       /\ conn[c].sent < MaxSent[c]
    BY <1>10, Zenon DEF Connect, HangUp, SendUrgent
  <2>4. k \in Calls /\ k.sent <= MaxSent[c] /\ k.in \in Seq(Of(c))
    <3>1. CASE k = [conn[c] EXCEPT !.stage = "queued"]
      BY <2>1, <3>1 DEF Calls
    <3>2. ASSUME NEW r \in BOOLEAN, k = [conn[c] EXCEPT !.left = TRUE, !.rst = r]
          PROVE  k \in Calls /\ k.sent <= MaxSent[c] /\ k.in \in Seq(Of(c))
      BY <2>1, <3>2 DEF Calls
    <3>3. CASE /\ k = [conn[c] EXCEPT !.oob = TRUE, !.sent = conn[c].sent + 1]
               /\ conn[c].sent < MaxSent[c]
      <4>1. conn[c].sent + 1 \in Nat /\ conn[c].sent + 1 <= MaxSent[c]
        BY <2>1, <3>3
      <4>2. QED
        BY <2>1, <3>3, <4>1 DEF Calls
    <3>4. QED
      BY <2>3, <3>1, <3>2, <3>3
  <2>5. QED
    BY <2>2, <2>3, <2>4, ConnAt
<1>11. ASSUME NEW c \in Callers, NEW ch \in Keys[c], Send(c, ch) PROVE ConnOK'
  <2>1. conn[c] \in Calls /\ conn[c].sent < MaxSent[c] /\ conn[c].in \in Seq(Of(c))
        /\ conn[c].sent \in Nat /\ MaxSent[c] \in Nat
    BY <1>11, Sizes DEF ConnOK, Calls, Send
  <2>2. <<c, ch>> \in Of(c)
    BY ConstantsAssumption DEF Of, Chars, Controls
  <2>3. Append(conn[c].in, <<c, ch>>) \in Seq(Of(c))
    BY <2>1, <2>2, AppendProperties
  <2>4. Append(conn[c].in, <<c, ch>>) \in Seq(Callers \X Chars)
    BY <2>3, Owned
  <2> DEFINE k == [conn[c] EXCEPT !.in = Append(conn[c].in, <<c, ch>>),
                                  !.sent = conn[c].sent + 1]
  <2>5. k \in Calls /\ k.sent <= MaxSent[c] /\ k.in \in Seq(Of(c))
    <3>1. conn[c].sent + 1 \in Nat /\ conn[c].sent + 1 <= MaxSent[c]
      BY <2>1
    <3>2. conn[c] \in Calls
      BY <2>1
    <3>3. k.sent = conn[c].sent + 1 /\ k.in = Append(conn[c].in, <<c, ch>>)
      BY <3>2 DEF Calls
    <3>4. k \in Calls
      BY <2>4, <3>1, <3>2 DEF Calls
    <3>5. QED
      BY <2>3, <3>1, <3>3, <3>4
  <2>6. conn' = [conn EXCEPT ![c] = k] /\ queue' \in Seq(Callers)
    BY <1>11 DEF Send, ConnOK
  <2> HIDE DEF k
  <2>7. QED
    BY <2>5, <2>6, ConnAt
<1>12. CASE UNCHANGED vars
  BY <1>1, <1>12 DEF vars
<1>13. CASE OpenPsterm \/ Fork \/ Select \/ SelectTimeout \/ SelectException \/ SockReset
            \/ Kill \/ ChildStep
  BY <1>1, <1>13 DEF OpenPsterm, Fork, Select, SelectTimeout, SelectException, SockReset,
     Kill, ChildStep, PreLogin, CodeByte, CodeAccepted, CodeRejected, NoAuthority, Exec,
     ExecFails, ShellRead, ShellWrite, ShellExit, Orphaned
<1>14. QED
  BY <1>5, <1>6, <1>7, <1>8, <1>9, <1>10, <1>11, <1>12, <1>13
  DEF Next, GettyStep, LoginStep, RelayStep, StopStep, CallerStep

-----------------------------------------------------------------------------
(* The user name.                                                           *)

(* A step that leaves the login alone. *)
LEMMA SameLogin ==
  ASSUME TableOK, LoginOK, UNCHANGED loginVars,
         pc' # "login" \/ UNCHANGED <<pc, fds, sessionVars>>
  PROVE  LoginOK'
<1>1. CASE pc' # "login"
  BY <1>1 DEF LoginOK
<1>2. CASE UNCHANGED <<pc, fds, sessionVars>>
  <2>1. Caller' = Caller
    BY <1>2, SameTable
  <2>2. QED
    BY <1>2, <2>1 DEF LoginOK
<1>3. QED
  BY <1>1, <1>2

(* Every step keeps the login with its caller. *)
LEMMA NextLogin ==
  ASSUME TableOK, ConnOK, LoginOK, [Next]_vars PROVE LoginOK'
<1>e. \A S : <<>> \in Seq(S)
  BY NoBytes
<1>c. pc = "login" => Caller \in Callers
  BY DEF TableOK, BeforeTerminal
<1>1. CASE HostAccepted
  BY <1>e, <1>1, Sizes DEF HostAccepted, FreshLine, LoginOK
<1>2. CASE LoginRead
  <2>1. UNCHANGED <<pc, fds, sessionVars, numtries, obuf>> /\ pc = "login"
        /\ gbuf' = First(conn[Caller].in, PacketSize)
    BY <1>2 DEF LoginRead
  <2>2. Caller' = Caller /\ Caller \in Callers
    BY <1>c, <2>1, SameTable
  <2>3. conn[Caller].in \in Seq(Of(Caller))
    BY <2>2 DEF ConnOK
  <2>4. gbuf' \in Seq(Of(Caller))
    BY <2>1, <2>3, FirstAfter, Sizes
  <2>5. gbuf' \in Seq(Callers \X Chars)
    BY <2>2, <2>4, Owned
  <2>6. QED
    BY <2>1, <2>2, <2>4, <2>5 DEF LoginOK
<1>3. CASE LoginKey
  <2>1. /\ UNCHANGED <<pc, fds, sessionVars, numtries>> /\ pc = "login" /\ gbuf # <<>>
        /\ gbuf' = Tail(gbuf)
        /\ \/ obuf' = Append(obuf, Head(gbuf))
           \/ obuf' = SubSeq(obuf, 1, Len(obuf) - 1)
    BY <1>3 DEF LoginKey
  <2>2. Caller' = Caller /\ Caller \in Callers
    BY <1>c, <2>1, SameTable
  <2>3. gbuf \in Seq(Of(Caller)) /\ obuf \in Seq(Of(Caller))
    BY <2>1 DEF LoginOK
  <2>4. Head(gbuf) \in Of(Caller) /\ gbuf' \in Seq(Of(Caller))
    BY <2>1, <2>3, HeadTailProperties
  <2>5. Append(obuf, Head(gbuf)) \in Seq(Of(Caller))
    BY <2>3, <2>4, AppendProperties
  <2>6. SubSeq(obuf, 1, Len(obuf) - 1) \in Seq(Of(Caller))
    <3>1. Len(obuf) \in Nat /\ \A i \in 1 .. Len(obuf) : obuf[i] \in Of(Caller)
      BY <2>3, LenProperties, ElementOfSeq
    <3>2. Len(obuf) - 1 \in Int /\ \A i \in 1 .. Len(obuf) - 1 : obuf[i] \in Of(Caller)
      BY <3>1
    <3>3. QED
      BY <3>2, SubSeqProperties
  <2>7. obuf' \in Seq(Of(Caller))
    BY <2>1, <2>5, <2>6
  <2>8. gbuf' \in Seq(Callers \X Chars) /\ obuf' \in Seq(Callers \X Chars)
    BY <2>2, <2>4, <2>7, Owned
  <2>9. QED
    BY <2>1, <2>2, <2>4, <2>7, <2>8 DEF LoginOK
<1>4. CASE LoginBad \/ LoginGood
  <2>1. /\ pc = "login" /\ gbuf # <<>> /\ gbuf' = Tail(gbuf) /\ numtries' = numtries + 1
        /\ obuf' = obuf \/ obuf' = <<>>
        /\ \/ pc' # "login"
           \/ UNCHANGED <<pc, fds, sessionVars>> /\ numtries + 1 # MaxTries
    BY <1>4 DEF LoginBad, LoginGood, FailedLogin, TriesUsedUp
  <2>2. gbuf \in Seq(Of(Caller)) /\ obuf' \in Seq(Of(Caller)) /\ Caller \in Callers
    BY <1>c, <1>e, <2>1 DEF LoginOK
  <2>3. gbuf' \in Seq(Of(Caller))
    BY <2>1, <2>2, HeadTailProperties
  <2>4. gbuf' \in Seq(Callers \X Chars) /\ obuf' \in Seq(Callers \X Chars)
    BY <2>2, <2>3, Owned
  <2>5. numtries' \in 0 .. MaxTries /\ (numtries + 1 # MaxTries => numtries' < MaxTries)
    BY <2>1, Sizes DEF LoginOK
  <2>6. CASE pc' # "login"
    BY <2>4, <2>5, <2>6 DEF LoginOK
  <2>7. CASE UNCHANGED <<pc, fds, sessionVars>> /\ numtries + 1 # MaxTries
    <3>1. Caller' = Caller
      BY <2>7, SameTable
    <3>2. QED
      BY <2>2, <2>3, <2>4, <2>5, <2>7, <3>1 DEF LoginOK
  <2>8. QED
    BY <2>1, <2>6, <2>7
<1>5. CASE Accept \/ AcceptFails \/ HostRefused \/ LoginEof \/ OpenPsterm \/ OpenPstermFails
           \/ ForkFails \/ Fork
  <2>1. UNCHANGED loginVars /\ pc' # "login"
    BY <1>5 DEF Accept, AcceptFails, HostRefused, LoginEof, OpenPsterm, OpenPstermFails,
       ForkFails, Fork, FailedLogin
  <2>2. QED
    BY <2>1, SameLogin
<1>6. CASE RelayStep \/ StopStep \/ BrokenPipe
  <2>1. UNCHANGED loginVars /\ pc' # "login"
    BY <1>6 DEF RelayStep, Select, SelectTimeout, SelectException, PtyTurn, SockTurn,
       SockReset, Stop, StopStep, Kill, Wait, BrokenPipe
  <2>2. QED
    BY <2>1, SameLogin
<1>7. CASE ChildStep \/ CallerStep \/ UNCHANGED vars
  <2>1. UNCHANGED loginVars /\ UNCHANGED <<pc, fds, sessionVars>>
    BY <1>7 DEF ChildStep, PreLogin, CodeByte, CodeAccepted, CodeRejected, NoAuthority, Exec,
       ExecFails, ShellRead, ShellWrite, ShellExit, Orphaned, CallerStep, Connect, HangUp,
       SendUrgent, Send, vars
  <2>2. QED
    BY <2>1, SameLogin
<1>8. QED
  BY <1>1, <1>2, <1>3, <1>4, <1>5, <1>6, <1>7 DEF Next, GettyStep, LoginStep

-----------------------------------------------------------------------------
(* The terminal.                                                            *)

(* A step that leaves the input of the pseudo terminal alone. *)
LEMMA SamePty ==
  ASSUME TableOK, PtyOK, ptyin' = ptyin, ptyout' \in 0 .. MaxOut,
         \/ ptyin = <<>>
         \/ InSession /\ InSession' /\ UNCHANGED <<fds, sessionVars>>
         \/ pc' \in {"exited", "killed"}
         \/ UNCHANGED <<pc, fds, sessionVars>>
  PROVE  PtyOK'
<1>1. CASE ptyin = <<>>
  BY <1>1, NoBytes DEF PtyOK
<1>2. CASE InSession /\ InSession' /\ UNCHANGED <<fds, sessionVars>>
  <2>1. Caller' = Caller
    BY <1>2, SameTable
  <2>2. ~(pc' = "listen" \/ BeforeTerminal' \/ pc' = "fork")
    BY <1>2 DEF InSession, BeforeTerminal
  <2>3. QED
    BY <1>2, <2>1, <2>2 DEF PtyOK
<1>3. CASE pc' \in {"exited", "killed"}
  BY <1>3 DEF PtyOK, InSession, BeforeTerminal
<1>4. CASE UNCHANGED <<pc, fds, sessionVars>>
  <2>1. Caller' = Caller
    BY <1>4, SameTable
  <2>2. QED
    BY <1>4, <2>1 DEF PtyOK, InSession, BeforeTerminal
<1>5. QED
  BY <1>1, <1>2, <1>3, <1>4

(* The terminal loses a byte at the front. *)
LEMMA TailPty ==
  ASSUME TableOK, PtyOK, ptyin # <<>>, ptyin' = Tail(ptyin), ptyout' = ptyout,
         UNCHANGED <<pc, fds, sessionVars>>
  PROVE  PtyOK'
<1>1. Caller' = Caller
  BY SameTable
<1>2. /\ Tail(ptyin) \in Seq(Callers \X (Chars \ Controls))
      /\ Len(Tail(ptyin)) = Len(ptyin) - 1 /\ Len(ptyin) \in Nat /\ Len(ptyin) <= PtySize
  BY HeadTailProperties, LenProperties DEF PtyOK
<1>3. Len(Tail(ptyin)) <= PtySize
  BY <1>2, Sizes
<1>4. InSession => Tail(ptyin) \in Seq(Keyed(Caller))
  BY HeadTailProperties DEF PtyOK
<1>5. ~(pc = "listen" \/ BeforeTerminal \/ pc = "fork")
  BY DEF PtyOK
<1>6. QED
  BY <1>1, <1>2, <1>3, <1>4, <1>5 DEF PtyOK, InSession, BeforeTerminal

(* What is written on the terminal fits. *)
LEMMA Written ==
  ASSUME PtyOK, Writes PROVE ptyout' \in 0 .. MaxOut
BY Sizes DEF PtyOK, Writes

(* What the relay hands over came from this caller, in one read without a   *)
(* control character.                                                       *)
LEMMA SockPty ==
  ASSUME TableOK, ConnOK, PtyOK, SockTurn PROVE PtyOK'
<1> DEFINE ibuf == First(conn[Caller].in, ReadSize)
<1>1. /\ pc = "relay" /\ InSession /\ InSession' /\ UNCHANGED <<fds, sessionVars>>
      /\ ptyout' = ptyout
  BY DEF SockTurn, Stop, InSession
<1>2. Caller \in Callers
  BY <1>1 DEF TableOK
<1>3. ptyout' \in 0 .. MaxOut
  BY <1>1 DEF PtyOK
<1>4. CASE ptyin' = ptyin
  BY <1>1, <1>3, <1>4, SamePty
<1>5. CASE ptyin' # ptyin
  <2>1. ControlsIn(ibuf) = {} /\ ptyin' = First(ptyin \o ibuf, PtySize)
    BY <1>5 DEF SockTurn
  <2>2. conn[Caller].in \in Seq(Of(Caller))
    BY <1>2 DEF ConnOK
  <2>3. ibuf \in Seq(Of(Caller))
    BY <2>2, FirstAfter, Sizes
  <2>4. ibuf \in Seq(Keyed(Caller)) /\ ptyin \in Seq(Keyed(Caller))
    BY <1>1, <1>2, <2>1, <2>3, Owned DEF PtyOK
  <2> HIDE DEF ibuf
  <2>5. ptyin \o ibuf \in Seq(Keyed(Caller))
    BY <2>4, ConcatProperties
  <2>6. ptyin' \in Seq(Keyed(Caller)) /\ Len(ptyin') <= PtySize
    BY <2>1, <2>5, FirstAfter, Sizes
  <2>7. ptyin' \in Seq(Callers \X (Chars \ Controls))
    BY <1>2, <2>6, Owned
  <2>8. Caller' = Caller
    BY <1>1, SameTable
  <2>9. ~(pc' = "listen" \/ BeforeTerminal' \/ pc' = "fork")
    BY <1>1 DEF InSession, BeforeTerminal
  <2>10. QED
    BY <1>1, <1>3, <2>6, <2>7, <2>8, <2>9 DEF PtyOK
<1>6. QED
  BY <1>4, <1>5

(* Every step keeps the bytes in the pseudo terminal those of the caller. *)
LEMMA NextPty ==
  ASSUME TableOK, ConnOK, ChildOK, PtyOK, [Next]_vars PROVE PtyOK'
<1>o. ptyout \in 0 .. MaxOut
  BY DEF PtyOK
<1>1. CASE LoginStep
  <2>1. ptyin' = ptyin /\ ptyout' = ptyout /\ pc \in {"listen", "check", "login", "openps", "fork"}
    BY <1>1 DEF LoginStep, Accept, AcceptFails, HostRefused, HostAccepted, LoginRead,
       LoginEof, LoginKey, LoginBad, LoginGood, OpenPsterm, OpenPstermFails, ForkFails, Fork
  <2>2. ptyin = <<>>
    BY <2>1 DEF PtyOK, BeforeTerminal
  <2>3. QED
    BY <1>o, <2>1, <2>2, SamePty
<1>2. CASE SockTurn
  BY <1>2, SockPty
<1>3. CASE RelayStep /\ ~SockTurn
  <2>1. /\ InSession /\ InSession' /\ UNCHANGED <<fds, sessionVars>> /\ ptyin' = ptyin
        /\ \/ ptyout' = ptyout
           \/ ptyout' = IF ptyout < ReadSize THEN 0 ELSE ptyout - ReadSize
    BY <1>3 DEF RelayStep, Select, SelectTimeout, SelectException, PtyTurn, SockReset,
       Stop, InSession
  <2>2. ptyout' \in 0 .. MaxOut
    BY <1>o, <2>1, Sizes
  <2>3. QED
    BY <2>1, <2>2, SamePty
<1>4. CASE Kill
  <2>1. /\ InSession /\ InSession' /\ UNCHANGED <<fds, sessionVars>> /\ ptyin' = ptyin
        /\ ptyout' = ptyout
    BY <1>4 DEF Kill, InSession
  <2>2. QED
    BY <1>o, <2>1, SamePty
<1>5. CASE Wait
  BY <1>5, NoBytes, Sizes DEF Wait, PtyOK
<1>6. CASE BrokenPipe
  <2>1. pc' \in {"exited", "killed"} /\ ptyin' = ptyin /\ ptyout' = ptyout
    BY <1>6 DEF BrokenPipe
  <2>2. QED
    BY <1>o, <2>1, SamePty
<1>7. CASE CodeByte \/ ShellRead
  <2>1. ptyin # <<>> /\ ptyin' = Tail(ptyin) /\ ptyout' = ptyout /\ UNCHANGED <<pc, fds, sessionVars>>
    BY <1>7 DEF CodeByte, ShellRead
  <2>2. QED
    BY <2>1, TailPty
<1>8. CASE (ChildStep /\ ~CodeByte /\ ~ShellRead) \/ CallerStep \/ UNCHANGED vars
  <2>1. /\ ptyin' = ptyin /\ UNCHANGED <<pc, fds, sessionVars>>
        /\ ptyout' = ptyout \/ Writes
    BY <1>8 DEF ChildStep, PreLogin, CodeAccepted, CodeRejected, NoAuthority, Exec,
       ExecFails, ShellWrite, ShellExit, Orphaned, CallerStep, Connect, HangUp,
       SendUrgent, Send, vars
  <2>2. ptyout' \in 0 .. MaxOut
    BY <1>o, <2>1, Written
  <2>3. QED
    BY <2>1, <2>2, SamePty
<1>9. QED
  BY <1>1, <1>2, <1>3, <1>4, <1>5, <1>6, <1>7, <1>8 DEF Next, GettyStep, StopStep, ChildStep

(* Every step keeps the rest. *)
LEMMA NextRest ==
  ASSUME ChildOK, RestOK, [Next]_vars PROVE RestOK'
<1>1. CASE UNCHANGED <<sh_pid, relayVars>>
  BY <1>1 DEF RestOK
<1>2. CASE Fork
  BY <1>2 DEF Fork, ChildOK, RestOK
<1>3. CASE LoginStep /\ ~Fork
  BY <1>1, <1>3 DEF LoginStep, Accept, AcceptFails, HostRefused, HostAccepted, LoginRead,
     LoginEof, LoginKey, LoginBad, LoginGood, OpenPsterm, OpenPstermFails, ForkFails
<1>4. CASE RelayStep \/ BrokenPipe
  <2>1. Readable \subseteq {"ptty", "sock"}
    BY DEF Readable
  <2>2. /\ sh_pid' = sh_pid
        /\ ready' \in {{}, ready, Readable, ready \ {"ptty"}}
        /\ after' \in {after, "listen", "exit"}
    BY <1>4 DEF RelayStep, Select, SelectTimeout, SelectException, PtyTurn, SockTurn,
       SockReset, Stop, BrokenPipe
  <2>3. QED
    BY <2>1, <2>2 DEF RestOK
<1>5. CASE StopStep \/ ChildStep \/ CallerStep \/ UNCHANGED vars
  BY <1>1, <1>5 DEF StopStep, Kill, Wait, ChildStep, PreLogin, CodeByte, CodeAccepted,
     CodeRejected, NoAuthority, Exec, ExecFails, ShellRead, ShellWrite, ShellExit, Orphaned,
     CallerStep, Connect, HangUp, SendUrgent, Send, vars
<1>6. QED
  BY <1>2, <1>3, <1>4, <1>5 DEF Next, GettyStep

-----------------------------------------------------------------------------
(* s_getty starts with the standard descriptors alone: the invariant holds *)
(* of every initial state, whatever the sizes, in a table of seven         *)
(* descriptors or more.                                                    *)
THEOREM InitIInv == ASSUME LastFd >= 6 PROVE Init => IInv
<1> SUFFICES ASSUME Init PROVE IInv
  OBVIOUS
<1>1. TableOK
  <2>1. /\ pc = "listen" /\ first_fork = TRUE
        /\ msgsock = 0 /\ ps_master = 0 /\ ps_slave = 0
        /\ fds = [d \in Fds |-> IF d <= 2 THEN "std" ELSE IF d = 3 THEN "sock" ELSE "closed"]
    BY DEF Init
  <2>2. \A d \in Fds : d <= 2 <=> d = 2 \/ d < 2
    BY Sizes DEF Fds
  <2>3. fds = Idle
    BY <2>1, <2>2 DEF Idle
  <2>4. Idle \in [Fds -> Kinds]
    BY DEF Idle, Kinds
  <2>5. 0 \in Fds
    BY SeatNumbers
  <2>6. QED
    BY <2>1, <2>3, <2>4, <2>5 DEF TableOK, BeforeTerminal, InSession
<1>2. ChildOK
  <2>1. child = NoChild /\ lastpid = 0
    BY DEF Init
  <2>2. AllClosed \in [Fds -> Kinds] /\ <<>> \in Seq(Chars) /\ 0 \in 0 .. MaxTries
    BY NoBytes, Sizes DEF AllClosed, Kinds
  <2>3. child \in Offspring /\ child.pc = "none" /\ child.pid = 0
    BY <2>1, <2>2 DEF NoChild, Offspring
  <2>4. QED
    BY <2>1, <2>3 DEF ChildOK, OffspringOnSlave
<1>3. ConnOK
  <2>1. <<>> \in Seq(Callers \X Chars) /\ <<>> \in Seq(Callers)
        /\ \A c \in Callers : <<>> \in Seq(Of(c))
    BY NoBytes
  <2>2. NewCall \in Calls /\ NewCall.sent = 0 /\ NewCall.in = <<>>
    BY <2>1 DEF NewCall, Calls
  <2>3. conn = [c \in Callers |-> NewCall] /\ queue = <<>>
    BY DEF Init
  <2>4. \A c \in Callers : 0 <= MaxSent[c]
    BY Sizes
  <2>5. QED
    BY <2>1, <2>2, <2>3, <2>4 DEF ConnOK
<1>4. LoginOK
  <2>1. numtries = 0 /\ gbuf = <<>> /\ obuf = <<>> /\ pc = "listen"
    BY DEF Init
  <2>2. QED
    BY <2>1, NoBytes, Sizes DEF LoginOK
<1>5. PtyOK
  <2>1. ptyin = <<>> /\ ptyout = 0
    BY DEF Init
  <2>2. QED
    BY <2>1, NoBytes, Sizes DEF PtyOK
<1>6. RestOK
  BY DEF Init, RestOK
<1>7. QED
  BY <1>1, <1>2, <1>3, <1>4, <1>5, <1>6 DEF IInv

(* Every step of s_getty, of a caller or of the login shell keeps the    *)
(* invariant: descriptors, child, login and pseudo terminal are those of *)
(* one session.                                                          *)
THEOREM NextIInv == ASSUME LastFd >= 6 PROVE IInv /\ [Next]_vars => IInv'
<1>1. ASSUME IInv, [Next]_vars PROVE IInv'
  <2>1. TableOK /\ ChildOK /\ ConnOK /\ LoginOK /\ PtyOK /\ RestOK
    BY <1>1 DEF IInv
  <2>2. TableOK' /\ ChildOK' /\ ConnOK'
    BY <1>1, <2>1, NextTable, NextChild, NextConn
  <2>3. LoginOK' /\ PtyOK' /\ RestOK'
    BY <1>1, <2>1, NextLogin, NextPty, NextRest
  <2>4. QED
    BY <2>2, <2>3 DEF IInv
<1>2. QED
  BY <1>1

(* The descriptors, from the invariant. *)
LEMMA IInvDescriptors ==
  ASSUME LastFd >= 6, IInv PROVE DescriptorsKept
<1>0. TableOK /\ ChildOK /\ ConnOK /\ LoginOK /\ PtyOK /\ RestOK
  BY DEF IInv
<1>1. TypeOK
  <2>1. /\ pc \in {"listen", "check", "login", "openps", "fork", "relay", "kill",
                   "wait", "exited", "killed"}
        /\ fds \in [Fds -> {"closed", "std", "sock", "master", "slave"} \cup Callers]
        /\ {msgsock, ps_master, ps_slave} \subseteq Fds \cup {-1}
        /\ first_fork \in BOOLEAN
    BY <1>0 DEF TableOK, Kinds
  <2>2. /\ child.pc \in {"none", "prelogin", "code", "verdict", "exec", "shell", "zombie"}
        /\ child.fds \in [Fds -> {"closed", "std", "sock", "master", "slave"} \cup Callers]
        /\ child.tries \in 0 .. MaxTries /\ child.answer \in Seq(Chars)
        /\ child.pid \in Nat /\ child.pid <= lastpid /\ lastpid \in Nat
    BY <1>0 DEF ChildOK, Offspring, Kinds
  <2>3. child.pid \in 0 .. lastpid
    BY <2>2
  <2>4. ASSUME NEW c \in Callers
        PROVE  /\ conn[c].stage \in {"idle", "queued", "open", "ended"}
               /\ conn[c].in \in Seq(Callers \X Chars)
               /\ conn[c].sent \in 0 .. MaxSent[c]
               /\ {conn[c].left, conn[c].rst, conn[c].oob} \subseteq BOOLEAN
    <3>1. conn[c] \in Calls /\ conn[c].sent <= MaxSent[c]
      BY <1>0 DEF ConnOK
    <3>2. /\ conn[c].left \in BOOLEAN /\ conn[c].rst \in BOOLEAN /\ conn[c].oob \in BOOLEAN
          /\ conn[c].sent \in Nat /\ conn[c].stage \in {"idle", "queued", "open", "ended"}
          /\ conn[c].in \in Seq(Callers \X Chars)
      BY <3>1 DEF Calls
    <3>3. conn[c].sent \in 0 .. MaxSent[c]
      BY <3>1, <3>2, Sizes
    <3>4. {conn[c].left, conn[c].rst, conn[c].oob} \subseteq BOOLEAN
      BY <3>2
    <3>5. QED
      BY <3>2, <3>3, <3>4
  <2>5. queue \in Seq(Callers)
    BY <1>0 DEF ConnOK
  <2>6. numtries \in 0 .. MaxTries
        /\ gbuf \in Seq(Callers \X Chars) /\ obuf \in Seq(Callers \X Chars)
    BY <1>0 DEF LoginOK
  <2>7. /\ sh_pid \in Nat /\ ready \subseteq {"ptty", "sock"} /\ after \in {"listen", "exit"}
        /\ ptyout \in 0 .. MaxOut /\ Len(ptyin) <= PtySize
    BY <1>0 DEF RestOK, PtyOK
  <2>8. ptyin \in Seq(Callers \X Chars)
    <3>1. ptyin \in Seq(Callers \X (Chars \ Controls))
      BY <1>0 DEF PtyOK
    <3>2. \A i \in 1 .. Len(ptyin) : ptyin[i] \in Callers \X (Chars \ Controls)
      BY <3>1, ElementOfSeq
    <3>3. \A i \in 1 .. Len(ptyin) : ptyin[i] \in Callers \X Chars
      BY <3>2
    <3>4. QED
      BY <3>1, <3>3, SeqOver
  <2>9. QED
    BY <2>1, <2>2, <2>3, <2>4, <2>5, <2>6, <2>7, <2>8, Zenon DEF TypeOK
<1>2. SessionDescriptors
  <2>1. Serving => Caller \in Callers
    BY <1>0 DEF TableOK, Serving, BeforeTerminal, InSession
  <2>2. InSession => /\ fds[ps_master] = "master" /\ ps_master # msgsock
                     /\ \A d \in Fds : fds[d] # "slave"
    <3> SUFFICES ASSUME InSession
                 PROVE  /\ fds[ps_master] = "master" /\ ps_master # msgsock
                        /\ \A d \in Fds : fds[d] # "slave"
      OBVIOUS
    <3>1. /\ FirstSeats \/ LaterSeats
          /\ fds = [Idle EXCEPT ![msgsock] = Caller, ![ps_master] = "master"]
          /\ Caller \in Callers
      BY <1>0 DEF TableOK
    <3>2. ps_master \in Fds /\ ps_master # msgsock
      BY <3>1, SeatNumbers DEF FirstSeats, LaterSeats
    <3>3. \A d \in Fds : Idle[d] # "slave"
      BY DEF Idle
    <3>4. Idle \in [Fds -> Kinds]
      BY DEF Idle, Kinds
    <3>5. QED
      BY <3>1, <3>2, <3>3, <3>4, Apart
  <2>3. OffspringOnSlave
    BY <1>0 DEF ChildOK
  <2>4. QED
    BY <2>1, <2>2, <2>3 DEF SessionDescriptors, InSession
<1>3. ListenClean
  <2> SUFFICES ASSUME pc = "listen" PROVE ListenClean
    BY DEF ListenClean
  <2>1. child.pc = "none"
    BY <1>0 DEF ChildOK, InSession
  <2>2. fds = Idle
    BY <1>0 DEF TableOK
  <2>3. QED
    BY <2>1, <2>2 DEF ListenClean, Idle
<1>4. QED
  BY <1>1, <1>2, <1>3 DEF DescriptorsKept

(* The input of the shell, from the invariant. *)
LEMMA IInvInput ==
  ASSUME IInv PROVE OwnInput
<1>0. TableOK /\ LoginOK /\ PtyOK
  BY DEF IInv
<1>1. pc = "login" => \A k \in 1 .. Len(gbuf \o obuf) : (gbuf \o obuf)[k][1] = Caller
  <2> SUFFICES ASSUME pc = "login"
               PROVE  \A k \in 1 .. Len(gbuf \o obuf) : (gbuf \o obuf)[k][1] = Caller
    OBVIOUS
  <2>1. gbuf \in Seq(Of(Caller)) /\ obuf \in Seq(Of(Caller))
    BY <1>0 DEF LoginOK
  <2>2. gbuf \o obuf \in Seq(Of(Caller))
    BY <2>1, ConcatProperties
  <2>3. \A k \in 1 .. Len(gbuf \o obuf) : (gbuf \o obuf)[k] \in Of(Caller)
    BY <2>2, ElementOfSeq
  <2>4. QED
    BY <2>3 DEF Of
<1>2. pc \in {"fork", "relay", "kill"} => \A k \in 1 .. Len(ptyin) : ptyin[k][1] = Caller
  <2>1. CASE pc = "fork"
    BY <1>0, <2>1, NoBytes DEF PtyOK
  <2>2. CASE pc \in {"relay", "kill"}
    <3>1. ptyin \in Seq(Keyed(Caller))
      BY <1>0, <2>2 DEF PtyOK, InSession
    <3>2. \A k \in 1 .. Len(ptyin) : ptyin[k] \in Keyed(Caller)
      BY <3>1, ElementOfSeq
    <3>3. QED
      BY <3>2 DEF Keyed
  <2>3. QED
    BY <2>1, <2>2
<1>3. \A k \in 1 .. Len(ptyin) : ptyin[k][2] \notin Controls
  <2>1. ptyin \in Seq(Callers \X (Chars \ Controls))
    BY <1>0 DEF PtyOK
  <2>2. \A k \in 1 .. Len(ptyin) : ptyin[k] \in Callers \X (Chars \ Controls)
    BY <2>1, ElementOfSeq
  <2>3. QED
    BY <2>2
<1>4. QED
  BY <1>1, <1>2, <1>3 DEF OwnInput

(* DescriptorsKept, for any callers and bounds: through any number of       *)
(* sessions, however each of them ends, the descriptor numbers that main()  *)
(* and pre_login() remember mean what they take them for, and nothing is    *)
(* left behind when s_getty listens again (s_getty.c:585-1358).             *)
THEOREM DescriptorsAreKept ==
  ASSUME LastFd >= 6 PROVE Spec => []DescriptorsKept
<1>1. Init => IInv
  BY InitIInv
<1>2. IInv /\ [Next]_vars => IInv'
  BY NextIInv
<1>3. IInv => DescriptorsKept
  BY IInvDescriptors
<1>4. QED
  BY <1>1, <1>2, <1>3, PTL DEF Spec

(* OwnInput, for any callers, characters and buffer sizes: no byte of one   *)
(* caller is taken for another's name or reaches another's shell, and no    *)
(* control character reaches a terminal (s_getty.c:585-593 and 909-935).    *)
THEOREM InputIsOwn ==
  ASSUME LastFd >= 6 PROVE Spec => []OwnInput
<1>1. Init => IInv
  BY InitIInv
<1>2. IInv /\ [Next]_vars => IInv'
  BY NextIInv
<1>3. IInv => OwnInput
  BY IInvInput
<1>4. QED
  BY <1>1, <1>2, <1>3, PTL DEF Spec
================================================================================
