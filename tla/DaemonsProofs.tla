----------------------------- MODULE DaemonsProofs -----------------------------
(***************************************************************************)
(* daemon and s_daemon, for any scenarios and any number of rows: the      *)
(* table offspring[], the bytes on their way to the shell and the shell's  *)
(* output on its way to the caller, in both builds.                        *)
(***************************************************************************)
EXTENDS Daemons, SequenceTheorems, FiniteSetTheorems, WellFoundedInduction, TLAPS

Early  == {"none", "start", "copied", "handled", "recv", "pipes", "spawn"}
Places == Early \cup Ended \cup {"close", "select", "write", "send", "finish"}

TaskSet == [pc : Places, msock : {0} \cup Conns, num : Nat, told : BOOLEAN,
            sibs : SUBSET ({ParentPid} \cup Conns)]
RowSet  == [opid : {0, ParentPid} \cup Conns, thread : Nat, msock : {-1} \cup Conns]

MainOK ==
  /\ scene \in Scenarios
  /\ pc \in {"listen", "start", "record", "socket", "exited"}
  /\ cur \in 0 .. scene.callers /\ slot \in Rows
  /\ pc \in {"start", "record", "socket"} => cur >= 1
  /\ pc = "socket" => Unix
  /\ offspring \in [Rows -> RowSet]
  /\ threadnum \in Nat \ {0}
  /\ arglist \in [msock : {0} \cup Conns, num : Nat]
  /\ term \in [at : {"no", "tell", "wait"}, i : Nat]

(* An offspring has no arguments before it has copied them; the one main()  *)
(* is about to start does not exist.                                        *)
TasksOK ==
  /\ task \in [Conns -> TaskSet]
  /\ \A t \in Conns :
       /\ t > cur => task[t].pc = "none"
       /\ pc = "start" /\ t = cur => task[t].pc = "none"
       /\ task[t].pc \in {"none", "start"} => task[t].msock = 0
       /\ Live(t) /\ task[t].pc # "start" => task[t].msock \in Conns
       /\ Unix => task[t].msock \in {0, t}
       /\ task[t].pc \in {"handled", "send"} => Unix
       /\ NT /\ task[t].pc # "none" => arglist.msock \in Conns

(* Descriptors go from main() to those it starts, and from these to their   *)
(* shells; nobody has one of a connection that is not there yet.            *)
HoldersOK ==
  /\ holders = [c \in Conns |-> holders[c]]
  /\ \A c \in Conns : holders[c] \subseteq Heirs(c) /\ (c > cur => holders[c] = {})

(* The pieces 1 .. n that a shell has printed: what the caller has, r, what *)
(* the session holds, h, and what is in the pipe, f; c: a send() was cut.   *)
Ordered(r) == \A k \in 2 .. Len(r) : r[k - 1] < r[k]
Follow(s, n) == \A k \in 1 .. Len(s) : s[k] = n + k
Pieces(r, h, f, n, c) ==
  \E p \in Nat :
    /\ p + Len(h) + Len(f) = n
    /\ Follow(h, p) /\ Follow(f, p + Len(h))
    /\ Ordered(r) /\ \A k \in 1 .. Len(r) : r[k] <= p
    /\ ~c => Len(r) = p /\ Follow(r, 0)

(* A shell that runs has its end of the pipe from which its output is read; *)
(* its session holds nothing while it looks for more of it, nor at the end. *)
OutputOf(t) ==
  /\ Pieces(relayed[t], held[t], fromsh[t], produced[t], cut[t])
  /\ shell[t] \in {"none", "runs", "exited"}
  /\ cut[t] => Unix /\ (shell[t] = "exited" \/ hungup[t])
  /\ task[t].pc \in Early => shell[t] = "none"
  /\ task[t].pc \in {"close", "select", "write", "send"} => shell[t] # "none"
  /\ shell[t] = "none" => /\ produced[t] = 0 /\ helper[t] = "none"
                          /\ cause[t] # "eof"
  /\ task[t].pc = "spawn" => Proc(t) \in ends[t]["printers"]
  /\ shell[t] = "runs" => ShellOf(t) \in ends[t]["printers"]
  /\ shcld[t] => shell[t] = "exited"
  /\ helper[t] # "none" => NT
  /\ Unix /\ task[t].pc \in {"close", "select", "write"} => held[t] = <<>>
  /\ helper[t] = "read" => held[t] = <<>>
  /\ cause[t] = "eof" =>
       /\ shell[t] = "exited" /\ held[t] = <<>> /\ fromsh[t] = <<>>
       /\ helper[t] \notin {"read", "send"}
       /\ Unix => task[t].pc \in {"finish"} \cup Ended
Words == {"none", "runs", "exited", "read", "send", "gone", "eof", "no shell", "select",
          "socket", "pipe", "signal", "told"}
Family == {Proc(t) : t \in Conns} \cup {ShellOf(t) : t \in Conns}
Counted ==
  /\ produced \in [Conns -> Nat]
  /\ {fromsh, held, relayed} \subseteq [Conns -> Seq(Nat)]
  /\ {cut, shcld, hungup} \subseteq [Conns -> BOOLEAN]
  /\ ends \in [Conns -> [Ends -> SUBSET Family]]
  /\ {shell, helper, cause} \subseteq [Conns -> Words]
OutputOK == Counted /\ \A t \in Conns : OutputOf(t)

(* The bytes of s, which follow the first n that the caller typed.          *)
InPlace(s, typed, n) ==
  \A k \in 1 .. Len(s) :
    \/ s[k] = typed[n + k]
    \/ s[k] = "lf" /\ typed[n + k] = "cr"
    \/ s[k] = "nul" /\ n + k > 1 /\ typed[n + k - 1] \in {"cr", "lf"}

Alone(t) == task[t].msock = t /\ \A u \in Conns \ {t} : task[u].msock # t

BytesOf(t) ==
  /\ taken[t] <= Len(sent[t])
  /\ task[t].pc \in Early => written[t] = <<>>
  /\ (\A u \in Conns : task[u].msock # t) => taken[t] = 0
  /\ Alone(t) =>
       /\ Len(written[t]) <= taken[t] /\ InPlace(written[t], sent[t], 0)
       /\ task[t].pc \in {"copied", "handled", "pipes", "spawn", "close", "select", "send"} =>
            Len(written[t]) = taken[t]
       /\ task[t].pc = "write" =>
            /\ Len(written[t]) + Len(buf[t]) = taken[t]
            /\ InPlace(buf[t], sent[t], Len(written[t]))
Piped == Bytes \cup {"nul"}
Typed ==
  /\ sent \in [Conns -> Seq(Bytes)] /\ taken \in [Conns -> Nat]
  /\ written \in [Conns -> Seq(Piped)] /\ buf \in [Conns -> Seq(Piped)]
BytesOK == Typed /\ \A t \in Conns : BytesOf(t)

(* Unix: who lives or has not been waited for is in one row, unless he has  *)
(* just been started.                                                       *)
UnixTable ==
  /\ \A i \in Rows : offspring[i].opid # ParentPid
  /\ pc \in {"start", "record"} => ~Used(slot)
  /\ pc = "record" => task[cur].pc # "reaped"
  /\ pc = "socket" => offspring[slot].opid \in {0, cur}
  /\ \A i \in Rows : Used(i) =>
       /\ offspring[i].opid <= cur
       /\ pc \in {"start", "record"} => offspring[i].opid # cur
       /\ offspring[i].msock = offspring[i].opid \/ (pc = "socket" /\ i = slot)
       /\ task[offspring[i].opid].pc # "reaped"
  /\ \A i, j \in Rows : Used(i) /\ offspring[i].opid = offspring[j].opid => i = j
  /\ \A t \in Conns : Live(t) \/ task[t].pc = "zombie" =>
       \/ \E i \in Rows : offspring[i].opid = t
       \/ pc = "record" /\ t = cur
UnixTableOK == Unix /\ pc # "exited" /\ term.at = "no" => UnixTable

(* NT: a connection and the number of its thread, as they stand together in *)
(* the arguments, in the thread that copied them, in its row.               *)
Issued ==
  {<<task[u].msock, task[u].num>> : u \in {v \in Conns : task[v].msock # 0}}
    \cup {<<arglist.msock, arglist.num>> : x \in {y \in {1} : arglist.msock # 0}}
    \cup {<<offspring[i].msock, offspring[i].thread>> : i \in {j \in Rows : Used(j)}}

NTTable ==
  /\ \A p \in Issued : /\ p[1] \in Conns /\ p[1] <= cur
                       /\ p[2] \in 1 .. threadnum
                       /\ pc = "start" => p[1] # cur
                       /\ pc \in {"listen", "start"} => p[2] # threadnum
  /\ \A p, q \in Issued : p[1] = q[1] <=> p[2] = q[2]
  /\ pc = "record" => /\ arglist = [msock |-> cur, num |-> threadnum]
                      /\ offspring[slot].msock = cur
  /\ pc \in {"start", "record"} => ~Used(slot)
  /\ \A i \in Rows : /\ Used(i) => offspring[i].thread < threadnum
                     /\ ~Used(i) => offspring[i].thread = 0
  /\ \A i, j \in Rows : Used(i) /\ offspring[i].thread = offspring[j].thread => i = j
  /\ pc # "exited" =>
       \A t \in Conns :
         task[t].pc # "none" /\ (\A u \in Conns : task[u].msock = t => task[u].pc # "gone")
         => \/ \E i \in Rows : Used(i) /\ offspring[i].msock = t
            \/ pc = "record" /\ t = cur
NTTableOK == NT => NTTable

(* Until it is told to end: a used row for everyone started, but for who    *)
(* has ended and given his row back.                                        *)
UsedRows == {i \in Rows : Used(i)}
Members == {t \in Conns : Live(t) \/ task[t].pc \in {"zombie", "unlisted"}}
Counts ==
  pc # "exited" /\ term.at = "no" =>
    Cardinality(UsedRows) + (IF pc = "record" THEN 1 ELSE 0) = Cardinality(Members)

IInv ==
  /\ MainOK /\ TasksOK /\ HoldersOK /\ OutputOK /\ BytesOK
  /\ UnixTableOK /\ NTTableOK /\ Counts

-----------------------------------------------------------------------------
(* The constants, and the numbers of the connections. *)
LEMMA Sizes ==
  /\ MAX_CHILDREN \in Nat \ {0}
  /\ \A s \in Scenarios : s.callers \in Nat /\ \A t \in 1 .. s.callers : t \in Conns
  /\ \A t \in Conns : t \in Nat /\ t >= 1
<1> DEFINE most == CHOOSE s \in Scenarios : \A r \in Scenarios : r.callers <= s.callers
<1>1. most \in Scenarios /\ \A r \in Scenarios : r.callers <= most.callers
  BY OffspringAssumption
<1>2. Conns = 1 .. most.callers
  BY DEF Conns
<1> HIDE DEF most
<1>3. most.callers \in Nat /\ \A s \in Scenarios : s.callers \in Nat
  BY <1>1, OffspringAssumption
<1>4. QED
  BY <1>1, <1>2, <1>3, OffspringAssumption

(* The program is built for one of the two systems. *)
LEMMA Builds ==
  ASSUME MainOK PROVE Unix <=> ~NT
BY OffspringAssumption DEF MainOK, Unix, NT

USE DEF mainVars, offspringVars, callVars, shellVars, pipeVars

(* The connection at hand is one of the callers. *)
LEMMA CurIsConn ==
  ASSUME MainOK
  PROVE  /\ cur \in Nat /\ scene.callers \in Nat /\ cur <= scene.callers
         /\ pc \in {"start", "record", "socket"} => cur \in Conns
         /\ cur < scene.callers => cur + 1 \in Conns
<1>1. /\ scene \in Scenarios /\ cur \in 0 .. scene.callers
      /\ pc \in {"start", "record", "socket"} => cur >= 1
  BY DEF MainOK
<1>2. scene.callers \in Nat /\ \A t \in 1 .. scene.callers : t \in Conns
  BY <1>1, Sizes
<1>3. QED
  BY <1>1, <1>2

(* A search of the rows, or of a line, for the first that will do. *)
LEMMA FirstExists ==
  ASSUME NEW S, S \subseteq Nat, S # {}
  PROVE  \E i \in S : \A j \in S : i <= j
<1>1. PICK x \in S : \A y \in S : <<y, x>> \notin OpToRel(<, Nat)
  BY WFMin, NatLessThanWellFounded
<1>2. \A y \in S : ~(y < x)
  BY <1>1 DEF OpToRel
<1>3. QED
  BY <1>2

(* The search for a free row finds one if there is one. *)
LEMMA FirstFreeIs ==
  ASSUME \E i \in Rows : ~Used(i) PROVE FirstFree \in Rows /\ ~Used(FirstFree)
<1> DEFINE S == {i \in Rows : ~Used(i)}
<1>1. S \subseteq Nat /\ S # {}
  BY Sizes DEF Rows
<1>2. PICK i \in S : \A j \in S : i <= j
  BY <1>1, FirstExists
<1>3. i \in Rows /\ ~Used(i) /\ \A j \in Rows : ~Used(j) => i <= j
  BY <1>2
<1>4. QED
  BY <1>3 DEF FirstFree

(* A thread finds a row with its own number if there is one. *)
LEMMA OwnRowIs ==
  ASSUME NEW t, \E i \in Rows : offspring[i].thread = task[t].num
  PROVE  OwnRow(t) \in Rows /\ offspring[OwnRow(t)].thread = task[t].num
<1> DEFINE S == {i \in Rows : offspring[i].thread = task[t].num}
<1>1. S \subseteq Nat /\ S # {}
  BY Sizes DEF Rows
<1>2. PICK i \in S : \A j \in S : i <= j
  BY <1>1, FirstExists
<1>3. /\ i \in Rows /\ offspring[i].thread = task[t].num
      /\ \A j \in Rows : offspring[j].thread = task[t].num => i <= j
  BY <1>2
<1>4. QED
  BY <1>3 DEF OwnRow

-----------------------------------------------------------------------------
(* What the steps do to the offspring.                                      *)

Same(u) == /\ task'[u].pc = task[u].pc /\ task'[u].msock = task[u].msock
           /\ task'[u].num = task[u].num
At(u, x) == /\ task'[u].pc = x /\ task'[u].msock = task[u].msock
            /\ task'[u].num = task[u].num
Leaves(u) == \E x \in {"zombie", "gone", "unlisted"} : At(u, x)

(* A step of one task that changes nothing but its place. *)
LEMMA PcSet ==
  ASSUME task \in [Conns -> TaskSet], NEW t \in Conns, NEW x \in Places,
         task' = [task EXCEPT ![t].pc = x]
  PROVE  /\ task' \in [Conns -> TaskSet] /\ At(t, x)
         /\ \A u \in Conns \ {t} : Same(u)
<1>1. \A u \in Conns : task[u] \in TaskSet
  OBVIOUS
<1>2. [task[t] EXCEPT !.pc = x] \in TaskSet
  BY <1>1 DEF TaskSet
<1>3. task' \in [Conns -> TaskSet]
  BY <1>2
<1>4. task'[t] = [task[t] EXCEPT !.pc = x] /\ \A u \in Conns \ {t} : task'[u] = task[u]
  OBVIOUS
<1>5. At(t, x)
  BY <1>1, <1>4 DEF TaskSet, At
<1>6. QED
  BY <1>3, <1>4, <1>5 DEF Same

(* A step of main() starts one, reaps one, or takes all threads with it.    *)
LEMMA MainTask ==
  ASSUME MainOK, task \in [Conns -> TaskSet], MainNext
  PROVE  /\ task' \in [Conns -> TaskSet]
         /\ \A u \in Conns :
              \/ Same(u)
              \/ u = cur /\ pc = "start" /\ pc' = "record" /\ cur' = cur /\ At(u, "start")
              \/ task[u].pc = "zombie" /\ (At(u, "reaped") \/ At(u, "unlisted"))
              \/ NT /\ pc' = "exited" /\ Live(u) /\ At(u, "gone")
<1>1. CASE task' = task
  BY <1>1 DEF Same
<1>2. CASE task' = NewTask /\ pc = "start" /\ pc' = "record" /\ cur' = cur
  <2> DEFINE S == {offspring[i].opid : i \in Rows} \ {0}
  <2>1. cur \in Conns
    BY <1>2, CurIsConn
  <2>2. S \subseteq {ParentPid} \cup Conns
    BY DEF MainOK, RowSet
  <2>3. task' = [task EXCEPT ![cur] = [task[cur] EXCEPT !.pc = "start", !.sibs = S]]
    BY <1>2 DEF NewTask
  <2> HIDE DEF S
  <2>4. task[cur] \in TaskSet
    BY <2>1
  <2>5. [task[cur] EXCEPT !.pc = "start", !.sibs = S] \in TaskSet
    BY <2>2, <2>4 DEF TaskSet, Places, Early
  <2>6. task' \in [Conns -> TaskSet]
    BY <2>3, <2>5
  <2>7. At(cur, "start") /\ \A u \in Conns \ {cur} : Same(u)
    BY <2>1, <2>3, <2>4 DEF At, Same, TaskSet
  <2>8. QED
    BY <1>2, <2>6, <2>7
<1>3. CASE ProcessExits
  <2>1. \A u \in Conns : task[u] \in TaskSet
    OBVIOUS
  <2>2. \A u \in Conns : [task[u] EXCEPT !.pc = "gone"] \in TaskSet
    BY <2>1 DEF TaskSet, Places, Ended
  <2>3. task' \in [Conns -> TaskSet]
    BY <1>3, <2>1, <2>2 DEF ProcessExits
  <2>4. \A u \in Conns : Same(u) \/ (NT /\ Live(u) /\ At(u, "gone"))
    BY <1>3, <2>1 DEF ProcessExits, Same, At, TaskSet
  <2>5. QED
    BY <1>3, <2>3, <2>4 DEF ProcessExits
<1>4. ASSUME NEW z \in Conns, task[z].pc = "zombie", NEW x \in {"reaped", "unlisted"},
             task' = [task EXCEPT ![z].pc = x]
      PROVE  /\ task' \in [Conns -> TaskSet]
             /\ \A u \in Conns :
                  Same(u) \/ (task[u].pc = "zombie" /\ (At(u, "reaped") \/ At(u, "unlisted")))
  <2>1. x \in Places
    BY DEF Places, Ended
  <2>2. QED
    BY <1>4, <2>1, PcSet
<1>5. CASE TellChild
  <2> DEFINE o == offspring[term.i].opid
  <2>1. task' = [task EXCEPT ![o].told = TRUE]
    BY <1>5 DEF TellChild
  <2> HIDE DEF o
  <2>2. \A u \in Conns : task[u] \in TaskSet
    OBVIOUS
  <2>3. \A u \in Conns : [task[u] EXCEPT !.told = TRUE] \in TaskSet
    BY <2>2 DEF TaskSet
  <2>4. task' \in [Conns -> TaskSet]
    BY <2>1, <2>3
  <2>5. \A u \in Conns : Same(u)
    BY <2>1, <2>2 DEF Same, TaskSet
  <2>6. QED
    BY <2>4, <2>5
<1>6. CASE Accept \/ RecordThread \/ RecordPid \/ RecordSocket \/ Terminate \/ CloseChild
           \/ SkipRow
  BY <1>1, <1>6 DEF Accept, RecordThread, RecordPid, RecordSocket, Terminate, CloseChild,
     SkipRow
<1>7. CASE BeginThread \/ Fork
  BY <1>2, <1>7 DEF BeginThread, Begin, Fork
<1>8. CASE StartFails \/ ExitTold
  BY <1>3, <1>8 DEF StartFails, ExitTold
<1>9. ASSUME NEW z \in Conns, Reap(z)
      PROVE  /\ task' \in [Conns -> TaskSet]
             /\ \A u \in Conns :
                  Same(u) \/ (task[u].pc = "zombie" /\ (At(u, "reaped") \/ At(u, "unlisted")))
  <2>1. task[z].pc = "zombie" /\ \E x \in {"reaped", "unlisted"} : task' = [task EXCEPT ![z].pc = x]
    BY <1>9 DEF Reap
  <2>2. QED
    BY <1>4, <2>1
<1>10. CASE ToldChildGone
  <2>1. \/ \E z \in Conns : task[z].pc = "zombie" /\ task' = [task EXCEPT ![z].pc = "reaped"]
        \/ task' = task
    BY <1>10 DEF ToldChildGone
  <2>2. QED
    BY <1>1, <1>4, <2>1
<1>11. QED
  BY <1>5, <1>6, <1>7, <1>8, <1>9, <1>10 DEF MainNext

(* The steps of one offspring, its shell included. *)
StepOf(t) ==
  Dialog(t) \/ SelectEnds(t) \/ ShellReads(t) \/ ShellPrints(t) \/ ShellExits(t) \/ ShellSeesEnd(t)

(* From where it is to where it may go on. *)
Path == {<<"copied", "handled">>, <<"copied", "recv">>, <<"copied", "pipes">>,
         <<"handled", "recv">>, <<"handled", "pipes">>, <<"pipes", "spawn">>,
         <<"pipes", "finish">>, <<"spawn", "close">>, <<"spawn", "finish">>,
         <<"close", "select">>, <<"select", "finish">>, <<"select", "write">>,
         <<"select", "send">>, <<"write", "select">>, <<"write", "finish">>,
         <<"send", "select">>}

Copies(t) == /\ task[t].pc = "start" /\ task'[t].pc = "copied"
             /\ task'[t].msock = IF Unix THEN t ELSE arglist.msock
             /\ task'[t].num = IF Unix THEN threadnum ELSE arglist.num

(* A process dies, and may pass a signal on. *)
LEMMA DieTask ==
  ASSUME task \in [Conns -> TaskSet], NEW t \in Conns, NEW told, Die(t, told)
  PROVE  /\ task' \in [Conns -> TaskSet]
         /\ At(t, "zombie") \/ At(t, "gone")
         /\ \A u \in Conns \ {t} : Same(u)
<1> DEFINE x == IF pc = "exited" \/ term.at # "no" THEN "gone" ELSE "zombie"
<1>1. \A u \in Conns : task[u] \in TaskSet
  OBVIOUS
<1>2. x \in Places
  BY DEF Places, Ended
<1>3. task' = [u \in Conns |-> IF u = t THEN [task[u] EXCEPT !.pc = x]
                               ELSE [task[u] EXCEPT !.told = task[u].told \/ u \in told]]
  BY Zenon DEF Die
<1> HIDE DEF x
<1>4. \A u \in Conns : [task[u] EXCEPT !.pc = x] \in TaskSet
  BY <1>1, <1>2 DEF TaskSet
<1>5. \A u \in Conns : [task[u] EXCEPT !.told = task[u].told \/ u \in told] \in TaskSet
  <2>1. ASSUME NEW u \in Conns, NEW b \in BOOLEAN PROVE [task[u] EXCEPT !.told = b] \in TaskSet
    BY <1>1 DEF TaskSet
  <2>2. \A u \in Conns : (task[u].told \/ u \in told) \in BOOLEAN
    BY Zenon
  <2>3. QED
    BY <2>1, <2>2, Zenon
<1>6. task' \in [Conns -> TaskSet]
  BY <1>3, <1>4, <1>5
<1>7. At(t, x)
  BY <1>1, <1>3 DEF At, TaskSet
<1>8. \A u \in Conns \ {t} : Same(u)
  BY <1>1, <1>3 DEF Same, TaskSet
<1>9. QED
  BY <1>6, <1>7, <1>8 DEF x

(* Somebody waits for it. *)
LEMMA DieZombie ==
  ASSUME task \in [Conns -> TaskSet], NEW t \in Conns, NEW told, Die(t, told),
         pc # "exited", term.at = "no"
  PROVE  task'[t].pc = "zombie"
<1>1. task[t] \in TaskSet
  OBVIOUS
<1>2. task'[t] = [task[t] EXCEPT !.pc = "zombie"]
  BY DEF Die
<1>3. QED
  BY <1>1, <1>2 DEF TaskSet

(* A task ends. *)
LEMMA FinishTask ==
  ASSUME task \in [Conns -> TaskSet], NEW t \in Conns, Finish(t)
  PROVE  /\ task' \in [Conns -> TaskSet]
         /\ Leaves(t)
         /\ \A u \in Conns \ {t} : Same(u)
<1>1. CASE Unix
  <2>1. Die(t, {})
    BY <1>1 DEF Finish
  <2>2. QED
    BY <2>1, DieTask DEF Leaves
<1>2. CASE ~Unix
  <2>1. PICK x \in {"gone", "unlisted"} : task' = [task EXCEPT ![t].pc = x]
    BY <1>2 DEF Finish
  <2>2. x \in Places
    BY DEF Places, Ended
  <2>3. QED
    BY <2>1, <2>2, PcSet DEF Leaves
<1>3. QED
  BY <1>1, <1>2

(* A step of a task in its dialog goes on along its path. *)
LEMMA DialogTask ==
  ASSUME MainOK, TasksOK, NEW t \in Conns, StepOf(t)
  PROVE  /\ task' \in [Conns -> TaskSet]
         /\ \A u \in Conns \ {t} : Same(u)
         /\ \/ Same(t)
            \/ Copies(t)
            \/ \E x \in Places : /\ At(t, x) /\ <<task[t].pc, x>> \in Path
                                 /\ x \in {"handled", "send"} => Unix
            \/ /\ Live(t) /\ Leaves(t)
               /\ \/ Finish(t) /\ task[t].pc # "start"
                  \/ Unix /\ \E told : Die(t, told)
<1>0. task \in [Conns -> TaskSet]
  BY DEF TasksOK
<1> DEFINE Goal == /\ task' \in [Conns -> TaskSet]
                   /\ \A u \in Conns \ {t} : Same(u)
                   /\ \/ Same(t)
                      \/ Copies(t)
                      \/ \E x \in Places : /\ At(t, x) /\ <<task[t].pc, x>> \in Path
                                           /\ x \in {"handled", "send"} => Unix
                      \/ /\ Live(t) /\ Leaves(t)
                         /\ \/ Finish(t) /\ task[t].pc # "start"
                            \/ Unix /\ \E told : Die(t, told)
<1>1. CASE task' = task
  BY <1>0, <1>1 DEF Same
<1>2. ASSUME NEW x \in Places, task' = [task EXCEPT ![t].pc = x], <<task[t].pc, x>> \in Path,
             x \in {"handled", "send"} => Unix
      PROVE  Goal
  <2>1. /\ task' \in [Conns -> TaskSet] /\ At(t, x)
        /\ \A u \in Conns \ {t} : Same(u)
    BY <1>0, <1>2, PcSet
  <2>2. QED
    BY <1>2, <2>1
<1>3. CASE Live(t) /\ Finish(t) /\ task[t].pc # "start"
  BY <1>0, <1>3, FinishTask
<1>4. CASE CopyArguments(t)
  <2> DEFINE m == IF Unix THEN t ELSE arglist.msock
             n == IF Unix THEN threadnum ELSE arglist.num
  <2>1. m \in {0} \cup Conns /\ n \in Nat
    BY DEF MainOK
  <2>2. task' = [task EXCEPT ![t] = [task[t] EXCEPT !.pc = "copied", !.msock = m, !.num = n]]
        /\ task[t].pc = "start"
    BY <1>4 DEF CopyArguments
  <2> HIDE DEF m, n
  <2>3. task[t] \in TaskSet
    BY <1>0
  <2>4. [task[t] EXCEPT !.pc = "copied", !.msock = m, !.num = n] \in TaskSet
    BY <2>1, <2>3 DEF TaskSet, Places, Early
  <2>5. task' \in [Conns -> TaskSet]
    BY <1>0, <2>2, <2>4
  <2>6. \A u \in Conns \ {t} : Same(u)
    BY <1>0, <2>2 DEF Same
  <2>7. task'[t].pc = "copied" /\ task'[t].msock = m /\ task'[t].num = n
    BY <1>0, <2>2, <2>3 DEF TaskSet
  <2>8. Copies(t)
    BY <2>2, <2>7 DEF Copies, m, n
  <2>9. QED
    BY <2>5, <2>6, <2>8
<1>p. {"handled", "recv", "pipes", "spawn", "close", "select", "finish", "write", "send"}
        \subseteq Places
  BY DEF Places, Early
<1>5. CASE SetHandlers(t)
  BY <1>2, <1>5, <1>p DEF SetHandlers, Path
<1>6. CASE BeReady(t)
  <2>1. PICK x \in {"recv", "pipes"} : task' = [task EXCEPT ![t].pc = x]
    BY <1>6 DEF BeReady
  <2>2. task[t].pc \in {"handled", "copied"}
    BY <1>6 DEF BeReady
  <2>3. QED
    BY <1>2, <1>p, <2>1, <2>2 DEF Path
<1>7. CASE Receive(t) \/ HelperReads(t) \/ HelperReadsEnd(t) \/ HelperSends(t)
           \/ HelperSendFails(t) \/ ShellReads(t) \/ ShellPrints(t) \/ ShellExits(t)
           \/ ShellSeesEnd(t)
  BY <1>1, <1>7 DEF Receive, HelperReads, HelperReadsEnd, HelperSends, HelperSendFails,
     HelperGoes, ShellReads, ShellPrints, ShellExits, ShellSeesEnd, ShellGoes
<1>8. CASE EndOfLines(t) \/ SendFails(t) \/ FinishSession(t)
  <2>1. Finish(t) /\ task[t].pc \in {"recv", "send", "finish"}
    BY <1>8 DEF EndOfLines, SendFails, FinishSession, SessionDies
  <2>2. Live(t)
    BY <2>1 DEF Live, Ended
  <2>3. QED
    BY <1>3, <2>1, <2>2
<1>9. CASE MakePipes(t) \/ StartShell(t) \/ NoShell(t) \/ NoHelper(t) \/ ClosePipes(t)
           \/ Recv(t) \/ RecvEnd(t) \/ WriteShell(t) \/ ReadShellEnd(t) \/ SendCaller(t)
           \/ SendShort(t) \/ SelectEnds(t)
  <2>1. \E x \in {"spawn", "close", "select", "finish", "write"} :
           task' = [task EXCEPT ![t].pc = x] /\ <<task[t].pc, x>> \in Path
    BY <1>9 DEF MakePipes, NoHelper, ClosePipes, SendShort, Spawn, StartShell, NoShell, Recv, RecvEnd, WriteShell, ReadShellEnd, SendCaller,
       SelectEnds, Quits, Goto, Path
  <2>2. QED
    BY <1>2, <1>p, <2>1
<1>10. CASE ReadShell(t)
  BY <1>2, <1>10, <1>p DEF ReadShell, Goto, Path
<1>11. CASE WriteFails(t)
  <2>1. task[t].pc = "write"
        /\ (Finish(t) \/ task' = [task EXCEPT ![t].pc = "finish"])
    BY <1>11 DEF WriteFails, SessionDies, Quits, Goto
  <2>2. Live(t)
    BY <2>1 DEF Live, Ended
  <2>3. QED
    BY <1>2, <1>3, <1>p, <2>1, <2>2 DEF Path
<1>12. CASE ShellDied(t)
  <2>1. task' = task \/ (task[t].pc = "select" /\ task' = [task EXCEPT ![t].pc = "finish"])
    BY <1>12 DEF ShellDied, Quits, Goto
  <2>2. QED
    BY <1>1, <1>2, <1>p, <2>1 DEF Path
<1>13. CASE SessionTold(t)
  <2>1. Unix /\ Live(t) /\ \E told : Die(t, told)
    BY <1>13 DEF SessionTold, Told
  <2>2. QED
    BY <1>0, <2>1, DieTask DEF Leaves
<1>14. QED
  BY <1>4, <1>5, <1>6, <1>7, <1>8, <1>9, <1>10, <1>11, <1>12, <1>13
  DEF StepOf, Dialog, LineNext, SessionNext

(* main() and its variables, in such a step: a thread that ends frees its   *)
(* row.                                                                     *)
LEMMA DialogMain ==
  ASSUME MainOK, TasksOK, NEW t \in Conns, StepOf(t)
  PROVE  /\ UNCHANGED <<scene, pc, cur, slot, threadnum, arglist, term>>
         /\ \/ offspring' = offspring
            \/ NT /\ Finish(t) /\ Live(t) /\ task[t].pc # "start"
<1>1. CASE Finish(t) /\ Live(t) /\ task[t].pc # "start"
  BY <1>1, Builds DEF Finish, Die
<1>2. CASE UNCHANGED <<scene, mainVars>>
  BY <1>2
<1>3. CASE EndOfLines(t) \/ SendFails(t) \/ FinishSession(t)
  <2>1. Finish(t) /\ task[t].pc \in {"recv", "send", "finish"}
    BY <1>3 DEF EndOfLines, SendFails, FinishSession, SessionDies
  <2>2. Live(t)
    BY <2>1 DEF Live, Ended
  <2>3. QED
    BY <1>1, <2>1, <2>2
<1>4. CASE WriteFails(t)
  <2>1. task[t].pc = "write" /\ (Finish(t) \/ UNCHANGED <<scene, mainVars>>)
    BY <1>4 DEF WriteFails, SessionDies, Quits, Goto
  <2>2. Live(t)
    BY <2>1 DEF Live, Ended
  <2>3. QED
    BY <1>1, <1>2, <2>1, <2>2
<1>5. CASE SessionTold(t)
  BY <1>2, <1>5 DEF SessionTold, Told, Die
<1>6. CASE CopyArguments(t) \/ SetHandlers(t) \/ BeReady(t) \/ Receive(t) \/ MakePipes(t)
           \/ StartShell(t) \/ NoHelper(t) \/ ClosePipes(t) \/ NoShell(t) \/ Recv(t)
           \/ RecvEnd(t) \/ WriteShell(t) \/ ReadShell(t) \/ ReadShellEnd(t)
           \/ SendCaller(t) \/ SendShort(t) \/ SelectEnds(t) \/ ShellDied(t)
  BY <1>2, <1>6 DEF CopyArguments, SetHandlers, BeReady, Receive, MakePipes, StartShell,
     NoHelper, Spawn, ClosePipes, SendShort, NoShell, Recv,
     RecvEnd, WriteShell, ReadShell, ReadShellEnd, SendCaller, SelectEnds, ShellDied, Quits, Goto
<1>7. CASE HelperReads(t) \/ HelperReadsEnd(t) \/ HelperSends(t) \/ HelperSendFails(t)
           \/ ShellReads(t) \/ ShellPrints(t) \/ ShellExits(t) \/ ShellSeesEnd(t)
  BY <1>2, <1>7 DEF HelperReads, HelperReadsEnd, HelperSends, HelperSendFails,
     HelperGoes, ShellReads, ShellPrints, ShellExits, ShellSeesEnd, ShellGoes
<1>8. QED
  BY <1>3, <1>4, <1>5, <1>6, <1>7 DEF StepOf, Dialog, LineNext, SessionNext

(* Every step is one of the main loop, of a caller or of a task. *)
LEMMA NextIs ==
  ASSUME [Next]_vars
  PROVE  \/ MainNext /\ UNCHANGED <<callVars, shellVars>>
         \/ CallNext /\ UNCHANGED <<offspringVars, shellVars>>
         \/ \E t \in Conns : StepOf(t)
         \/ UNCHANGED vars
BY DEF Next, StepOf, CallNext, HangUp, Send

(* The scenario is chosen once. *)
LEMMA SceneKept ==
  ASSUME MainOK, TasksOK, [Next]_vars PROVE scene' = scene
BY NextIs, DialogMain DEF vars, MainNext, Accept, BeginThread, Begin, Fork, StartFails,
   ProcessExits, RecordThread, RecordPid, RecordSocket, Reap, Terminate, TellChild,
   CloseChild, SkipRow, ToldChildGone, ExitTold

-----------------------------------------------------------------------------
(* Every step keeps the main loop in order. *)
LEMMA NextMain ==
  ASSUME MainOK, TasksOK, [Next]_vars PROVE MainOK'
<1>1. CASE UNCHANGED <<scene, pc, cur, slot, offspring, threadnum, arglist, term>>
  BY <1>1 DEF MainOK, Unix
<1>f. Free \in RowSet
  BY DEF Free, RowSet
<1>r. \A i \in Rows : offspring[i] \in RowSet
  BY DEF MainOK
<1>2. CASE MainNext
  <2>1. CASE Accept
    <3>1. cur + 1 \in 0 .. scene.callers /\ cur + 1 >= 1
      BY <2>1, CurIsConn DEF Accept
    <3>2. slot' \in Rows
      BY <2>1, FirstFreeIs DEF Accept, MainOK
    <3>3. pc' \in {"listen", "start"} /\ cur' = cur + 1
          /\ UNCHANGED <<scene, offspring, threadnum, arglist, term>>
      BY <2>1 DEF Accept
    <3>4. QED
      BY <3>1, <3>2, <3>3 DEF MainOK
  <2>2. CASE BeginThread \/ Fork
    <3>1. cur \in Conns /\ cur >= 1
      BY <2>2, CurIsConn, Sizes DEF BeginThread, Fork
    <3>2. pc' = "record" /\ UNCHANGED <<scene, cur, slot, threadnum, term>>
      BY <2>2 DEF BeginThread, Begin, Fork
    <3>3. \/ UNCHANGED <<offspring, arglist>>
          \/ /\ offspring' = [offspring EXCEPT ![slot] = [offspring[slot] EXCEPT !.msock = cur]]
             /\ arglist' = [msock |-> cur, num |-> threadnum]
      BY <2>2 DEF BeginThread, Begin, Fork
    <3>4. threadnum \in Nat /\ slot \in Rows
      BY DEF MainOK
    <3>5. [offspring[slot] EXCEPT !.msock = cur] \in RowSet
      BY <1>r, <3>1, <3>4 DEF RowSet
    <3>6. offspring' \in [Rows -> RowSet] /\ arglist' \in [msock : {0} \cup Conns, num : Nat]
      BY <3>1, <3>3, <3>4, <3>5 DEF MainOK
    <3>7. QED
      BY <3>1, <3>2, <3>6 DEF MainOK
  <2>3. CASE StartFails \/ ExitTold
    BY <2>3 DEF StartFails, ExitTold, ProcessExits, MainOK
  <2>4. CASE RecordThread \/ RecordPid \/ RecordSocket
    <3> DEFINE row == offspring'[slot]
    <3>1. cur \in Conns /\ cur >= 1 /\ slot \in Rows /\ threadnum \in Nat
      BY <2>4, CurIsConn, Sizes DEF RecordThread, RecordPid, RecordSocket, MainOK
    <3>2. \/ offspring' = [offspring EXCEPT ![slot] = [offspring[slot] EXCEPT !.opid = ParentPid,
                                                                     !.thread = threadnum]]
          \/ offspring' = [offspring EXCEPT ![slot] = [offspring[slot] EXCEPT !.opid = cur]]
          \/ offspring' = [offspring EXCEPT ![slot] = [offspring[slot] EXCEPT !.thread = threadnum,
                                                                     !.msock = cur]]
      BY <2>4 DEF RecordThread, RecordPid, RecordSocket
    <3>3. /\ [offspring[slot] EXCEPT !.opid = ParentPid, !.thread = threadnum] \in RowSet
          /\ [offspring[slot] EXCEPT !.opid = cur] \in RowSet
          /\ [offspring[slot] EXCEPT !.thread = threadnum, !.msock = cur] \in RowSet
      BY <1>r, <3>1 DEF RowSet
    <3>4. offspring' \in [Rows -> RowSet]
      BY <3>2, <3>3 DEF MainOK
    <3>5. /\ UNCHANGED <<scene, cur, slot, arglist, term>>
          /\ pc' = "listen" \/ (pc' = "socket" /\ Unix)
          /\ threadnum' \in {threadnum, threadnum + 1}
      BY <2>4 DEF RecordThread, RecordPid, RecordSocket
    <3>6. threadnum' \in Nat \ {0}
      BY <3>5 DEF MainOK
    <3>7. QED
      BY <3>1, <3>4, <3>5, <3>6 DEF MainOK, Unix
  <2>5. ASSUME NEW z \in Conns, Reap(z) PROVE MainOK'
    <3>1. offspring' = [i \in Rows |-> IF i \in {j \in Rows : offspring[j].opid = z} THEN Free
                                       ELSE offspring[i]]
          /\ UNCHANGED <<scene, pc, cur, slot, threadnum, arglist, term>>
      BY <2>5 DEF Reap, Cleared
    <3>2. offspring' \in [Rows -> RowSet]
      BY <1>f, <1>r, <3>1
    <3>3. QED
      BY <3>1, <3>2 DEF MainOK, Unix
  <2>6. CASE Terminate \/ TellChild \/ CloseChild \/ SkipRow \/ ToldChildGone
    <3>1. UNCHANGED <<scene, pc, cur, slot, offspring, threadnum, arglist>>
      BY <2>6 DEF Terminate, TellChild, CloseChild, SkipRow, ToldChildGone
    <3>2. \/ term' = [at |-> "tell", i |-> 1]
          \/ term' = [term EXCEPT !.at = "wait"]
          \/ term' = [at |-> "tell", i |-> term.i + 1]
      BY <2>6 DEF Terminate, TellChild, CloseChild, SkipRow, ToldChildGone, NextRow
    <3>3. term' \in [at : {"no", "tell", "wait"}, i : Nat]
      BY <3>2 DEF MainOK
    <3>4. QED
      BY <3>1, <3>3 DEF MainOK, Unix
  <2>7. QED
    BY <1>2, <2>1, <2>2, <2>3, <2>4, <2>5, <2>6 DEF MainNext
<1>3. CASE UNCHANGED <<offspringVars, shellVars>> \/ UNCHANGED vars
  BY <1>1, <1>3 DEF vars
<1>4. ASSUME NEW t \in Conns, StepOf(t) PROVE MainOK'
  <2>1. UNCHANGED <<scene, pc, cur, slot, threadnum, arglist, term>>
    BY <1>4, DialogMain
  <2>2. \/ offspring' = offspring
        \/ offspring' = [offspring EXCEPT ![OwnRow(t)] = Free]
    BY <1>4, DialogMain, Builds DEF Finish
  <2>3. offspring' \in [Rows -> RowSet]
    BY <1>f, <2>2 DEF MainOK
  <2>4. QED
    BY <2>1, <2>3 DEF MainOK, Unix
<1>5. QED
  BY <1>2, <1>3, <1>4, NextIs

(* Every step keeps the tasks in order. *)
LEMMA NextTasks ==
  ASSUME MainOK, TasksOK, [Next]_vars PROVE TasksOK'
<1>0. /\ task \in [Conns -> TaskSet]
      /\ cur \in Nat
      /\ pc = "start" => cur \in Conns
      /\ \A t \in Conns : t \in Nat
      /\ Unix <=> ~NT
  BY CurIsConn, Sizes, Builds DEF TasksOK
<1>s. scene' = scene
  BY SceneKept
<1>u. (Unix' <=> Unix) /\ (NT' <=> NT)
  BY <1>s DEF Unix, NT
<1>1. CASE UNCHANGED <<scene, pc, cur, arglist, task>>
  BY <1>1 DEF TasksOK, Unix, NT, Live
<1>2. CASE MainNext
  <2>1. /\ task' \in [Conns -> TaskSet]
        /\ \A u \in Conns :
              \/ Same(u)
              \/ u = cur /\ pc = "start" /\ pc' = "record" /\ cur' = cur /\ At(u, "start")
              \/ task[u].pc = "zombie" /\ (At(u, "reaped") \/ At(u, "unlisted"))
              \/ NT /\ pc' = "exited" /\ Live(u) /\ At(u, "gone")
    BY <1>0, <1>2, MainTask
  <2>2. \/ cur' = cur /\ arglist' = arglist /\ (pc' = "start" => pc = "start")
        \/ Accept
        \/ BeginThread
    BY <1>2 DEF MainNext, Accept, BeginThread, Fork, StartFails, ProcessExits, RecordThread,
       RecordPid, RecordSocket, Reap, Terminate, TellChild, CloseChild, SkipRow,
       ToldChildGone, ExitTold
  <2>3. \A t \in Conns : t > cur' => task'[t].pc = "none"
    <3>1. cur' \in Nat /\ cur' >= cur
      BY <1>0, <2>2 DEF Accept, BeginThread, Begin
    <3>2. \A t \in Conns : t > cur' => t > cur /\ t # cur
      BY <1>0, <3>1
    <3>3. \A t \in Conns : t > cur => task[t].pc = "none"
      BY DEF TasksOK
    <3>4. QED
      BY <2>1, <3>2, <3>3 DEF Same, Live, Ended
  <2>4. \A t \in Conns : pc' = "start" /\ t = cur' => task'[t].pc = "none"
    <3> SUFFICES ASSUME pc' = "start" PROVE \A t \in Conns : t = cur' => task'[t].pc = "none"
      OBVIOUS
    <3>1. \/ cur' = cur /\ pc = "start"
          \/ cur' = cur + 1
      BY <2>2 DEF Accept, BeginThread, Begin
    <3>2. \A t \in Conns : t = cur' => task[t].pc = "none"
      BY <1>0, <3>1 DEF TasksOK
    <3>3. QED
      BY <2>1, <3>2 DEF Same, Live, Ended
  <2>5. ASSUME NEW t \in Conns
        PROVE  /\ task'[t].pc \in {"none", "start"} => task'[t].msock = 0
               /\ Live(t)' /\ task'[t].pc # "start" => task'[t].msock \in Conns
               /\ Unix => task'[t].msock \in {0, t}
               /\ task'[t].pc \in {"handled", "send"} => Unix
    <3>1. /\ task[t].pc \in {"none", "start"} => task[t].msock = 0
          /\ Live(t) /\ task[t].pc # "start" => task[t].msock \in Conns
          /\ Unix => task[t].msock \in {0, t}
          /\ task[t].pc \in {"handled", "send"} => Unix
          /\ pc = "start" /\ t = cur => task[t].pc = "none"
      BY DEF TasksOK
    <3>2. \/ Same(t)
          \/ pc = "start" /\ t = cur /\ At(t, "start")
          \/ At(t, "reaped") \/ At(t, "unlisted") \/ At(t, "gone")
      BY <2>1
    <3>3. QED
      BY <3>1, <3>2 DEF Same, At, Live, Ended
  <2>6. ASSUME NEW t \in Conns, NT, task'[t].pc # "none" PROVE arglist'.msock \in Conns
    <3>1. CASE BeginThread
      BY <1>0, <3>1 DEF BeginThread, Begin
    <3>2. CASE ~BeginThread
      <4>1. arglist' = arglist
        BY <2>2, <3>2 DEF Accept
      <4>2. task[t].pc # "none"
        <5>1. ~Fork
          BY <1>0, <2>6 DEF Fork
        <5>2. ~(pc = "start" /\ pc' = "record")
          BY <1>2, <3>2, <5>1 DEF MainNext, Accept, StartFails, ProcessExits, RecordThread,
             RecordPid, RecordSocket, Reap, Terminate, TellChild, CloseChild, SkipRow,
             ToldChildGone, ExitTold
        <5>3. \/ Same(t)
              \/ task[t].pc = "zombie"
              \/ Live(t)
          BY <2>1, <5>2
        <5>4. QED
          BY <2>6, <5>3 DEF Same, Live, Ended
      <4>3. QED
        BY <2>6, <4>1, <4>2 DEF TasksOK
    <3>3. QED
      BY <3>1, <3>2
  <2>7. QED
    BY <1>u, <2>1, <2>3, <2>4, <2>5, <2>6 DEF TasksOK
<1>3. CASE UNCHANGED <<offspringVars, shellVars>> \/ UNCHANGED vars
  BY <1>1, <1>3 DEF vars
<1>4. ASSUME NEW t \in Conns, StepOf(t) PROVE TasksOK'
  <2>1. UNCHANGED <<scene, pc, cur, arglist>>
    BY <1>4, DialogMain
  <2>2. /\ task' \in [Conns -> TaskSet]
        /\ \A u \in Conns \ {t} : Same(u)
        /\ \/ Same(t)
           \/ Copies(t)
           \/ \E x \in Places : /\ At(t, x) /\ <<task[t].pc, x>> \in Path
                                /\ x \in {"handled", "send"} => Unix
           \/ Live(t) /\ Leaves(t)
    BY <1>4, DialogTask
  <2>3. \A u \in Conns :
          /\ u > cur => task[u].pc = "none"
          /\ pc = "start" /\ u = cur => task[u].pc = "none"
          /\ task[u].pc \in {"none", "start"} => task[u].msock = 0
          /\ Live(u) /\ task[u].pc # "start" => task[u].msock \in Conns
          /\ Unix => task[u].msock \in {0, u}
          /\ task[u].pc \in {"handled", "send"} => Unix
          /\ NT /\ task[u].pc # "none" => arglist.msock \in Conns
    BY DEF TasksOK
  <2>4. ASSUME NEW u \in Conns
        PROVE  /\ u > cur => task'[u].pc = "none"
               /\ pc = "start" /\ u = cur => task'[u].pc = "none"
               /\ task'[u].pc \in {"none", "start"} => task'[u].msock = 0
               /\ Live(u)' /\ task'[u].pc # "start" => task'[u].msock \in Conns
               /\ Unix => task'[u].msock \in {0, u}
               /\ task'[u].pc \in {"handled", "send"} => Unix
               /\ NT /\ task'[u].pc # "none" => arglist.msock \in Conns
    <3>1. CASE Same(u)
      BY <2>3, <3>1 DEF Same, Live
    <3>2. CASE u = t /\ Copies(t)
      BY <1>0, <2>3, <3>2 DEF Copies
    <3>3. CASE u = t /\ \E x \in Places : /\ At(t, x) /\ <<task[t].pc, x>> \in Path
                                          /\ x \in {"handled", "send"} => Unix
      <4>1. PICK x \in Places : /\ At(u, x) /\ <<task[u].pc, x>> \in Path
                                /\ x \in {"handled", "send"} => Unix
        BY <3>3
      <4>2. task[u].pc \notin {"none", "start"} \cup Ended /\ x \notin {"none", "start"} \cup Ended
        BY <4>1 DEF Path, Ended
      <4>3. Live(u)
        BY <4>2 DEF Live
      <4>4. QED
        BY <2>3, <4>1, <4>2, <4>3 DEF At
    <3>4. CASE u = t /\ Live(t) /\ Leaves(t)
      BY <2>3, <3>4 DEF Leaves, At, Live, Ended
    <3>5. QED
      BY <2>2, <3>1, <3>2, <3>3, <3>4
  <2>5. QED
    BY <1>u, <2>1, <2>2, <2>4 DEF TasksOK
<1>5. QED
  BY <1>2, <1>3, <1>4, NextIs

-----------------------------------------------------------------------------
(* Who is new among the holders may have the descriptor.                    *)
LEMMA HoldersKept ==
  ASSUME MainOK, HoldersOK, scene' = scene, cur' \in Nat, cur' >= cur,
         holders' = [c \in Conns |-> holders'[c]],
         \A c \in Conns : \A h \in holders'[c] :
           h \in holders[c] \/ (h \in Heirs(c) /\ c <= cur')
  PROVE  HoldersOK'
<1>1. \A c \in Conns : c \in Nat
  BY Sizes
<1>2. cur \in Nat
  BY CurIsConn
<1>3. ASSUME NEW c \in Conns PROVE holders'[c] \subseteq Heirs(c)
  BY <1>3 DEF HoldersOK
<1>4. ASSUME NEW c \in Conns, c > cur' PROVE holders'[c] = {}
  <2>1. c > cur /\ ~(c <= cur')
    BY <1>1, <1>2, <1>4
  <2>2. QED
    BY <2>1 DEF HoldersOK
<1>6. \A c \in Conns : Heirs(c)' = Heirs(c)
  BY DEF Heirs, Unix, Main, Proc, ShellOf
<1>7. QED
  BY <1>3, <1>4, <1>6 DEF HoldersOK

(* Every step keeps the account of who holds which connection. *)
LEMMA NextHolders ==
  ASSUME MainOK, TasksOK, HoldersOK, [Next]_vars PROVE HoldersOK'
<1>s. scene' = scene
  BY SceneKept
<1>n. cur \in Nat /\ \A c \in Conns : c \in Nat
  BY CurIsConn, Sizes
<1>h. /\ holders = [c \in Conns |-> holders[c]]
      /\ \A c \in Conns : holders[c] \subseteq Heirs(c) /\ (c > cur => holders[c] = {})
  BY DEF HoldersOK
<1>c. \A c \in Conns : holders[c] # {} => c <= cur
  BY <1>h, <1>n
<1>1. ASSUME cur' = cur, holders' = [c \in Conns |-> holders'[c]],
             \A c \in Conns : holders'[c] \subseteq holders[c]
      PROVE  HoldersOK'
  BY <1>1, <1>n, <1>s, HoldersKept
<1>2. CASE UNCHANGED <<cur, holders>>
  BY <1>2, <1>1, <1>h
<1>e. ASSUME NEW x, cur' = cur, holders' = [holders EXCEPT ![x] = holders[x] \ {Main}]
      PROVE  HoldersOK'
  <2>1. holders' = [c \in Conns |-> IF c = x THEN holders[x] \ {Main} ELSE holders[c]]
    BY <1>e, <1>h
  <2>2. QED
    BY <1>1, <1>e, <2>1
<1>i. ASSUME NEW p, NEW q, cur' = cur, holders' = Inherited(p, q),
             \A c \in Conns : p \in holders[c] => q \in Heirs(c)
      PROVE  HoldersOK'
  <2>1. holders' = [c \in Conns |-> IF p \in holders[c] THEN holders[c] \cup {q} ELSE holders[c]]
    BY <1>i DEF Inherited
  <2>2. holders' = [c \in Conns |-> holders'[c]]
    BY <2>1
  <2>3. \A c \in Conns : \A h \in holders'[c] :
          h \in holders[c] \/ (h \in Heirs(c) /\ c <= cur')
    BY <1>c, <1>i, <2>1
  <2>4. QED
    BY <1>i, <1>n, <1>s, <2>2, <2>3, HoldersKept
<1>3. CASE MainNext
  <2>1. CASE Accept
    <3>1. cur' = cur + 1
          /\ \/ holders' = holders
             \/ holders' = [holders EXCEPT ![cur + 1] = {Main}]
      BY <2>1 DEF Accept
    <3>2. \A c \in Conns : Main \in Heirs(c)
      BY DEF Heirs
    <3>3. holders' = [c \in Conns |-> holders'[c]]
      BY <1>h, <3>1
    <3>4. \A c \in Conns : \A h \in holders'[c] :
            h \in holders[c] \/ (h = Main /\ c = cur')
      BY <1>h, <3>1
    <3>5. cur' \in Nat /\ cur' >= cur
      BY <1>n, <3>1
    <3>6. QED
      BY <1>n, <1>s, <3>2, <3>3, <3>4, <3>5, HoldersKept
  <2>2. CASE Fork
    <3>1. holders' = Inherited(Main, Proc(cur)) /\ cur' = cur /\ cur \in Conns
      BY <2>2, CurIsConn DEF Fork
    <3>2. \A c \in Conns : Main \in holders[c] => Proc(cur) \in Heirs(c)
      BY <1>c, <1>n, <3>1 DEF Heirs
    <3>3. QED
      BY <1>i, <3>1, <3>2
  <2>3. CASE StartFails \/ ExitTold
    <3>1. holders' = [c \in Conns |-> holders[c] \ {Main}] /\ cur' = cur
      BY <2>3 DEF StartFails, ExitTold, ProcessExits
    <3>2. QED
      BY <1>1, <3>1
  <2>4. ASSUME NEW z \in Conns, Reap(z) PROVE HoldersOK'
    <3>1. cur' = cur /\ \E hit :
            holders' = [c \in Conns |-> IF \E i \in hit : offspring[i].msock = c
                                       THEN holders[c] \ {Main} ELSE holders[c]]
      BY <2>4 DEF Reap
    <3>2. QED
      BY <1>1, <3>1
  <2>5. CASE CloseChild
    <3>1. cur' = cur /\ \E x : holders' = [holders EXCEPT ![x] = holders[x] \ {Main}]
      BY <2>5 DEF CloseChild
    <3>2. QED
      BY <1>e, <3>1
  <2>6. CASE BeginThread \/ RecordThread \/ RecordPid \/ RecordSocket \/ Terminate
             \/ TellChild \/ SkipRow \/ ToldChildGone
    BY <1>2, <2>6 DEF BeginThread, Begin, RecordThread, RecordPid, RecordSocket, Terminate,
       TellChild, SkipRow, ToldChildGone
  <2>7. QED
    BY <1>3, <2>1, <2>2, <2>3, <2>4, <2>5, <2>6 DEF MainNext
<1>4. CASE UNCHANGED <<offspringVars, shellVars>> \/ UNCHANGED vars
  BY <1>2, <1>4 DEF vars
<1>5. ASSUME NEW t \in Conns, StepOf(t) PROVE HoldersOK'
  <2>0. cur' = cur
    BY <1>5, DialogMain
  <2>1. CASE Finish(t) \/ Told(t)
    <3>1. \/ holders' = [c \in Conns |-> holders[c] \ {Proc(t)}]
          \/ \E x : holders' = [holders EXCEPT ![x] = holders[x] \ {Main}]
      BY <2>1 DEF Finish, Told, Die
    <3>2. QED
      BY <1>1, <1>e, <2>0, <3>1
  <2>2. CASE StartShell(t) \/ NoHelper(t)
    <3>1. holders' = Inherited(Owner(t), ShellOf(t))
      BY <2>2 DEF StartShell, NoHelper, Spawn
    <3>2. ASSUME NEW c \in Conns, Owner(t) \in holders[c] PROVE ShellOf(t) \in Heirs(c)
      <4>1. CASE Unix
        <5>1. Proc(t) \in Heirs(c)
          BY <1>h, <3>2, <4>1 DEF Owner
        <5>2. t >= c
          BY <4>1, <5>1 DEF Heirs, Main, Proc, ShellOf
        <5>3. QED
          BY <5>2 DEF Heirs
      <4>2. CASE ~Unix
        BY <4>2 DEF Heirs
      <4>3. QED
        BY <4>1, <4>2
    <3>3. QED
      BY <1>i, <2>0, <3>1, <3>2
  <2>3. CASE ShellExits(t) \/ ShellSeesEnd(t)
    <3>1. holders' = [c \in Conns |-> holders[c] \ {ShellOf(t)}]
      BY <2>3 DEF ShellExits, ShellSeesEnd, ShellGoes
    <3>2. QED
      BY <1>1, <2>0, <3>1
  <2>4. CASE HelperReadsEnd(t) \/ HelperSendFails(t)
    <3>1. \E x : holders' = [holders EXCEPT ![x] = holders[x] \ {Main}]
      BY <2>4 DEF HelperReadsEnd, HelperSendFails, HelperGoes
    <3>2. QED
      BY <1>e, <2>0, <3>1
  <2>5. CASE EndOfLines(t) \/ SendFails(t) \/ FinishSession(t) \/ SessionTold(t)
    BY <2>1, <2>5 DEF EndOfLines, SendFails, FinishSession, SessionDies, SessionTold
  <2>6. CASE WriteFails(t) \/ ShellDied(t)
    <3>1. Finish(t) \/ holders' = holders
      BY <2>6 DEF WriteFails, SessionDies, ShellDied, Quits, Goto
    <3>2. QED
      BY <1>2, <2>0, <2>1, <3>1
  <2>7. CASE CopyArguments(t) \/ SetHandlers(t) \/ BeReady(t) \/ Receive(t) \/ NoShell(t)
             \/ MakePipes(t) \/ ClosePipes(t) \/ SendShort(t)
             \/ Recv(t) \/ RecvEnd(t) \/ WriteShell(t) \/ ReadShell(t) \/ ReadShellEnd(t)
             \/ SendCaller(t) \/ SelectEnds(t) \/ HelperReads(t) \/ HelperSends(t)
             \/ ShellReads(t) \/ ShellPrints(t)
    BY <1>2, <2>0, <2>7 DEF CopyArguments, SetHandlers, BeReady, Receive, NoShell, Recv, RecvEnd,
       WriteShell, ReadShell, ReadShellEnd, SendCaller, SendShort, MakePipes, ClosePipes,
       SelectEnds, Quits, Goto, HelperReads, HelperSends, ShellReads, ShellPrints
  <2>8. QED
    BY <1>5, <2>2, <2>3, <2>4, <2>5, <2>6, <2>7, <2>1 DEF StepOf, Dialog, LineNext, SessionNext
<1>6. QED
  BY <1>3, <1>4, <1>5, NextIs

-----------------------------------------------------------------------------
(* The shell's output.                                                      *)
(* A shell that has printed nothing. *)
LEMMA PiecesNone ==
  Pieces(<<>>, <<>>, <<>>, 0, FALSE)
<1>1. Len(<<>>) = 0 /\ 0 + 0 + 0 = 0
  OBVIOUS
<1>2. 0 \in Nat /\ Follow(<<>>, 0) /\ Ordered(<<>>) /\ \A k \in 1 .. 0 : FALSE
  BY <1>1 DEF Follow, Ordered
<1>3. QED
  BY <1>1, <1>2 DEF Pieces

(* The shell prints one more piece. *)
LEMMA PiecesPrint ==
  ASSUME NEW r \in Seq(Nat), NEW h \in Seq(Nat), NEW f \in Seq(Nat), NEW n \in Nat, NEW c,
         Pieces(r, h, f, n, c)
  PROVE  Append(f, n + 1) \in Seq(Nat) /\ Pieces(r, h, Append(f, n + 1), n + 1, c)
<1>1. PICK p \in Nat :
        /\ p + Len(h) + Len(f) = n
        /\ Follow(h, p) /\ Follow(f, p + Len(h))
        /\ Ordered(r) /\ \A k \in 1 .. Len(r) : r[k] <= p
        /\ ~c => Len(r) = p /\ Follow(r, 0)
  BY DEF Pieces
<1> DEFINE g == Append(f, n + 1)
<1>2. /\ g \in Seq(Nat) /\ Len(g) = Len(f) + 1
      /\ \A k \in 1 .. Len(f) : g[k] = f[k]
      /\ g[Len(f) + 1] = n + 1
  BY AppendProperties
<1>3. Len(f) \in Nat /\ Len(h) \in Nat
  BY LenProperties
<1> HIDE DEF g
<1>4. Follow(g, p + Len(h))
  <2>1. ASSUME NEW k \in 1 .. Len(g) PROVE g[k] = p + Len(h) + k
    <3>1. CASE k <= Len(f)
      <4>1. k \in 1 .. Len(f)
        BY <1>2, <1>3, <3>1
      <4>2. f[k] = p + Len(h) + k
        BY <1>1, <4>1 DEF Follow
      <4>3. QED
        BY <1>2, <4>1, <4>2
    <3>2. CASE ~(k <= Len(f))
      <4>1. k = Len(f) + 1
        BY <1>2, <1>3, <3>2
      <4>2. \A x, y, z \in Nat : x + y + z = n => n + 1 = x + y + (z + 1)
        OBVIOUS
      <4>3. n + 1 = p + Len(h) + (Len(f) + 1)
        BY <1>1, <1>3, <4>2, Zenon
      <4>4. QED
        BY <1>2, <4>1, <4>3
    <3>3. QED
      BY <3>1, <3>2
  <2>2. QED
    BY <2>1 DEF Follow
<1>5. p + Len(h) + Len(g) = n + 1
  BY <1>1, <1>2, <1>3
<1>6. Pieces(r, h, g, n + 1, c)
  BY <1>1, <1>4, <1>5 DEF Pieces
<1>7. QED
  BY <1>2, <1>6 DEF g

(* The session, which holds nothing, reads the first m pieces. *)
LEMMA PiecesDraw ==
  ASSUME NEW r \in Seq(Nat), NEW f \in Seq(Nat), NEW n \in Nat, NEW c,
         Pieces(r, <<>>, f, n, c), NEW m \in 1 .. Len(f)
  PROVE  /\ SubSeq(f, 1, m) \in Seq(Nat) /\ SubSeq(f, m + 1, Len(f)) \in Seq(Nat)
         /\ Pieces(r, SubSeq(f, 1, m), SubSeq(f, m + 1, Len(f)), n, c)
<1>0. Len(<<>>) = 0
  OBVIOUS
<1>1. PICK p \in Nat :
        /\ p + Len(f) = n
        /\ Follow(f, p)
        /\ Ordered(r) /\ \A k \in 1 .. Len(r) : r[k] <= p
        /\ ~c => Len(r) = p /\ Follow(r, 0)
  <2>1. PICK p \in Nat :
          /\ p + Len(<<>>) + Len(f) = n
          /\ Follow(f, p + Len(<<>>))
          /\ Ordered(r) /\ \A k \in 1 .. Len(r) : r[k] <= p
          /\ ~c => Len(r) = p /\ Follow(r, 0)
    BY DEF Pieces
  <2>2. p + Len(<<>>) = p
    BY <1>0
  <2>3. QED
    BY <2>1, <2>2
<1>2. Len(f) \in Nat /\ m \in Nat /\ m >= 1 /\ m <= Len(f)
      /\ \A k \in 1 .. Len(f) : f[k] \in Nat
  BY LenProperties
<1> DEFINE h == SubSeq(f, 1, m)
           g == SubSeq(f, m + 1, Len(f))
<1>3. h \in Seq(Nat) /\ Len(h) = m /\ \A k \in 1 .. m : h[k] = f[k]
  <2>1. \A k \in 1 .. m : f[k] \in Nat
    BY <1>2
  <2>2. /\ h \in Seq(Nat) /\ Len(h) = IF 1 <= m THEN m - 1 + 1 ELSE 0
        /\ \A k \in 1 .. m - 1 + 1 : h[k] = f[1 + k - 1]
    BY <1>2, <2>1, SubSeqProperties
  <2>3. QED
    BY <1>2, <2>2
<1>4. g \in Seq(Nat) /\ Len(g) = Len(f) - m /\ \A k \in 1 .. Len(g) : g[k] = f[m + k]
  <2>1. \A k \in (m + 1) .. Len(f) : f[k] \in Nat
    BY <1>2
  <2>2. /\ g \in Seq(Nat)
        /\ Len(g) = IF m + 1 <= Len(f) THEN Len(f) - (m + 1) + 1 ELSE 0
        /\ \A k \in 1 .. Len(f) - (m + 1) + 1 : g[k] = f[m + 1 + k - 1]
    BY <1>2, <2>1, SubSeqProperties
  <2>3. Len(g) = Len(f) - m
    BY <1>2, <2>2
  <2>4. ASSUME NEW k \in 1 .. Len(g) PROVE g[k] = f[m + k]
    <3>1. k \in 1 .. Len(f) - (m + 1) + 1 /\ m + 1 + k - 1 = m + k
      BY <1>2, <2>3
    <3>2. g[k] = f[m + 1 + k - 1]
      BY <2>2, <3>1
    <3>3. QED
      BY <3>1, <3>2
  <2>5. QED
    BY <2>2, <2>3, <2>4
<1> HIDE DEF h, g
<1>5. Follow(h, p)
  <2>1. \A k \in 1 .. m : k \in 1 .. Len(f)
    BY <1>2
  <2>2. QED
    BY <1>1, <1>3, <2>1 DEF Follow
<1>6. Follow(g, p + Len(h))
  <2>1. ASSUME NEW k \in 1 .. Len(g) PROVE g[k] = p + Len(h) + k
    <3>1. m + k \in 1 .. Len(f)
      BY <1>2, <1>4
    <3>2. f[m + k] = p + (m + k)
      BY <1>1, <3>1 DEF Follow
    <3>3. QED
      BY <1>2, <1>3, <1>4, <3>2
  <2>2. QED
    BY <2>1 DEF Follow
<1>7. p + Len(h) + Len(g) = n
  <2>1. \A x, y \in Nat : x + y = n => x + m + (y - m) = n
    BY <1>2
  <2>2. p + Len(f) = n
    BY <1>1
  <2>3. p + m + (Len(f) - m) = n
    BY <1>2, <2>1, <2>2, Zenon
  <2>4. QED
    BY <1>3, <1>4, <2>3
<1>8. Pieces(r, h, g, n, c)
  BY <1>1, <1>5, <1>6, <1>7 DEF Pieces
<1>9. QED
  BY <1>3, <1>4, <1>8 DEF h, g

(* It sends the first m pieces of what it holds, and drops the others.      *)
LEMMA PiecesPass ==
  ASSUME NEW r \in Seq(Nat), NEW h \in Seq(Nat), NEW f \in Seq(Nat), NEW n \in Nat,
         NEW c, NEW d, Pieces(r, h, f, n, c), NEW m \in 0 .. Len(h),
         ~d => m = Len(h) /\ ~c
  PROVE  /\ r \o SubSeq(h, 1, m) \in Seq(Nat) /\ <<>> \in Seq(Nat)
         /\ Pieces(r \o SubSeq(h, 1, m), <<>>, f, n, d)
<1>1. PICK p \in Nat :
        /\ p + Len(h) + Len(f) = n
        /\ Follow(h, p) /\ Follow(f, p + Len(h))
        /\ Ordered(r) /\ \A k \in 1 .. Len(r) : r[k] <= p
        /\ ~c => Len(r) = p /\ Follow(r, 0)
  BY DEF Pieces
<1>2. /\ Len(h) \in Nat /\ Len(r) \in Nat /\ m \in Nat /\ m <= Len(h)
      /\ \A k \in 1 .. Len(h) : h[k] \in Nat
      /\ \A k \in 1 .. Len(r) : r[k] \in Nat
  BY LenProperties
<1> DEFINE a == SubSeq(h, 1, m)
           s == r \o a
<1>3. a \in Seq(Nat) /\ Len(a) = m /\ \A k \in 1 .. m : a[k] = h[k]
  <2>1. \A k \in 1 .. m : h[k] \in Nat
    BY <1>2
  <2>2. /\ a \in Seq(Nat) /\ Len(a) = IF 1 <= m THEN m - 1 + 1 ELSE 0
        /\ \A k \in 1 .. m - 1 + 1 : a[k] = h[1 + k - 1]
    BY <1>2, <2>1, SubSeqProperties
  <2>3. QED
    BY <1>2, <2>2
<1> HIDE DEF a
<1>4. /\ s \in Seq(Nat) /\ Len(s) = Len(r) + m
      /\ \A k \in 1 .. Len(r) + m : s[k] = IF k <= Len(r) THEN r[k] ELSE a[k - Len(r)]
  <2>1. \A x \in Seq(Nat), y \in Seq(Nat) :
          /\ x \o y \in Seq(Nat) /\ Len(x \o y) = Len(x) + Len(y)
          /\ \A k \in 1 .. Len(x) + Len(y) :
               (x \o y)[k] = IF k <= Len(x) THEN x[k] ELSE y[k - Len(x)]
    BY ConcatProperties
  <2>2. QED
    BY <1>3, <2>1
<1> HIDE DEF s
<1>5. ASSUME NEW k \in 1 .. Len(s), k > Len(r) PROVE s[k] = p + (k - Len(r))
  <2>1. k - Len(r) \in 1 .. m
    BY <1>2, <1>4, <1>5
  <2>2. a[k - Len(r)] = p + (k - Len(r))
    <3>1. k - Len(r) \in 1 .. Len(h) /\ a[k - Len(r)] = h[k - Len(r)]
      BY <1>2, <1>3, <2>1
    <3>2. QED
      BY <1>1, <3>1 DEF Follow
  <2>3. QED
    BY <1>2, <1>4, <1>5, <2>2
<1>6. ASSUME NEW k \in 1 .. Len(s), k <= Len(r)
      PROVE  s[k] = r[k] /\ k \in 1 .. Len(r) /\ s[k] <= p
  <2>1. k \in 1 .. Len(r) /\ s[k] = r[k]
    BY <1>2, <1>4, <1>6
  <2>2. QED
    BY <1>1, <2>1
<1>7. \A k \in 1 .. Len(s) : s[k] <= p + Len(h)
  <2>1. ASSUME NEW k \in 1 .. Len(s) PROVE s[k] <= p + Len(h)
    <3>1. CASE k <= Len(r)
      <4>1. s[k] <= p /\ s[k] \in Nat
        BY <1>2, <1>6, <3>1
      <4>2. QED
        BY <1>2, <4>1
    <3>2. CASE k > Len(r)
      BY <1>2, <1>4, <1>5, <3>2
    <3>3. QED
      BY <1>2, <3>1, <3>2
  <2>2. QED
    BY <2>1
<1>8. Ordered(s)
  <2>1. ASSUME NEW k \in 2 .. Len(s) PROVE s[k - 1] < s[k]
    <3>0. k \in 1 .. Len(s) /\ k - 1 \in 1 .. Len(s)
      BY <1>2, <1>4
    <3>1. CASE k <= Len(r)
      <4>0. k - 1 <= Len(r) /\ k \in 2 .. Len(r)
        BY <1>2, <3>0, <3>1
      <4>1. s[k] = r[k] /\ s[k - 1] = r[k - 1]
        BY <1>6, <3>0, <3>1, <4>0
      <4>2. QED
        BY <1>1, <4>0, <4>1 DEF Ordered
    <3>2. CASE k - 1 = Len(r)
      <4>1. s[k - 1] <= p /\ s[k - 1] = r[k - 1] /\ k - 1 \in 1 .. Len(r)
        BY <1>2, <1>6, <3>0, <3>2
      <4>2. s[k] = p + (k - Len(r)) /\ k - Len(r) = 1
        BY <1>2, <1>5, <3>0, <3>2
      <4>3. s[k - 1] \in Nat
        BY <1>2, <4>1
      <4>4. QED
        BY <4>1, <4>2, <4>3
    <3>3. CASE k - 1 > Len(r)
      <4>1. s[k] = p + (k - Len(r)) /\ s[k - 1] = p + (k - 1 - Len(r))
        BY <1>2, <1>5, <3>0, <3>3
      <4>2. QED
        BY <1>2, <4>1
    <3>4. QED
      BY <1>2, <3>1, <3>2, <3>3
  <2>2. QED
    BY <2>1 DEF Ordered
<1>9. ASSUME ~d PROVE Len(s) = p + Len(h) /\ Follow(s, 0)
  <2>1. Len(r) = p /\ Follow(r, 0) /\ m = Len(h)
    BY <1>1, <1>9
  <2>2. ASSUME NEW k \in 1 .. Len(s) PROVE s[k] = 0 + k
    <3>1. CASE k <= Len(r)
      BY <1>6, <2>1, <3>1 DEF Follow
    <3>2. CASE k > Len(r)
      BY <1>2, <1>5, <2>1, <3>2
    <3>3. QED
      BY <1>2, <3>1, <3>2
  <2>3. QED
    BY <1>4, <2>1, <2>2 DEF Follow
<1>10. Len(<<>>) = 0 /\ Follow(<<>>, p + Len(h)) /\ <<>> \in Seq(Nat)
  BY DEF Follow
<1>11. /\ p + Len(h) \in Nat /\ (p + Len(h)) + Len(<<>>) + Len(f) = n
       /\ Follow(f, (p + Len(h)) + Len(<<>>))
  <2>1. (p + Len(h)) + Len(<<>>) = p + Len(h)
    BY <1>2, <1>10
  <2>2. QED
    BY <1>1, <1>2, <2>1
<1>12. Pieces(s, <<>>, f, n, d)
  BY <1>7, <1>8, <1>9, <1>10, <1>11 DEF Pieces
<1>13. QED
  BY <1>4, <1>10, <1>12 DEF s, a

(* What becomes of a session in the steps of others.                        *)
KeptEnds(u) ==
  /\ shell[u] = "runs" /\ shell'[u] = "runs" /\ ShellOf(u) \in ends[u]["printers"] =>
       ShellOf(u) \in ends'[u]["printers"]
  /\ task'[u].pc = "spawn" /\ Proc(u) \in ends[u]["printers"] =>
       Proc(u) \in ends'[u]["printers"]
SameOutput(u) ==
  /\ shell'[u] = shell[u] /\ helper'[u] = helper[u] /\ produced'[u] = produced[u]
  /\ fromsh'[u] = fromsh[u] /\ held'[u] = held[u]
  /\ relayed'[u] = relayed[u] /\ cut'[u] = cut[u]
  /\ hungup[u] => hungup'[u]
  /\ shcld'[u] => shcld[u]

(* A session that goes on, begins to end or has ended, and reads nothing.   *)
LEMMA OutputKept ==
  ASSUME NEW u \in Conns, OutputOf(u), SameOutput(u), KeptEnds(u), scene' = scene,
         cause'[u] = cause[u] \/ cause'[u] # "eof",
         \/ task'[u].pc = task[u].pc
         \/ task[u].pc \in Early /\ task'[u].pc \in Early \ {"spawn"}
         \/ task[u].pc \in {"close", "select", "write"} /\ task'[u].pc \in {"select", "write"}
         \/ task'[u].pc \in {"finish", "zombie", "reaped", "unlisted", "gone"}
  PROVE  OutputOf(u)'
<1>1. (Unix' <=> Unix) /\ (NT' <=> NT)
  BY DEF Unix, NT
<1>2. /\ Pieces(relayed[u], held[u], fromsh[u], produced[u], cut[u])'
      /\ shell'[u] \in {"none", "runs", "exited"}
  BY DEF OutputOf, SameOutput
<1>3. /\ cut'[u] => Unix' /\ (shell'[u] = "exited" \/ hungup'[u])
      /\ task'[u].pc \in Early => shell'[u] = "none"
      /\ task'[u].pc \in {"close", "select", "write", "send"} => shell'[u] # "none"
      /\ shell'[u] = "none" => /\ produced'[u] = 0 /\ helper'[u] = "none"
                              /\ cause'[u] # "eof"
  BY <1>1 DEF OutputOf, SameOutput, Early, Ended
<1>4. /\ task'[u].pc = "spawn" => Proc(u) \in ends'[u]["printers"]
      /\ shell'[u] = "runs" => ShellOf(u) \in ends'[u]["printers"]
  BY DEF OutputOf, SameOutput, KeptEnds, Early
<1>5. /\ shcld'[u] => shell'[u] = "exited"
      /\ helper'[u] # "none" => NT'
      /\ Unix' /\ task'[u].pc \in {"close", "select", "write"} => held'[u] = <<>>
      /\ helper'[u] = "read" => held'[u] = <<>>
  BY <1>1 DEF OutputOf, SameOutput, Early, Ended
<1>6. cause'[u] = "eof" =>
       /\ shell'[u] = "exited" /\ held'[u] = <<>> /\ fromsh'[u] = <<>>
       /\ helper'[u] \notin {"read", "send"}
       /\ Unix' => task'[u].pc \in {"finish"} \cup Ended
  BY <1>1 DEF OutputOf, SameOutput, Early, Ended
<1>7. Proc(u)' = Proc(u) /\ ShellOf(u)' = ShellOf(u)
  BY DEF Proc, ShellOf
<1>8. QED
  BY <1>2, <1>3, <1>4, <1>5, <1>6, <1>7 DEF OutputOf

(* A session sends nothing for its caller.                                  *)
LEMMA DialogCalls ==
  ASSUME NEW t \in Conns, StepOf(t)
  PROVE  UNCHANGED <<sent, hungup>>
<1>1. CASE UNCHANGED callVars
  BY <1>1
<1>2. CASE Receive(t) \/ EndOfLines(t) \/ Recv(t)
  BY <1>2 DEF Receive, EndOfLines, Recv
<1>3. CASE MakePipes(t) \/ NoShell(t) \/ StartShell(t) \/ NoHelper(t) \/ ClosePipes(t)
           \/ RecvEnd(t) \/ WriteShell(t) \/ WriteFails(t) \/ ReadShell(t)
           \/ ReadShellEnd(t) \/ SendCaller(t) \/ SendShort(t) \/ SendFails(t)
           \/ ShellDied(t) \/ FinishSession(t) \/ SessionTold(t) \/ SelectEnds(t)
  BY <1>1, <1>3 DEF MakePipes, NoShell, StartShell, NoHelper, Spawn, ClosePipes, RecvEnd,
     WriteShell, WriteFails, ReadShell, ReadShellEnd, SendCaller, SendShort, SendFails,
     ShellDied, FinishSession, SessionTold, SelectEnds
<1>4. CASE HelperReads(t) \/ HelperReadsEnd(t) \/ HelperSends(t) \/ HelperSendFails(t)
           \/ ShellReads(t) \/ ShellPrints(t) \/ ShellExits(t) \/ ShellSeesEnd(t)
  BY <1>1, <1>4 DEF HelperReads, HelperReadsEnd, HelperSends, HelperSendFails,
     ShellReads, ShellPrints, ShellExits, ShellSeesEnd, ShellGoes
<1>5. QED
  BY <1>1, <1>2, <1>3, <1>4 DEF StepOf, Dialog, LineNext, SessionNext

(* Who has an end of a pipe keeps it, but for what it closes itself.        *)
LEMMA DialogEnds ==
  ASSUME MainOK, TasksOK, OutputOK, NEW t \in Conns, StepOf(t)
  PROVE  /\ ends' \in [Conns -> [Ends -> SUBSET Family]]
         /\ \A u \in Conns : KeptEnds(u)
<1> DEFINE Goal == /\ ends' \in [Conns -> [Ends -> SUBSET Family]]
                   /\ \A u \in Conns : KeptEnds(u)
<1>e. /\ ends \in [Conns -> [Ends -> SUBSET Family]] /\ "printers" \in Ends
      /\ \A u \in Conns : ends[u] \in [Ends -> SUBSET Family]
      /\ \A u \in Conns : \A e \in Ends : ends[u][e] \subseteq Family
  BY DEF Ends, OutputOK, Counted
<1>f. \A u \in Conns : Proc(u) \in Family /\ ShellOf(u) \in Family
  BY DEF Family
<1>n. \A u, v \in Conns : /\ Proc(u) # ShellOf(v)
                          /\ Proc(u) = Proc(v) => u = v
                          /\ ShellOf(u) = ShellOf(v) => u = v
  BY DEF Proc, ShellOf
<1>t. task \in [Conns -> TaskSet] /\ shell \in [Conns -> Words]
  BY DEF TasksOK, OutputOK, Counted
<1>1. CASE ends' = ends
  BY <1>e, <1>1 DEF KeptEnds
<1>2. ASSUME NEW f \in [Ends -> SUBSET Family], ends' = [ends EXCEPT ![t] = f],
             shell[t] = "runs" /\ ShellOf(t) \in ends[t]["printers"] => ShellOf(t) \in f["printers"],
             task'[t].pc # "spawn" \/ Proc(t) \in f["printers"]
      PROVE  Goal
  <2>1. ends' \in [Conns -> [Ends -> SUBSET Family]] /\ ends'[t] = f
        /\ \A u \in Conns \ {t} : ends'[u] = ends[u]
    BY <1>e, <1>2
  <2>2. QED
    BY <1>2, <2>1 DEF KeptEnds
<1>3. CASE MakePipes(t)
  <2>1. [e \in Ends |-> {Proc(t)}] \in [Ends -> SUBSET Family]
        /\ [e \in Ends |-> {Proc(t)}]["printers"] = {Proc(t)}
    BY <1>e, <1>f
  <2>2. ends' = [ends EXCEPT ![t] = [e \in Ends |-> {Proc(t)}]] /\ task[t].pc = "pipes"
    BY <1>3 DEF MakePipes
  <2>3. shell[t] # "runs"
    BY <2>2 DEF OutputOK, OutputOf, Early
  <2>4. QED
    BY <1>2, <2>1, <2>2, <2>3
<1>4. CASE StartShell(t) \/ NoHelper(t)
  <2>1. ends' = PassedOn(t)
    BY <1>4 DEF StartShell, NoHelper, Spawn
  <2>2. \A u \in Conns : \A e \in Ends :
          (IF (NT \/ u = t) /\ Proc(u) \in ends[u][e] /\ Keeps(e)
           THEN ends[u][e] \cup {ShellOf(t)} ELSE ends[u][e]) \in SUBSET Family
    BY <1>e, <1>f
  <2>3. ends' \in [Conns -> [Ends -> SUBSET Family]]
    BY <2>1, <2>2 DEF PassedOn
  <2>4. \A u \in Conns : \A e \in Ends : ends[u][e] \subseteq ends'[u][e]
    BY <2>1 DEF PassedOn
  <2>5. QED
    BY <1>e, <2>3, <2>4 DEF KeptEnds
<1>5. CASE ClosePipes(t)
  <2> DEFINE f == [ends[t] EXCEPT !["readers"] = ends[t]["readers"] \ {Proc(t)},
                                  !["printers"] = ends[t]["printers"] \ {Proc(t)}]
  <2>1. ends' = [ends EXCEPT ![t] = f] /\ Goto(t, "select")
    BY <1>e, <1>5 DEF ClosePipes
  <2>2. f \in [Ends -> SUBSET Family] /\ f["printers"] = ends[t]["printers"] \ {Proc(t)}
    BY <1>e DEF Ends
  <2>3. task'[t].pc # "spawn"
    BY <1>t, <2>1, PcSet DEF Goto, At, Places
  <2>4. QED
    BY <1>2, <1>n, <2>1, <2>2, <2>3
<1>6. ASSUME ends' = [ends EXCEPT ![t] = [e \in Ends |-> IF Unix \/ e = "writers"
                                                       THEN ends[t][e] \ {Proc(t)} ELSE ends[t][e]]],
             task'[t].pc # "spawn"
      PROVE  Goal
  <2> DEFINE f == [e \in Ends |-> IF Unix \/ e = "writers"
                                  THEN ends[t][e] \ {Proc(t)} ELSE ends[t][e]]
  <2>1. f \in [Ends -> SUBSET Family]
        /\ (ShellOf(t) \in ends[t]["printers"] => ShellOf(t) \in f["printers"])
    BY <1>e, <1>n
  <2>2. QED
    BY <1>2, <1>6, <2>1
<1>7. CASE SendFails(t) \/ FinishSession(t)
  <2>1. SessionDies(t)
    BY <1>7 DEF SendFails, FinishSession
  <2>2. task'[t].pc # "spawn"
    BY <1>t, <2>1, FinishTask DEF SessionDies, Leaves, At
  <2>3. QED
    BY <1>6, <2>1, <2>2 DEF SessionDies
<1>8. CASE WriteFails(t)
  <2>1. SessionDies(t) \/ ends' = ends
    BY <1>8 DEF WriteFails
  <2>2. SessionDies(t) => task'[t].pc # "spawn"
    BY <1>t, FinishTask DEF SessionDies, Leaves, At
  <2>3. QED
    BY <1>1, <1>6, <2>1, <2>2 DEF SessionDies
<1>9. CASE SessionTold(t)
  <2>1. /\ ends' = [ends EXCEPT ![t] = [e \in Ends |-> ends[t][e] \ {Proc(t)}]]
        /\ \E told : Die(t, told)
    BY <1>9 DEF SessionTold, Told
  <2>2. task'[t].pc # "spawn"
    BY <1>t, <2>1, DieTask DEF At
  <2> DEFINE f == [e \in Ends |-> ends[t][e] \ {Proc(t)}]
  <2>3. f \in [Ends -> SUBSET Family]
        /\ (ShellOf(t) \in ends[t]["printers"] => ShellOf(t) \in f["printers"])
    BY <1>e, <1>n
  <2>4. QED
    BY <1>2, <2>1, <2>2, <2>3
<1>10. CASE ShellExits(t) \/ ShellSeesEnd(t)
  <2>1. /\ ends' = [u \in Conns |-> [e \in Ends |-> ends[u][e] \ {ShellOf(t)}]]
        /\ shell' = [shell EXCEPT ![t] = "exited"]
    BY <1>10 DEF ShellExits, ShellSeesEnd, ShellGoes
  <2>2. ends' \in [Conns -> [Ends -> SUBSET Family]]
    BY <1>e, <2>1
  <2>3. \A u \in Conns : ends'[u]["printers"] = ends[u]["printers"] \ {ShellOf(t)}
    BY <1>e, <2>1
  <2>4. shell'[t] = "exited"
    BY <1>t, <2>1
  <2>5. ASSUME NEW u \in Conns PROVE KeptEnds(u)
    <3>1. Proc(u) # ShellOf(t) /\ (u # t => ShellOf(u) # ShellOf(t))
      BY <1>n
    <3>2. QED
      BY <2>3, <2>4, <3>1 DEF KeptEnds
  <2>6. QED
    BY <2>2, <2>5
<1>11. CASE (CopyArguments(t) \/ SetHandlers(t) \/ BeReady(t) \/ LineNext(t)) /\ UNCHANGED shellVars
  BY <1>1, <1>11
<1>12. CASE NoShell(t) \/ Recv(t) \/ RecvEnd(t) \/ WriteShell(t) \/ ReadShell(t)
           \/ ReadShellEnd(t) \/ SendCaller(t) \/ SendShort(t) \/ ShellDied(t)
           \/ SelectEnds(t) \/ HelperReads(t) \/ HelperReadsEnd(t) \/ HelperSends(t)
           \/ HelperSendFails(t) \/ ShellReads(t) \/ ShellPrints(t)
  BY <1>1, <1>12 DEF NoShell, Recv, RecvEnd, WriteShell, ReadShell, ReadShellEnd, SendCaller,
     SendShort, ShellDied, SelectEnds, HelperReads, HelperReadsEnd, HelperSends,
     HelperSendFails, ShellReads, ShellPrints
<1>13. QED
  BY <1>3, <1>4, <1>5, <1>7, <1>8, <1>9, <1>10, <1>11, <1>12
  DEF StepOf, Dialog, LineNext, SessionNext

(* A step of a session or of its shell, and the outputs of all sessions.    *)
LEMMA DialogOutput ==
  ASSUME MainOK, TasksOK, OutputOK, NEW t \in Conns, StepOf(t)
  PROVE  /\ Counted' /\ OutputOf(t)'
         /\ \A u \in Conns \ {t} : SameOutput(u) /\ cause'[u] = cause[u]
<1> DEFINE Goal == /\ Counted' /\ OutputOf(t)'
                   /\ \A u \in Conns \ {t} : SameOutput(u) /\ cause'[u] = cause[u]
           Others == \A u \in Conns \ {t} : SameOutput(u) /\ cause'[u] = cause[u]
<1>0. /\ produced \in [Conns -> Nat]
      /\ fromsh \in [Conns -> Seq(Nat)] /\ held \in [Conns -> Seq(Nat)]
      /\ relayed \in [Conns -> Seq(Nat)]
      /\ cut \in [Conns -> BOOLEAN] /\ shcld \in [Conns -> BOOLEAN]
      /\ shell \in [Conns -> Words] /\ helper \in [Conns -> Words] /\ cause \in [Conns -> Words]
  BY DEF OutputOK, Counted
<1>h. hungup' = hungup /\ hungup \in [Conns -> BOOLEAN]
  BY DialogCalls DEF OutputOK, Counted
<1>k. ends' \in [Conns -> [Ends -> SUBSET Family]] /\ \A u \in Conns : KeptEnds(u)
  BY DialogEnds
<1>o. OutputOf(t)
  BY DEF OutputOK
<1>i. Pieces(relayed[t], held[t], fromsh[t], produced[t], cut[t])
  BY <1>o DEF OutputOf
<1>v. /\ relayed[t] \in Seq(Nat) /\ held[t] \in Seq(Nat) /\ fromsh[t] \in Seq(Nat)
      /\ produced[t] \in Nat
  BY <1>0
<1>t. /\ task \in [Conns -> TaskSet]
      /\ task[t].pc \in {"handled", "send"} => Unix
  BY DEF TasksOK
<1>s. scene' = scene
  BY DialogMain
<1>u. (Unix' <=> Unix) /\ (NT' <=> NT) /\ (Unix <=> ~NT)
  BY <1>s, Builds DEF Unix, NT
<1>x. Proc(t)' = Proc(t) /\ ShellOf(t)' = ShellOf(t)
  BY DEF Proc, ShellOf
<1>g. ASSUME NEW x \in Places, Goto(t, x) PROVE task'[t].pc = x
  BY <1>g, <1>t, PcSet DEF Goto, At
<1>p. {"spawn", "close", "select", "finish", "write", "send"} \subseteq Places
  BY DEF Places, Early
<1>d. Live(t) /\ Finish(t) => task'[t].pc \in {"zombie", "gone", "unlisted"}
  BY <1>t, FinishTask DEF At, Leaves
<1>1. ASSUME UNCHANGED <<shell, helper, produced, fromsh, held, relayed, cut>>,
             shcld' = shcld \/ shcld' = [shcld EXCEPT ![t] = FALSE],
             \/ cause' = cause
             \/ \E x \in Words : x # "eof" /\ cause' = [cause EXCEPT ![t] = x],
             \/ task'[t].pc = task[t].pc
             \/ task[t].pc \in Early /\ task'[t].pc \in Early \ {"spawn"}
             \/ task[t].pc \in {"close", "select", "write"} /\ task'[t].pc \in {"select", "write"}
             \/ task'[t].pc \in {"finish", "zombie", "reaped", "unlisted", "gone"}
      PROVE  Goal
  <2>1. cause' \in [Conns -> Words] /\ \A u \in Conns \ {t} : cause'[u] = cause[u]
    BY <1>0, <1>1
  <2>2. cause'[t] = cause[t] \/ cause'[t] # "eof"
    BY <1>0, <1>1
  <2>3. shcld' \in [Conns -> BOOLEAN] /\ \A u \in Conns : shcld'[u] => shcld[u]
    BY <1>0, <1>1
  <2>4. Counted'
    BY <1>0, <1>1, <1>h, <1>k, <2>1, <2>3 DEF Counted
  <2>5. \A u \in Conns : SameOutput(u)
    BY <1>1, <1>h, <2>3 DEF SameOutput
  <2>6. OutputOf(t)'
    BY <1>1, <1>o, <1>s, <1>k, <2>2, <2>5, OutputKept
  <2>7. QED
    BY <2>1, <2>4, <2>5, <2>6
<1>w. \/ task'[t].pc = task[t].pc
      \/ task[t].pc = "start" /\ task'[t].pc = "copied"
      \/ <<task[t].pc, task'[t].pc>> \in Path
      \/ task'[t].pc \in {"zombie", "gone", "unlisted"}
  BY DialogTask DEF Same, Copies, At, Leaves
<1>2. CASE (CopyArguments(t) \/ SetHandlers(t) \/ BeReady(t) \/ Receive(t)) /\ UNCHANGED shellVars
  <2>1. task[t].pc \in {"start", "copied", "handled"} \/ task' = task
    BY <1>2 DEF CopyArguments, SetHandlers, BeReady, Receive
  <2>2. \/ task'[t].pc = task[t].pc
        \/ task[t].pc \in Early /\ task'[t].pc \in Early \ {"spawn"}
        \/ task'[t].pc \in {"zombie", "gone", "unlisted"}
    BY <1>w, <2>1 DEF Path, Early
  <2>3. QED
    BY <1>1, <1>2, <2>2
<1>3. CASE EndOfLines(t) /\ UNCHANGED shellVars
  <2>1. Finish(t) /\ task[t].pc = "recv"
    BY <1>3 DEF EndOfLines
  <2>2. task'[t].pc \in {"zombie", "gone", "unlisted"}
    BY <1>d, <2>1 DEF Live, Ended
  <2>3. QED
    BY <1>1, <1>3, <2>2
<1>4. CASE Recv(t) \/ WriteShell(t) \/ FinishSession(t) \/ ShellReads(t) \/ ClosePipes(t)
  <2>1. UNCHANGED <<shell, helper, produced, fromsh, held, relayed, cut, shcld, cause>>
    BY <1>4 DEF Recv, WriteShell, FinishSession, ShellReads, ClosePipes
  <2>2. \/ task[t].pc = "select" /\ Goto(t, "write")
        \/ task[t].pc \in {"write", "close"} /\ Goto(t, "select")
        \/ task[t].pc = "finish" /\ Finish(t)
        \/ task' = task
    BY <1>4 DEF Recv, WriteShell, FinishSession, SessionDies, ShellReads, ClosePipes
  <2>3. \/ task'[t].pc = task[t].pc
        \/ task[t].pc \in {"close", "select", "write"} /\ task'[t].pc \in {"select", "write"}
        \/ task'[t].pc \in {"zombie", "gone", "unlisted"}
    BY <1>d, <1>g, <1>p, <2>2 DEF Live, Ended
  <2>4. QED
    BY <1>1, <2>1, <2>3
<1>5. CASE NoShell(t) \/ RecvEnd(t) \/ SelectEnds(t)
  <2>1. UNCHANGED <<shell, helper, produced, fromsh, held, relayed, cut, shcld>>
        /\ Goto(t, "finish")
    BY <1>5 DEF NoShell, RecvEnd, SelectEnds, Quits
  <2>2. \/ cause' = [cause EXCEPT ![t] = "no shell"]
        \/ cause' = [cause EXCEPT ![t] = "socket"]
        \/ cause' = [cause EXCEPT ![t] = "select"]
    BY <1>5 DEF NoShell, RecvEnd, SelectEnds, Quits
  <2>3. \E x \in Words : x # "eof" /\ cause' = [cause EXCEPT ![t] = x]
    BY <2>2 DEF Words
  <2>4. QED
    BY <1>1, <1>g, <1>p, <2>1, <2>3
<1>6. CASE WriteFails(t) \/ SendFails(t) \/ ShellDied(t) \/ SessionTold(t)
  <2>1. UNCHANGED <<shell, helper, produced, fromsh, held, relayed, cut>>
        /\ (shcld' = shcld \/ shcld' = [shcld EXCEPT ![t] = FALSE])
    BY <1>6 DEF WriteFails, SendFails, ShellDied, SessionTold
  <2>0. \/ cause' = cause
        \/ cause' = [cause EXCEPT ![t] = "pipe"]
        \/ cause' = [cause EXCEPT ![t] = "socket"]
        \/ cause' = [cause EXCEPT ![t] = "signal"]
        \/ cause' = [cause EXCEPT ![t] = "told"]
    BY <1>6 DEF WriteFails, SendFails, ShellDied, SessionTold, Quits
  <2>2. \/ cause' = cause
        \/ \E x \in Words : x # "eof" /\ cause' = [cause EXCEPT ![t] = x]
    BY <2>0 DEF Words
  <2>3. CASE SessionTold(t)
    <3>1. \E told : Die(t, told)
      BY <2>3 DEF SessionTold, Told
    <3>2. task'[t].pc \in {"zombie", "gone"}
      BY <1>t, <3>1, DieTask DEF At
    <3>3. QED
      BY <1>1, <2>1, <2>2, <3>2
  <2>4. CASE WriteFails(t) \/ SendFails(t) \/ ShellDied(t)
    <3>1. \/ task[t].pc \in {"write", "send"} /\ Finish(t)
          \/ Goto(t, "finish")
          \/ task' = task
      BY <2>4 DEF WriteFails, SendFails, SessionDies, ShellDied, Quits
    <3>2. task'[t].pc \in {"zombie", "gone", "unlisted", "finish"} \/ task'[t].pc = task[t].pc
      BY <1>d, <1>g, <1>p, <3>1 DEF Live, Ended
    <3>3. QED
      BY <1>1, <2>1, <2>2, <3>2
  <2>5. QED
    BY <1>6, <2>3, <2>4
<1>7. CASE MakePipes(t)
  <2>1. /\ UNCHANGED <<shell, helper, produced, fromsh, held, relayed, cut, shcld, cause>>
        /\ task[t].pc = "pipes" /\ Goto(t, "spawn")
        /\ ends' = [ends EXCEPT ![t] = [e \in Ends |-> {Proc(t)}]]
    BY <1>7 DEF MakePipes
  <2>2. Counted' /\ Others
    BY <1>0, <1>h, <1>k, <2>1 DEF Counted, SameOutput
  <2>3. task'[t].pc = "spawn" /\ shell[t] = "none" /\ cause[t] # "eof"
    BY <1>g, <1>p, <1>o, <2>1 DEF OutputOf, Early
  <2>4. Proc(t) \in ends'[t]["printers"]
    BY <2>1 DEF OutputOK, Counted, Ends
  <2>5. OutputOf(t)'
    BY <1>h, <1>i, <1>o, <1>u, <1>x, <2>1, <2>3, <2>4 DEF OutputOf, Early
  <2>6. QED
    BY <2>2, <2>5
<1>8. CASE StartShell(t) \/ NoHelper(t)
  <2>1. /\ UNCHANGED <<produced, fromsh, held, relayed, cut, shcld>>
        /\ shell' = [shell EXCEPT ![t] = "runs"]
        /\ task[t].pc = "spawn" /\ ends' = PassedOn(t)
    BY <1>8 DEF StartShell, NoHelper, Spawn
  <2>2. \/ /\ cause' = cause /\ task' = [task EXCEPT ![t].pc = "close"]
           /\ helper' = [helper EXCEPT ![t] = IF NT THEN "read" ELSE "none"]
        \/ /\ NT /\ cause' = [cause EXCEPT ![t] = "no shell"]
           /\ task' = [task EXCEPT ![t].pc = "finish"] /\ helper' = helper
    BY <1>8 DEF StartShell, NoHelper
  <2>3. /\ helper' \in [Conns -> Words] /\ cause' \in [Conns -> Words]
        /\ shell' \in [Conns -> Words]
        /\ \A u \in Conns \ {t} : /\ helper'[u] = helper[u] /\ cause'[u] = cause[u]
                                  /\ shell'[u] = shell[u]
    BY <1>0, <2>1, <2>2 DEF Words
  <2>4. Counted' /\ Others
    BY <1>0, <1>h, <1>k, <2>1, <2>3 DEF Counted, SameOutput
  <2>5. /\ shell'[t] = "runs" /\ task'[t].pc \in {"close", "finish"}
        /\ cause'[t] # "eof" /\ helper'[t] \in {"none", "read"}
        /\ helper'[t] # "none" => NT
    <3>1. task'[t].pc \in {"close", "finish"}
      BY <1>t, <1>p, <2>2, PcSet DEF At
    <3>2. shell[t] = "none" /\ helper[t] = "none" /\ cause[t] # "eof"
      BY <1>o, <2>1 DEF OutputOf, Early
    <3>3. QED
      BY <1>0, <2>1, <2>2, <3>1, <3>2
  <2>6. held[t] = <<>> /\ ~shcld[t] /\ (cut[t] => Unix /\ hungup[t])
    <3>1. shell[t] = "none" /\ produced[t] = 0
      BY <1>o, <2>1 DEF OutputOf, Early
    <3>2. Len(held[t]) = 0
      <4>1. PICK p \in Nat : p + Len(held[t]) + Len(fromsh[t]) = produced[t]
        BY <1>i, Zenon DEF Pieces
      <4>2. Len(held[t]) \in Nat /\ Len(fromsh[t]) \in Nat
        BY <1>v, LenProperties
      <4>3. \A x, y, z \in Nat : x + y + z = 0 => y = 0
        OBVIOUS
      <4>4. QED
        BY <3>1, <4>1, <4>2, <4>3, Zenon
    <3>3. held[t] = <<>>
      BY <1>v, <3>2, EmptySeq
    <3>4. ~shcld[t]
      BY <1>o, <3>1 DEF OutputOf
    <3>5. cut[t] => Unix /\ hungup[t]
      BY <1>o, <3>1 DEF OutputOf
    <3>6. QED
      BY <3>3, <3>4, <3>5
  <2>7. ShellOf(t) \in ends'[t]["printers"]
    <3>1. Proc(t) \in ends[t]["printers"] /\ "printers" \in Ends /\ Keeps("printers")
      BY <1>o, <2>1 DEF OutputOf, Ends, Keeps
    <3>2. QED
      BY <2>1, <3>1 DEF PassedOn
  <2>8. OutputOf(t)'
    BY <1>h, <1>i, <1>u, <1>x, <2>1, <2>5, <2>6, <2>7 DEF OutputOf, Early
  <2>9. QED
    BY <2>4, <2>8
<1>9. ASSUME Draw(t), UNCHANGED <<shell, ends, shcld, cause>>, held[t] = <<>>, shell[t] # "none",
             cause[t] # "eof",
             \/ Unix /\ task[t].pc = "select" /\ Goto(t, "send") /\ helper' = helper
             \/ helper[t] = "read" /\ task' = task /\ helper' = [helper EXCEPT ![t] = "send"]
      PROVE  Goal
  <2>1. PICK n \in 1 .. Len(fromsh[t]) :
          /\ held' = [held EXCEPT ![t] = SubSeq(fromsh[t], 1, n)]
          /\ fromsh' = [fromsh EXCEPT ![t] = SubSeq(fromsh[t], n + 1, Len(fromsh[t]))]
    BY <1>9 DEF Draw
  <2>2. UNCHANGED <<produced, relayed, cut>>
    BY <1>9 DEF Draw
  <2> DEFINE h == SubSeq(fromsh[t], 1, n)
             f == SubSeq(fromsh[t], n + 1, Len(fromsh[t]))
  <2>3. /\ h \in Seq(Nat) /\ f \in Seq(Nat)
        /\ Pieces(relayed[t], h, f, produced[t], cut[t])
    <3>1. Pieces(relayed[t], <<>>, fromsh[t], produced[t], cut[t])
      BY <1>9, <1>i
    <3>2. QED
      BY <1>v, <3>1, PiecesDraw
  <2> HIDE DEF h, f
  <2>4. held' = [held EXCEPT ![t] = h] /\ fromsh' = [fromsh EXCEPT ![t] = f]
    BY <2>1 DEF h, f
  <2>5. /\ helper' \in [Conns -> Words] /\ \A u \in Conns \ {t} : helper'[u] = helper[u]
        /\ helper'[t] # "read" /\ (helper'[t] # "none" => NT)
    <3>1. CASE helper' = helper /\ Unix
      BY <1>0, <1>o, <1>u, <3>1 DEF OutputOf
    <3>2. CASE helper[t] = "read" /\ helper' = [helper EXCEPT ![t] = "send"]
      BY <1>0, <1>o, <3>2 DEF OutputOf, Words
    <3>3. QED
      BY <1>9, <3>1, <3>2
  <2>6. Counted' /\ Others
    <3>1. /\ held' \in [Conns -> Seq(Nat)] /\ fromsh' \in [Conns -> Seq(Nat)]
          /\ \A u \in Conns \ {t} : held'[u] = held[u] /\ fromsh'[u] = fromsh[u]
      BY <1>0, <2>3, <2>4
    <3>2. UNCHANGED <<shell, shcld, cause>>
      BY <1>9
    <3>3. QED
      BY <1>0, <1>h, <1>k, <2>2, <2>5, <3>1, <3>2 DEF Counted, SameOutput
  <2>7. \/ Unix /\ task'[t].pc = "send"
        \/ NT /\ task'[t].pc = task[t].pc
    BY <1>9, <1>g, <1>o, <1>p DEF OutputOf
  <2>8. held'[t] = h /\ fromsh'[t] = f
    BY <1>0, <2>4
  <2>9. OutputOf(t)'
    BY <1>9, <1>h, <1>o, <1>u, <1>x, <2>2, <2>3, <2>5, <2>7, <2>8 DEF OutputOf, Early, Ended
  <2>10. QED
    BY <2>6, <2>9
<1>10. CASE ReadShell(t)
  <2>1. Draw(t) /\ UNCHANGED <<shell, ends, shcld, cause>>
        /\ Unix /\ task[t].pc = "select" /\ Goto(t, "send") /\ helper' = helper
    BY <1>10 DEF ReadShell
  <2>2. held[t] = <<>> /\ shell[t] # "none" /\ cause[t] # "eof"
    BY <1>o, <2>1 DEF OutputOf, Ended
  <2>3. QED
    BY <1>9, <2>1, <2>2
<1>11. CASE HelperReads(t)
  <2>1. Draw(t) /\ UNCHANGED <<shell, ends, shcld, cause, task>>
        /\ helper[t] = "read" /\ helper' = [helper EXCEPT ![t] = "send"]
    BY <1>11 DEF HelperReads
  <2>2. held[t] = <<>> /\ shell[t] # "none" /\ cause[t] # "eof"
    BY <1>o, <2>1 DEF OutputOf
  <2>3. QED
    BY <1>9, <2>1, <2>2
<1>12. ASSUME NEW m \in 0 .. Len(held[t]), Passes(t, m), cause' = cause, shell' = shell, ends' = ends,
              \/ m = Len(held[t]) /\ cut' = cut
              \/ cut' = [cut EXCEPT ![t] = TRUE] /\ Unix /\ (shell[t] = "exited" \/ hungup[t]),
              shcld' = shcld \/ shcld' = [shcld EXCEPT ![t] = FALSE],
              \/ task[t].pc = "send" /\ Goto(t, "select") /\ helper' = helper
              \/ helper[t] = "send" /\ task' = task /\ helper' = [helper EXCEPT ![t] = "read"]
       PROVE  Goal
  <2> DEFINE r == relayed[t] \o SubSeq(held[t], 1, m)
  <2>1. /\ relayed' = [relayed EXCEPT ![t] = r] /\ held' = [held EXCEPT ![t] = <<>>]
        /\ UNCHANGED <<produced, fromsh>>
    BY <1>12 DEF Passes
  <2>2. /\ cut' \in [Conns -> BOOLEAN] /\ \A u \in Conns \ {t} : cut'[u] = cut[u]
        /\ ~cut'[t] => m = Len(held[t]) /\ ~cut[t]
        /\ cut'[t] => Unix /\ (shell[t] = "exited" \/ hungup[t])
    <3>1. cut[t] => Unix /\ (shell[t] = "exited" \/ hungup[t])
      BY <1>o DEF OutputOf
    <3>2. QED
      BY <1>0, <1>12, <3>1
  <2>3. r \in Seq(Nat) /\ <<>> \in Seq(Nat)
        /\ Pieces(r, <<>>, fromsh[t], produced[t], cut'[t])
    BY <1>12, <1>i, <1>v, <2>2, PiecesPass
  <2> HIDE DEF r
  <2>4. /\ helper' \in [Conns -> Words] /\ \A u \in Conns \ {t} : helper'[u] = helper[u]
        /\ helper'[t] # "none" => NT
        /\ helper'[t] # "none" <=> helper[t] # "none"
    BY <1>0, <1>12, <1>o DEF OutputOf, Words
  <2>5. shcld' \in [Conns -> BOOLEAN] /\ \A u \in Conns : shcld'[u] => shcld[u]
    BY <1>0, <1>12
  <2>6. Counted' /\ Others
    <3>1. /\ held' \in [Conns -> Seq(Nat)] /\ relayed' \in [Conns -> Seq(Nat)]
          /\ \A u \in Conns \ {t} : held'[u] = held[u] /\ relayed'[u] = relayed[u]
      BY <1>0, <2>1, <2>3
    <3>2. UNCHANGED <<shell, cause, produced, fromsh>>
      BY <1>12, <2>1
    <3>3. QED
      BY <1>0, <1>h, <1>k, <2>2, <2>4, <2>5, <3>1, <3>2 DEF Counted, SameOutput
  <2>7. \/ task[t].pc = "send" /\ task'[t].pc = "select"
        \/ helper[t] = "send" /\ task'[t].pc = task[t].pc /\ NT
    BY <1>12, <1>g, <1>o, <1>p DEF OutputOf
  <2>8. held'[t] = <<>> /\ relayed'[t] = r
    BY <1>0, <2>1
  <2>9. cause[t] # "eof"
    BY <1>o, <1>t, <2>7 DEF OutputOf, Ended
  <2>10. OutputOf(t)'
    BY <1>12, <1>h, <1>o, <1>u, <1>x, <2>1, <2>2, <2>3, <2>4, <2>5, <2>7, <2>8, <2>9
    DEF OutputOf, Early
  <2>11. QED
    BY <2>6, <2>10
<1>13. CASE SendCaller(t) \/ HelperSends(t)
  <2>1. Passes(t, Len(held[t])) /\ UNCHANGED <<cause, shell, ends, cut, shcld>>
        /\ \/ task[t].pc = "send" /\ Goto(t, "select") /\ helper' = helper
           \/ helper[t] = "send" /\ task' = task /\ helper' = [helper EXCEPT ![t] = "read"]
    BY <1>13 DEF SendCaller, HelperSends
  <2>2. Len(held[t]) \in 0 .. Len(held[t])
    BY <1>v, LenProperties
  <2>3. QED
    BY <1>12, <2>1, <2>2
<1>14. CASE SendShort(t)
  <2>1. PICK m \in 0 .. Len(held[t]) - 1 : Passes(t, m)
    BY <1>14 DEF SendShort
  <2>2. /\ UNCHANGED <<cause, shell, ends, helper>> /\ task[t].pc = "send" /\ Goto(t, "select")
        /\ cut' = [cut EXCEPT ![t] = TRUE]
        /\ \/ shcld[t] /\ shcld' = [shcld EXCEPT ![t] = FALSE]
           \/ hungup[task[t].msock] /\ shcld' = shcld
    BY <1>14 DEF SendShort
  <2>3. Unix /\ task[t].msock = t
    <3>1. Live(t)
      BY <2>2 DEF Live, Ended
    <3>2. task[t].msock \in Conns /\ Unix /\ task[t].msock \in {0, t}
      BY <1>t, <2>2, <3>1 DEF TasksOK
    <3>3. QED
      BY <3>2, Sizes
  <2>4. shell[t] = "exited" \/ hungup[t]
    BY <1>o, <2>2, <2>3 DEF OutputOf
  <2>5. m \in 0 .. Len(held[t])
    BY <1>v, LenProperties
  <2>6. QED
    BY <1>12, <2>1, <2>2, <2>3, <2>4, <2>5
<1>15. CASE ReadShellEnd(t) \/ HelperReadsEnd(t) \/ HelperSendFails(t)
  <2>1. UNCHANGED <<shell, produced, fromsh, held, relayed, cut, ends, shcld>>
    BY <1>15 DEF ReadShellEnd, HelperReadsEnd, HelperSendFails
  <2>2. \/ /\ Unix /\ task[t].pc = "select" /\ ShellOver(t) /\ Goto(t, "finish")
           /\ helper' = helper /\ cause' = [cause EXCEPT ![t] = "eof"]
        \/ /\ helper[t] \in {"read", "send"} /\ helper' = [helper EXCEPT ![t] = "gone"]
           /\ task' = task
           /\ \/ helper[t] = "read" /\ ShellOver(t) /\ cause' = [cause EXCEPT ![t] = "eof"]
              \/ cause' = [cause EXCEPT ![t] = cause[t]]
    <3>1. CASE ReadShellEnd(t)
      BY <3>1 DEF ReadShellEnd, Quits
    <3>2. CASE HelperReadsEnd(t)
      BY <3>2 DEF HelperReadsEnd, HelperGoes
    <3>3. CASE HelperSendFails(t)
      BY <1>0, <3>3 DEF HelperSendFails, HelperGoes
    <3>4. QED
      BY <1>15, <3>1, <3>2, <3>3
  <2>3. /\ helper' \in [Conns -> Words] /\ cause' \in [Conns -> Words]
        /\ \A u \in Conns \ {t} : helper'[u] = helper[u] /\ cause'[u] = cause[u]
    BY <1>0, <2>2 DEF Words
  <2>4. Counted' /\ Others
    BY <1>0, <1>h, <1>k, <2>1, <2>3 DEF Counted, SameOutput
  <2>5. /\ shell[t] # "none" /\ helper'[t] \notin {"read", "send"}
        /\ helper'[t] # "none" => NT
        /\ task'[t].pc = task[t].pc \/ (Unix /\ task[t].pc = "select" /\ task'[t].pc = "finish")
    BY <1>0, <1>g, <1>o, <1>p, <1>u, <2>2 DEF OutputOf
  <2>6. cause'[t] = "eof" /\ cause[t] # "eof" =>
          ShellOver(t) /\ held[t] = <<>> /\ (Unix => task'[t].pc = "finish")
    <3>1. CASE Unix /\ task[t].pc = "select" /\ ShellOver(t) /\ Goto(t, "finish")
      BY <1>g, <1>o, <1>p, <3>1 DEF OutputOf
    <3>2. CASE helper[t] = "read" /\ ShellOver(t)
      BY <1>o, <1>u, <3>2 DEF OutputOf
    <3>3. CASE cause' = [cause EXCEPT ![t] = cause[t]]
      BY <1>0, <3>3
    <3>4. QED
      BY <2>2, <3>1, <3>2, <3>3
  <2>7. ShellOver(t) => fromsh[t] = <<>> /\ shell[t] \notin {"runs"}
    BY <1>o DEF ShellOver, OutputOf
  <2>8. shell[t] \in {"none", "runs", "exited"}
    BY <1>o DEF OutputOf
  <2>9. OutputOf(t)'
    BY <1>h, <1>i, <1>o, <1>u, <1>x, <2>1, <2>5, <2>6, <2>7, <2>8 DEF OutputOf, Early
  <2>10. QED
    BY <2>4, <2>9
<1>16. CASE ShellPrints(t)
  <2> DEFINE f == Append(fromsh[t], produced[t] + 1)
  <2>1. /\ UNCHANGED <<shell, helper, cause, held, relayed, cut, shcld, ends, task>>
        /\ shell[t] = "runs" /\ produced' = [produced EXCEPT ![t] = produced[t] + 1]
        /\ fromsh' = [fromsh EXCEPT ![t] = f]
    BY <1>16 DEF ShellPrints
  <2>2. f \in Seq(Nat) /\ Pieces(relayed[t], held[t], f, produced[t] + 1, cut[t])
        /\ produced[t] + 1 \in Nat
    BY <1>i, <1>v, PiecesPrint
  <2> HIDE DEF f
  <2>3. Counted' /\ Others
    BY <1>0, <1>h, <1>k, <2>1, <2>2 DEF Counted, SameOutput
  <2>4. produced'[t] = produced[t] + 1 /\ fromsh'[t] = f
    BY <1>0, <2>1
  <2>5. OutputOf(t)'
    BY <1>h, <1>o, <1>u, <1>x, <2>1, <2>2, <2>4 DEF OutputOf
  <2>6. QED
    BY <2>3, <2>5
<1>17. CASE ShellExits(t) \/ ShellSeesEnd(t)
  <2>1. /\ UNCHANGED <<helper, cause, produced, fromsh, held, relayed, cut, task>>
        /\ shell[t] = "runs" /\ shell' = [shell EXCEPT ![t] = "exited"]
        /\ \E b \in BOOLEAN : shcld' = [shcld EXCEPT ![t] = b]
        /\ ends' = [u \in Conns |-> [e \in Ends |-> ends[u][e] \ {ShellOf(t)}]]
    BY <1>17 DEF ShellExits, ShellSeesEnd, ShellGoes
  <2>2. /\ shell' \in [Conns -> Words] /\ \A u \in Conns \ {t} : shell'[u] = shell[u]
        /\ shcld' \in [Conns -> BOOLEAN] /\ \A u \in Conns \ {t} : shcld'[u] = shcld[u]
        /\ shell'[t] = "exited"
    BY <1>0, <2>1 DEF Words
  <2>3. Counted' /\ Others
    BY <1>0, <1>h, <1>k, <2>1, <2>2 DEF Counted, SameOutput
  <2>4. task[t].pc # "spawn"
    BY <1>o, <2>1 DEF OutputOf, Early
  <2>5. OutputOf(t)'
    BY <1>h, <1>i, <1>o, <1>u, <1>x, <2>1, <2>2, <2>4 DEF OutputOf
  <2>6. QED
    BY <2>3, <2>5
<1>18. QED
  BY <1>2, <1>3, <1>4, <1>5, <1>6, <1>7, <1>8, <1>10, <1>11, <1>13, <1>14, <1>15, <1>16,
     <1>17 DEF StepOf, Dialog, LineNext, SessionNext

(* Every step keeps the output whole, as far as no send() is cut short. *)
LEMMA NextOutput ==
  ASSUME MainOK, TasksOK, OutputOK, [Next]_vars PROVE OutputOK'
<1>0. task \in [Conns -> TaskSet] /\ Counted /\ \A u \in Conns : OutputOf(u)
  BY DEF TasksOK, OutputOK
<1>s. scene' = scene
  BY SceneKept
<1>1. ASSUME UNCHANGED shellVars, hungup' \in [Conns -> BOOLEAN],
             \A u \in Conns : hungup[u] => hungup'[u],
             \A u \in Conns : \/ task'[u].pc = task[u].pc
                              \/ task[u].pc \in Early /\ task'[u].pc \in Early \ {"spawn"}
                              \/ task'[u].pc \in {"finish", "zombie", "reaped", "unlisted", "gone"}
      PROVE  OutputOK'
  <2>1. \A u \in Conns : SameOutput(u) /\ KeptEnds(u) /\ cause'[u] = cause[u]
    BY <1>1 DEF SameOutput, KeptEnds
  <2>2. \A u \in Conns : OutputOf(u)'
    BY <1>0, <1>1, <1>s, <2>1, OutputKept
  <2>3. Counted'
    BY <1>0, <1>1 DEF Counted
  <2>4. QED
    BY <2>2, <2>3 DEF OutputOK
<1>h. hungup \in [Conns -> BOOLEAN]
  BY <1>0 DEF Counted
<1>2. CASE MainNext /\ UNCHANGED <<callVars, shellVars>>
  <2>1. \A u \in Conns :
          \/ Same(u)
          \/ u = cur /\ pc = "start" /\ pc' = "record" /\ cur' = cur /\ At(u, "start")
          \/ task[u].pc = "zombie" /\ (At(u, "reaped") \/ At(u, "unlisted"))
          \/ NT /\ pc' = "exited" /\ Live(u) /\ At(u, "gone")
    BY <1>0, <1>2, MainTask
  <2>2. pc = "start" => \A u \in Conns : u = cur => task[u].pc = "none"
    BY DEF TasksOK
  <2>3. \A u \in Conns : \/ task'[u].pc = task[u].pc
                         \/ task[u].pc \in Early /\ task'[u].pc \in Early \ {"spawn"}
                         \/ task'[u].pc \in {"finish", "zombie", "reaped", "unlisted", "gone"}
    BY <2>1, <2>2 DEF Same, At, Early
  <2>4. QED
    BY <1>1, <1>2, <1>h, <2>3
<1>3. CASE CallNext /\ UNCHANGED <<offspringVars, shellVars>>
  <2>1. \/ hungup' = hungup
        \/ \E c \in Conns : hungup' = [hungup EXCEPT ![c] = TRUE]
    BY <1>3 DEF CallNext, HangUp, Send
  <2>2. hungup' \in [Conns -> BOOLEAN] /\ \A u \in Conns : hungup[u] => hungup'[u]
    BY <1>h, <2>1
  <2>3. QED
    BY <1>1, <1>3, <2>2
<1>4. CASE UNCHANGED vars
  BY <1>1, <1>4, <1>h DEF vars
<1>5. ASSUME NEW t \in Conns, StepOf(t) PROVE OutputOK'
  <2>1. /\ Counted' /\ OutputOf(t)'
        /\ \A u \in Conns \ {t} : SameOutput(u) /\ cause'[u] = cause[u]
    BY <1>5, DialogOutput
  <2>2. \A u \in Conns \ {t} : OutputOf(u)'
    <3>1. \A u \in Conns \ {t} : task'[u].pc = task[u].pc
      BY <1>5, DialogTask DEF Same
    <3>2. \A u \in Conns : KeptEnds(u)
      BY <1>5, DialogEnds
    <3>3. QED
      BY <1>0, <1>s, <2>1, <3>1, <3>2, OutputKept
  <2>3. QED
    BY <2>1, <2>2 DEF OutputOK
<1>6. QED
  BY <1>2, <1>3, <1>4, <1>5, NextIs

-----------------------------------------------------------------------------
(* The bytes.  The first end of line is changed, and the byte behind it.    *)
LEMMA EndLineIs ==
  ASSUME NEW s \in Seq(Bytes)
  PROVE  /\ EndLine(s) \in Seq(Piped) /\ Len(EndLine(s)) = Len(s)
         /\ \A k \in 1 .. Len(s) :
              \/ EndLine(s)[k] = s[k]
              \/ EndLine(s)[k] = "lf" /\ s[k] = "cr"
              \/ EndLine(s)[k] = "nul" /\ k > 1 /\ s[k - 1] \in {"cr", "lf"}
<1> DEFINE eols == {k \in DOMAIN s : s[k] \in {"cr", "lf"}}
           n == Len(s)
           first == CHOOSE i \in eols : \A k \in eols : i <= k
<1>1. n \in Nat /\ DOMAIN s = 1 .. n /\ \A k \in 1 .. n : s[k] \in Bytes
  BY LenProperties
<1>2. CASE eols = {}
  <2>1. EndLine(s) = s
    BY <1>2 DEF EndLine
  <2>2. s \in Seq(Piped)
    BY <1>1 DEF Piped
  <2>3. QED
    BY <2>1, <2>2
<1>3. CASE eols # {}
  <2>1. PICK i \in eols : \A k \in eols : i <= k
    <3>1. eols \subseteq Nat
      BY <1>1
    <3>2. QED
      BY <1>3, <3>1, FirstExists
  <2>2. first \in eols
    BY <2>1
  <2>3. EndLine(s) = Edited(s, first)
    BY <1>3 DEF EndLine
  <2> HIDE DEF first
  <2>4. EndLine(s) = [k \in 1 .. n |-> IF k = first THEN "lf"
                                      ELSE IF k = first + 1 THEN "nul" ELSE s[k]]
    BY <1>1, <2>3 DEF Edited
  <2> HIDE DEF n
  <2>5. EndLine(s) \in [1 .. n -> Piped]
    BY <1>1, <2>4 DEF Piped, Bytes
  <2>6. EndLine(s) \in Seq(Piped) /\ Len(EndLine(s)) = n
    BY <1>1, <2>4, <2>5
  <2>7. first \in 1 .. n /\ s[first] \in {"cr", "lf"}
    BY <1>1, <2>2
  <2>8. ASSUME NEW k \in 1 .. n
        PROVE  \/ EndLine(s)[k] = s[k]
               \/ EndLine(s)[k] = "lf" /\ s[k] = "cr"
               \/ EndLine(s)[k] = "nul" /\ k > 1 /\ s[k - 1] \in {"cr", "lf"}
    <3>1. EndLine(s)[k] = IF k = first THEN "lf" ELSE IF k = first + 1 THEN "nul" ELSE s[k]
      BY <2>4
    <3>2. k = first + 1 => k > 1 /\ k - 1 = first
      BY <1>1, <2>7
    <3>3. QED
      BY <2>7, <3>1, <3>2
  <2>9. QED
    BY <2>6, <2>8 DEF n
<1>4. QED
  BY <1>2, <1>3

(* What has come from connection c, and is read.                            *)
LEMMA ArrivedIs ==
  ASSUME Typed, NEW c \in Conns, taken[c] <= Len(sent[c]), NEW n \in 1 .. Len(Arrived(c))
  PROVE  /\ n \in Nat /\ n >= 1 /\ taken[c] + n <= Len(sent[c])
         /\ SubSeq(Arrived(c), 1, n) \in Seq(Bytes)
         /\ Len(SubSeq(Arrived(c), 1, n)) = n
         /\ \A k \in 1 .. n : SubSeq(Arrived(c), 1, n)[k] = sent[c][taken[c] + k]
<1>1. sent[c] \in Seq(Bytes) /\ taken[c] \in Nat
  BY DEF Typed
<1>2. Len(sent[c]) \in Nat /\ \A i \in 1 .. Len(sent[c]) : sent[c][i] \in Bytes
  BY <1>1, LenProperties
<1>3. \A i \in (taken[c] + 1) .. Len(sent[c]) : sent[c][i] \in Bytes
  BY <1>1, <1>2
<1>4. /\ Arrived(c) \in Seq(Bytes)
      /\ Len(Arrived(c)) = IF taken[c] + 1 <= Len(sent[c]) THEN Len(sent[c]) - (taken[c] + 1) + 1 ELSE 0
      /\ \A i \in 1 .. Len(sent[c]) - (taken[c] + 1) + 1 : Arrived(c)[i] = sent[c][taken[c] + 1 + i - 1]
  BY <1>1, <1>2, <1>3, SubSeqProperties DEF Arrived
<1>5. /\ Len(Arrived(c)) = Len(sent[c]) - taken[c]
      /\ \A i \in 1 .. Len(Arrived(c)) : Arrived(c)[i] = sent[c][taken[c] + i]
  <2>1. Len(Arrived(c)) = Len(sent[c]) - taken[c]
    BY <1>1, <1>2, <1>4
  <2>2. ASSUME NEW i \in 1 .. Len(Arrived(c)) PROVE Arrived(c)[i] = sent[c][taken[c] + i]
    <3>1. /\ i \in 1 .. Len(sent[c]) - (taken[c] + 1) + 1
          /\ taken[c] + 1 + i - 1 = taken[c] + i
      BY <1>1, <1>2, <2>1
    <3>2. Arrived(c)[i] = sent[c][taken[c] + 1 + i - 1]
      BY <1>4, <3>1
    <3>3. QED
      BY <3>1, <3>2
  <2>3. QED
    BY <2>1, <2>2
<1>6. n \in Nat /\ n >= 1 /\ n <= Len(Arrived(c)) /\ taken[c] + n <= Len(sent[c])
  BY <1>1, <1>2, <1>5
<1>7. \A i \in 1 .. n : Arrived(c)[i] \in Bytes
  BY <1>4, <1>6, LenProperties
<1>8. /\ SubSeq(Arrived(c), 1, n) \in Seq(Bytes)
      /\ Len(SubSeq(Arrived(c), 1, n)) = IF 1 <= n THEN n - 1 + 1 ELSE 0
      /\ \A i \in 1 .. n - 1 + 1 : SubSeq(Arrived(c), 1, n)[i] = Arrived(c)[1 + i - 1]
  BY <1>6, <1>7, SubSeqProperties
<1>9. \A k \in 1 .. n : SubSeq(Arrived(c), 1, n)[k] = sent[c][taken[c] + k]
  BY <1>5, <1>6, <1>8
<1>10. QED
  BY <1>6, <1>8, <1>9

(* Only recv() and write() move bytes; a step that does neither does not    *)
(* take the session from one to the other.                                  *)
LEMMA DialogBytes ==
  ASSUME MainOK, TasksOK, NEW t \in Conns, StepOf(t)
  PROVE  \/ Receive(t) /\ UNCHANGED shellVars
         \/ Recv(t)
         \/ WriteShell(t)
         \/ /\ UNCHANGED <<sent, taken, written, buf>>
            /\ ~(task[t].pc = "select" /\ task'[t].pc = "write")
            /\ ~(task[t].pc = "write" /\ task'[t].pc = "select")
<1> DEFINE Quiet == /\ UNCHANGED <<sent, taken, written, buf>>
                    /\ ~(task[t].pc = "select" /\ task'[t].pc = "write")
                    /\ ~(task[t].pc = "write" /\ task'[t].pc = "select")
<1>t. task \in [Conns -> TaskSet]
  BY DEF TasksOK
<1>p. {"finish", "send"} \subseteq Places
  BY DEF Places
<1>1. ASSUME UNCHANGED <<sent, taken, written, buf>>,
             \/ task' = task
             \/ task[t].pc \notin {"select", "write"}
             \/ Goto(t, "finish")
             \/ Goto(t, "send")
             \/ Live(t) /\ Finish(t)
             \/ \E told : Die(t, told)
      PROVE  Quiet
  <2>1. \/ task' = task
        \/ task[t].pc \notin {"select", "write"}
        \/ task'[t].pc \in {"finish", "send", "zombie", "gone", "unlisted"}
    BY <1>1, <1>t, <1>p, PcSet, FinishTask, DieTask DEF Goto, At, Leaves
  <2>2. QED
    BY <1>1, <2>1
<1>2. CASE (CopyArguments(t) \/ SetHandlers(t) \/ BeReady(t)) /\ UNCHANGED <<callVars, shellVars>>
  BY <1>1, <1>2 DEF CopyArguments, SetHandlers, BeReady
<1>3. CASE EndOfLines(t) /\ UNCHANGED shellVars
  BY <1>1, <1>3 DEF EndOfLines
<1>4. CASE MakePipes(t) \/ StartShell(t) \/ NoHelper(t) \/ ClosePipes(t) \/ NoShell(t)
           \/ RecvEnd(t) \/ ReadShell(t) \/ ReadShellEnd(t)
           \/ SendCaller(t) \/ SendShort(t) \/ SelectEnds(t) \/ ShellDied(t)
  <2>1. UNCHANGED <<sent, taken, written, buf>>
    BY <1>4 DEF MakePipes, StartShell, NoHelper, Spawn, ClosePipes, NoShell, RecvEnd,
       ReadShell, Draw, ReadShellEnd, SendCaller, SendShort, Passes, SelectEnds, ShellDied
  <2>2. \/ task' = task
        \/ task[t].pc \notin {"select", "write"}
        \/ Goto(t, "finish")
        \/ Goto(t, "send")
    BY <1>4 DEF MakePipes, StartShell, NoHelper, Spawn, ClosePipes, NoShell, RecvEnd,
       ReadShell, ReadShellEnd, SendCaller, SendShort, SelectEnds, ShellDied, Quits
  <2>3. QED
    BY <1>1, <2>1, <2>2
<1>5. CASE SendFails(t) \/ FinishSession(t)
  BY <1>1, <1>5 DEF SendFails, FinishSession
<1>6. CASE WriteFails(t)
  <2>1. UNCHANGED <<sent, taken, written, buf>> /\ task[t].pc = "write"
        /\ (Finish(t) \/ Goto(t, "finish"))
    BY <1>6 DEF WriteFails, SessionDies, Quits
  <2>2. Live(t)
    BY <2>1 DEF Live, Ended
  <2>3. QED
    BY <1>1, <2>1, <2>2
<1>7. CASE SessionTold(t)
  BY <1>1, <1>7 DEF SessionTold, Told
<1>8. CASE HelperReads(t) \/ HelperReadsEnd(t) \/ HelperSends(t) \/ HelperSendFails(t)
           \/ ShellReads(t) \/ ShellPrints(t) \/ ShellExits(t) \/ ShellSeesEnd(t)
  BY <1>1, <1>8 DEF HelperReads, HelperReadsEnd, HelperSends, HelperSendFails,
     HelperGoes, Draw, Passes, ShellReads, ShellPrints, ShellExits, ShellSeesEnd, ShellGoes
<1>9. QED
  BY <1>2, <1>3, <1>4, <1>5, <1>6, <1>7, <1>8 DEF StepOf, Dialog, LineNext, SessionNext

(* What the caller types later does not move what was typed before.         *)
LEMMA InPlaceKept ==
  ASSUME NEW s \in Seq(Piped), NEW typed \in Seq(Bytes), NEW more, NEW n \in Nat,
         n + Len(s) <= Len(typed), \A k \in 1 .. Len(typed) : more[k] = typed[k],
         InPlace(s, typed, n)
  PROVE  InPlace(s, more, n)
<1>1. Len(s) \in Nat /\ Len(typed) \in Nat
  BY LenProperties
<1>2. ASSUME NEW k \in 1 .. Len(s)
      PROVE  \/ s[k] = more[n + k]
             \/ s[k] = "lf" /\ more[n + k] = "cr"
             \/ s[k] = "nul" /\ n + k > 1 /\ more[n + k - 1] \in {"cr", "lf"}
  <2>1. n + k \in 1 .. Len(typed) /\ (n + k > 1 => n + k - 1 \in 1 .. Len(typed))
    BY <1>1
  <2>2. more[n + k] = typed[n + k] /\ (n + k > 1 => more[n + k - 1] = typed[n + k - 1])
    BY <2>1
  <2>3. QED
    BY <2>2 DEF InPlace
<1>3. QED
  BY <1>2 DEF InPlace

(* Two pieces one behind the other.                                         *)
LEMMA InPlaceJoined ==
  ASSUME NEW s \in Seq(Piped), NEW r \in Seq(Piped), NEW typed,
         InPlace(s, typed, 0), InPlace(r, typed, Len(s))
  PROVE  InPlace(s \o r, typed, 0)
<1>1. /\ Len(s) \in Nat /\ Len(r) \in Nat /\ Len(s \o r) = Len(s) + Len(r)
      /\ \A i \in 1 .. Len(s) + Len(r) : (s \o r)[i] = IF i <= Len(s) THEN s[i] ELSE r[i - Len(s)]
  BY ConcatProperties, LenProperties
<1>2. ASSUME NEW k \in 1 .. Len(s \o r)
      PROVE  \/ (s \o r)[k] = typed[0 + k]
             \/ (s \o r)[k] = "lf" /\ typed[0 + k] = "cr"
             \/ (s \o r)[k] = "nul" /\ 0 + k > 1 /\ typed[0 + k - 1] \in {"cr", "lf"}
  <2>1. CASE k <= Len(s)
    <3>1. k \in 1 .. Len(s) /\ (s \o r)[k] = s[k]
      BY <1>1, <2>1
    <3>2. QED
      BY <3>1 DEF InPlace
  <2>2. CASE ~(k <= Len(s))
    <3>1. /\ k - Len(s) \in 1 .. Len(r) /\ (s \o r)[k] = r[k - Len(s)]
          /\ Len(s) + (k - Len(s)) = 0 + k
      BY <1>1, <2>2
    <3>2. QED
      BY <3>1 DEF InPlace
  <2>3. QED
    BY <2>1, <2>2
<1>3. QED
  BY <1>2 DEF InPlace

(* A socket one task has alone it had alone before. *)
LEMMA AloneBefore ==
  ASSUME NEW u \in Conns,
         \A v \in Conns : task'[v].msock = task[v].msock \/ task[v].msock = 0
  PROVE  /\ (\A v \in Conns : task'[v].msock # u) => \A v \in Conns : task[v].msock # u
         /\ Alone(u)' => Alone(u) \/ (task[u].msock = 0 /\ \A v \in Conns : task[v].msock # u)
<1>1. u # 0
  BY Sizes
<1>2. QED
  BY <1>1 DEF Alone

(* What a step of someone else leaves of the bytes of a connection. *)
LEMMA BytesKept ==
  ASSUME TasksOK, Typed, NEW u \in Conns, BytesOf(u),
         \A v \in Conns : task'[v].msock = task[v].msock \/ task[v].msock = 0,
         written'[u] = written[u], buf'[u] = buf[u], taken'[u] = taken[u],
         sent'[u] \in Seq(Bytes), Len(sent[u]) <= Len(sent'[u]),
         \A k \in 1 .. Len(sent[u]) : sent'[u][k] = sent[u][k],
         \/ Same(u)
         \/ /\ \/ task[u].pc = "none" /\ task'[u].pc = "start"
               \/ task'[u].pc \in {"zombie", "reaped", "unlisted", "gone"}
               \/ /\ <<task[u].pc, task'[u].pc>> \in Path
                  /\ ~(task[u].pc = "select" /\ task'[u].pc = "write")
                  /\ ~(task[u].pc = "write" /\ task'[u].pc = "select")
            /\ task'[u].msock = task[u].msock
         \/ task[u].pc = "start" /\ task'[u].pc = "copied"
  PROVE  BytesOf(u)'
<1>0. /\ sent[u] \in Seq(Bytes) /\ taken[u] \in Nat
      /\ written[u] \in Seq(Piped) /\ buf[u] \in Seq(Piped)
      /\ Len(written[u]) \in Nat /\ Len(buf[u]) \in Nat /\ Len(sent[u]) \in Nat
      /\ Len(sent'[u]) \in Nat
  BY LenProperties DEF Typed
<1>1. taken'[u] <= Len(sent'[u])
  BY <1>0 DEF BytesOf
<1>2. task'[u].pc \in Early => written'[u] = <<>>
  <2>1. task'[u].pc \in Early => task[u].pc \in Early
    BY DEF Same, Path, Early
  <2>2. QED
    BY <2>1 DEF BytesOf
<1>3. (\A v \in Conns : task'[v].msock # u) => taken'[u] = 0
  BY AloneBefore DEF BytesOf
<1>4. ASSUME Alone(u)'
      PROVE  /\ Len(written[u]) <= taken[u] /\ InPlace(written[u], sent'[u], 0)
             /\ task'[u].pc \in {"copied", "handled", "pipes", "spawn", "close", "select", "send"} =>
                  Len(written[u]) = taken[u]
             /\ task'[u].pc = "write" =>
                  /\ Len(written[u]) + Len(buf[u]) = taken[u]
                  /\ InPlace(buf[u], sent'[u], Len(written[u]))
  <2>1. CASE task[u].pc = "start" /\ task'[u].pc = "copied"
    <3>1. task[u].msock = 0
      BY <2>1 DEF TasksOK
    <3>2. \A v \in Conns : task[v].msock # u
      BY <1>4, <3>1, AloneBefore, Sizes DEF Alone
    <3>3. taken[u] = 0 /\ written[u] = <<>> /\ Len(written[u]) = 0
      BY <2>1, <3>2 DEF BytesOf, Early
    <3>4. InPlace(written[u], sent'[u], 0)
      BY <3>3 DEF InPlace
    <3>5. QED
      BY <2>1, <3>3, <3>4
  <2>2. CASE ~(task[u].pc = "start" /\ task'[u].pc = "copied")
    <3>1. task'[u].msock = task[u].msock
      BY <2>2 DEF Same
    <3>2. Alone(u)
      BY <1>4, <3>1, AloneBefore, Sizes DEF Alone
    <3>3. Len(written[u]) <= taken[u] /\ InPlace(written[u], sent[u], 0)
      BY <3>2 DEF BytesOf
    <3>4. InPlace(written[u], sent'[u], 0)
      <4>1. 0 + Len(written[u]) <= Len(sent[u])
        BY <1>0, <3>3 DEF BytesOf
      <4>2. QED
        BY <1>0, <3>3, <4>1, InPlaceKept
    <3>5. ASSUME task'[u].pc = "write"
          PROVE  /\ Len(written[u]) + Len(buf[u]) = taken[u]
                 /\ InPlace(buf[u], sent'[u], Len(written[u]))
      <4>1. task[u].pc = "write"
        BY <2>2, <3>5 DEF Same, Path
      <4>2. Len(written[u]) + Len(buf[u]) = taken[u] /\ InPlace(buf[u], sent[u], Len(written[u]))
        BY <3>2, <4>1 DEF BytesOf
      <4>3. Len(written[u]) + Len(buf[u]) <= Len(sent[u])
        BY <4>2 DEF BytesOf
      <4>4. QED
        BY <1>0, <4>2, <4>3, InPlaceKept
    <3>6. task'[u].pc \in {"copied", "handled", "pipes", "spawn", "close", "select", "send"} =>
            task[u].pc \in {"copied", "handled", "pipes", "spawn", "close", "select", "send"}
      BY <2>2 DEF Same, Path
    <3>7. task'[u].pc \in {"copied", "handled", "pipes", "spawn", "close", "select", "send"} =>
            Len(written[u]) = taken[u]
      BY <3>2, <3>6 DEF BytesOf
    <3>8. QED
      BY <3>3, <3>4, <3>5, <3>7
  <2>3. QED
    BY <2>1, <2>2
<1>5. QED
  BY <1>1, <1>2, <1>3, <1>4 DEF BytesOf

(* A connection that the session of another, or of several, reads.          *)
LEMMA BytesShared ==
  ASSUME NEW u \in Conns, ~Alone(u)', taken'[u] <= Len(sent'[u]),
         task'[u].pc \in Early => written'[u] = <<>>,
         (\A v \in Conns : task'[v].msock # u) => taken'[u] = 0
  PROVE  BytesOf(u)'
BY DEF BytesOf

(* A byte received is the next one sent. *)
LEMMA ReceiveBytes ==
  ASSUME TasksOK, BytesOK, NEW t \in Conns, Receive(t), UNCHANGED shellVars
  PROVE  BytesOK'
<1>c. PICK c : c = task[t].msock
  OBVIOUS
<1>0. /\ UNCHANGED <<sent, task, written, buf>> /\ task[t].pc = "recv"
      /\ \E n \in 1 .. Len(Arrived(c)) : taken' = [taken EXCEPT ![c] = taken[c] + n]
  BY <1>c DEF Receive
<1>1. PICK n \in 1 .. Len(Arrived(c)) : taken' = [taken EXCEPT ![c] = taken[c] + n]
  BY <1>0
<1>2. c \in Conns
  BY <1>0, <1>c DEF TasksOK, Live, Ended
<1>b. Typed /\ \A u \in Conns : BytesOf(u)
  BY DEF BytesOK
<1>3. n \in Nat /\ taken[c] \in Nat /\ taken[c] + n \in Nat /\ taken[c] + n <= Len(sent[c])
  <2>1. taken[c] <= Len(sent[c])
    BY <1>2, <1>b DEF BytesOf
  <2>2. n \in Nat /\ taken[c] + n <= Len(sent[c])
    BY <1>2, <1>b, <2>1, ArrivedIs
  <2>3. taken[c] \in Nat
    BY <1>2, <1>b DEF Typed
  <2>4. QED
    BY <2>2, <2>3
<1>4. taken' \in [Conns -> Nat] /\ taken'[c] = taken[c] + n
      /\ \A u \in Conns \ {c} : taken'[u] = taken[u]
  BY <1>1, <1>2, <1>3, <1>b DEF Typed
<1>5. Typed'
  BY <1>0, <1>4, <1>b DEF Typed
<1>6. ASSUME NEW u \in Conns \ {c} PROVE BytesOf(u)'
  <2>1. BytesOf(u) /\ taken'[u] = taken[u]
    BY <1>4, <1>b, <1>6
  <2>2. QED
    BY <1>0, <2>1 DEF BytesOf, Alone
<1>7. BytesOf(c)'
  <2>1. BytesOf(c) /\ taken'[c] <= Len(sent'[c]) /\ task[t].msock = c
    BY <1>0, <1>2, <1>3, <1>4, <1>b, <1>c
  <2>2. CASE ~Alone(c)
    BY <1>0, <1>2, <2>1, <2>2, BytesShared DEF BytesOf, Alone
  <2>3. CASE Alone(c)
    <3>1. t = c
      BY <1>2, <2>1, <2>3 DEF Alone
    <3>2. written'[c] = <<>> /\ Len(written'[c]) = 0 /\ task'[c].pc = "recv"
      BY <1>0, <2>1, <3>1 DEF BytesOf, Early
    <3>3. InPlace(written'[c], sent'[c], 0)
      BY <3>2 DEF InPlace
    <3>4. Len(written'[c]) <= taken'[c]
      BY <1>3, <1>4, <3>2
    <3>5. \A v \in Conns : task'[v].msock # c => v # c
      BY <1>0, <2>3 DEF Alone
    <3>6. ~(\A v \in Conns : task'[v].msock # c)
      BY <1>2, <3>5
    <3>7. QED
      BY <2>1, <3>2, <3>3, <3>4, <3>6 DEF BytesOf
  <2>4. QED
    BY <2>2, <2>3
<1>8. QED
  BY <1>5, <1>6, <1>7, <1>2 DEF BytesOK

(* recv() takes what has been sent in its order. *)
LEMMA RecvBytes ==
  ASSUME MainOK, TasksOK, BytesOK, NEW t \in Conns, Recv(t)
  PROVE  BytesOK'
<1>c. PICK c : c = task[t].msock
  OBVIOUS
<1>0. /\ UNCHANGED <<sent, written>> /\ task[t].pc = "select" /\ Goto(t, "write")
      /\ \E n \in 1 .. Len(Arrived(c)) :
           /\ taken' = [taken EXCEPT ![c] = taken[c] + n]
           /\ buf' = [buf EXCEPT ![t] = EndLine(SubSeq(Arrived(c), 1, n))]
  BY <1>c DEF Recv
<1>1. PICK n \in 1 .. Len(Arrived(c)) :
        /\ taken' = [taken EXCEPT ![c] = taken[c] + n]
        /\ buf' = [buf EXCEPT ![t] = EndLine(SubSeq(Arrived(c), 1, n))]
  BY <1>0
<1>2. c \in Conns
  BY <1>0, <1>c DEF TasksOK, Live, Ended
<1>b. Typed /\ \A u \in Conns : BytesOf(u)
  BY DEF BytesOK
<1>s. PICK s : s = SubSeq(Arrived(c), 1, n)
  OBVIOUS
<1>e. PICK e : e = EndLine(s)
  OBVIOUS
<1>3. taken[c] <= Len(sent[c])
  BY <1>2, <1>b DEF BytesOf
<1>4. /\ n \in Nat /\ n >= 1 /\ taken[c] + n <= Len(sent[c])
      /\ s \in Seq(Bytes) /\ Len(s) = n
      /\ \A k \in 1 .. n : s[k] = sent[c][taken[c] + k]
  BY <1>2, <1>3, <1>b, <1>s, ArrivedIs
<1>5. /\ e \in Seq(Piped) /\ Len(e) = n
      /\ \A k \in 1 .. n :
             \/ e[k] = s[k]
             \/ e[k] = "lf" /\ s[k] = "cr"
             \/ e[k] = "nul" /\ k > 1 /\ s[k - 1] \in {"cr", "lf"}
  <2>1. /\ e \in Seq(Piped) /\ Len(e) = Len(s)
        /\ \A k \in 1 .. Len(s) :
             \/ e[k] = s[k]
             \/ e[k] = "lf" /\ s[k] = "cr"
             \/ e[k] = "nul" /\ k > 1 /\ s[k - 1] \in {"cr", "lf"}
    BY <1>4, <1>e, EndLineIs
  <2>2. QED
    BY <1>4, <2>1
<1>6. buf' = [buf EXCEPT ![t] = e]
  BY <1>1, <1>s, <1>e
<1>7. taken[c] \in Nat /\ taken[c] + n \in Nat
  BY <1>2, <1>4, <1>b DEF Typed
<1>8. InPlace(e, sent[c], taken[c])
  <2>1. ASSUME NEW k \in 1 .. Len(e)
        PROVE  \/ e[k] = sent[c][taken[c] + k]
               \/ e[k] = "lf" /\ sent[c][taken[c] + k] = "cr"
               \/ e[k] = "nul" /\ taken[c] + k > 1 /\ sent[c][taken[c] + k - 1] \in {"cr", "lf"}
    <3>1. k \in 1 .. n /\ s[k] = sent[c][taken[c] + k]
      BY <1>4, <1>5
    <3>2. k > 1 => /\ k - 1 \in 1 .. n /\ taken[c] + k > 1
                   /\ taken[c] + (k - 1) = taken[c] + k - 1
      BY <1>4, <1>7, <3>1
    <3>3. k > 1 => s[k - 1] = sent[c][taken[c] + k - 1]
      BY <1>4, <3>2
    <3>4. QED
      BY <1>5, <3>1, <3>2, <3>3
  <2>2. QED
    BY <2>1 DEF InPlace
<1>9. taken' \in [Conns -> Nat] /\ taken'[c] = taken[c] + n
      /\ \A u \in Conns \ {c} : taken'[u] = taken[u]
  BY <1>1, <1>2, <1>7, <1>b DEF Typed
<1>10. buf' \in [Conns -> Seq(Piped)] /\ buf'[t] = e /\ \A u \in Conns \ {t} : buf'[u] = buf[u]
  BY <1>5, <1>6, <1>b DEF Typed
<1>11. Typed'
  BY <1>0, <1>9, <1>10, <1>b DEF Typed
<1>12. /\ task'[t].pc = "write" /\ task'[t].msock = c
       /\ \A u \in Conns \ {t} : task'[u].pc = task[u].pc
       /\ \A u \in Conns : task'[u].msock = task[u].msock
  <2>1. "write" \in Places /\ task \in [Conns -> TaskSet]
    BY DEF Places, TasksOK
  <2>2. At(t, "write") /\ \A u \in Conns \ {t} : Same(u)
    BY <1>0, <2>1, PcSet DEF Goto
  <2>3. QED
    BY <1>c, <2>2 DEF At, Same
<1>13. \A u \in Conns : Alone(u)' <=> Alone(u)
  BY <1>12 DEF Alone
<1>14. \A u \in Conns : taken'[u] <= Len(sent'[u])
  BY <1>0, <1>4, <1>9, <1>b DEF BytesOf
<1>15. \A u \in Conns :
         /\ task'[u].pc \in Early => written'[u] = <<>>
         /\ (\A v \in Conns : task'[v].msock # u) => taken'[u] = 0
  <2>1. ASSUME NEW u \in Conns
        PROVE  /\ task'[u].pc \in Early => written'[u] = <<>>
               /\ (\A v \in Conns : task'[v].msock # u) => taken'[u] = 0
    <3>1. task'[u].pc \in Early => task[u].pc \in Early
      BY <1>12 DEF Early
    <3>2. (\A v \in Conns : task'[v].msock # u) => u # c
      BY <1>12
    <3>3. written'[u] = written[u] /\ BytesOf(u)
      BY <1>0, <1>b
    <3>4. task'[u].pc \in Early => written'[u] = <<>>
      BY <3>1, <3>3 DEF BytesOf
    <3>5. ASSUME \A v \in Conns : task'[v].msock # u PROVE taken'[u] = 0
      <4>1. taken'[u] = taken[u] /\ \A v \in Conns : task[v].msock # u
        BY <1>9, <1>12, <3>2, <3>5
      <4>2. QED
        BY <3>3, <4>1 DEF BytesOf
    <3>6. QED
      BY <3>4, <3>5
  <2>2. QED
    BY <2>1
<1>16. ASSUME NEW u \in Conns, ~Alone(u) PROVE BytesOf(u)'
  <2>1. ~Alone(u)'
    BY <1>12, <1>16 DEF Alone
  <2>2. QED
    BY <1>14, <1>15, <2>1 DEF BytesOf
<1>17. ASSUME NEW u \in Conns, Alone(u), u # t PROVE BytesOf(u)'
  <2>1. u # c
    BY <1>12, <1>17 DEF Alone
  <2>2. UNCHANGED <<written[u], sent[u]>> /\ taken'[u] = taken[u] /\ buf'[u] = buf[u]
        /\ task'[u].pc = task[u].pc
    BY <1>0, <1>9, <1>10, <1>12, <1>17, <2>1
  <2>3. BytesOf(u)
    BY <1>b
  <2>4. QED
    BY <1>13, <1>14, <1>15, <1>17, <2>2, <2>3 DEF BytesOf
<1>18. ASSUME Alone(t) PROVE BytesOf(t)'
  <2>1. t = c
    BY <1>18, <1>c DEF Alone
  <2>2. Len(written[t]) = taken[c] /\ InPlace(written[t], sent[c], 0)
    BY <1>0, <1>18, <1>b, <2>1 DEF BytesOf
  <2>3. /\ written'[t] = written[t] /\ sent'[t] = sent[c] /\ taken'[t] = taken[c] + n
        /\ buf'[t] = e
    BY <1>0, <1>9, <1>10, <2>1
  <2>4. /\ Len(written'[t]) <= taken'[t] /\ Len(written'[t]) + Len(buf'[t]) = taken'[t]
        /\ InPlace(written'[t], sent'[t], 0) /\ InPlace(buf'[t], sent'[t], Len(written'[t]))
    <3>1. Len(written'[t]) = taken[c] /\ Len(buf'[t]) = n
      BY <1>5, <2>2, <2>3
    <3>2. InPlace(written'[t], sent'[t], 0)
      BY <2>2, <2>3
    <3>3. InPlace(buf'[t], sent'[t], Len(written'[t]))
      BY <1>8, <2>3, <3>1
    <3>4. Len(written'[t]) <= taken'[t] /\ Len(written'[t]) + Len(buf'[t]) = taken'[t]
      BY <1>4, <1>7, <2>3, <3>1
    <3>5. QED
      BY <3>2, <3>3, <3>4
  <2>5. QED
    BY <1>12, <1>14, <1>15, <2>4 DEF BytesOf
<1>19. QED
  BY <1>11, <1>16, <1>17, <1>18 DEF BytesOK

(* What is written to the shell is what has been received. *)
LEMMA WriteBytes ==
  ASSUME TasksOK, BytesOK, NEW t \in Conns, WriteShell(t)
  PROVE  BytesOK'
<1>0. /\ UNCHANGED <<sent, taken, buf>> /\ task[t].pc = "write" /\ Goto(t, "select")
      /\ written' = [written EXCEPT ![t] = written[t] \o buf[t]]
  BY DEF WriteShell
<1>b. Typed /\ \A u \in Conns : BytesOf(u)
  BY DEF BytesOK
<1>1. /\ written[t] \in Seq(Piped) /\ buf[t] \in Seq(Piped)
      /\ Len(written[t]) \in Nat /\ Len(buf[t]) \in Nat
  BY <1>b, LenProperties DEF Typed
<1>2. PICK w : w = written[t] \o buf[t]
  OBVIOUS
<1>3. w \in Seq(Piped) /\ Len(w) = Len(written[t]) + Len(buf[t])
  BY <1>1, <1>2, ConcatProperties
<1>4. /\ written' \in [Conns -> Seq(Piped)] /\ written'[t] = w
      /\ \A u \in Conns \ {t} : written'[u] = written[u]
  BY <1>0, <1>2, <1>3, <1>b DEF Typed
<1>5. Typed'
  BY <1>0, <1>4, <1>b DEF Typed
<1>6. /\ task'[t].pc = "select"
      /\ \A u \in Conns \ {t} : task'[u].pc = task[u].pc
      /\ \A u \in Conns : task'[u].msock = task[u].msock
  <2>1. "select" \in Places /\ task \in [Conns -> TaskSet]
    BY DEF Places, TasksOK
  <2>2. At(t, "select") /\ \A u \in Conns \ {t} : Same(u)
    BY <1>0, <2>1, PcSet DEF Goto
  <2>3. QED
    BY <2>2 DEF At, Same
<1>7. \A u \in Conns : Alone(u)' <=> Alone(u)
  BY <1>6 DEF Alone
<1>8. ASSUME NEW u \in Conns \ {t} PROVE BytesOf(u)'
  <2>1. UNCHANGED <<written[u], sent[u], taken[u], buf[u]>> /\ task'[u].pc = task[u].pc
    BY <1>0, <1>4, <1>6
  <2>2. (\A v \in Conns : task'[v].msock # u) => \A v \in Conns : task[v].msock # u
    BY <1>6
  <2>3. BytesOf(u)
    BY <1>b
  <2>4. QED
    BY <1>7, <2>1, <2>2, <2>3 DEF BytesOf
<1>9. BytesOf(t)'
  <2>1. BytesOf(t)
    BY <1>b
  <2>2. taken'[t] <= Len(sent'[t])
    BY <1>0, <2>1 DEF BytesOf
  <2>3. (\A v \in Conns : task'[v].msock # t) => taken'[t] = 0
    BY <1>0, <1>6, <2>1 DEF BytesOf
  <2>4. ASSUME Alone(t)
        PROVE  Len(w) = taken[t] /\ InPlace(w, sent[t], 0)
    <3>1. /\ InPlace(written[t], sent[t], 0) /\ Len(written[t]) + Len(buf[t]) = taken[t]
          /\ InPlace(buf[t], sent[t], Len(written[t]))
      BY <1>0, <2>1, <2>4 DEF BytesOf
    <3>2. InPlace(w, sent[t], 0)
      BY <1>1, <1>2, <3>1, InPlaceJoined
    <3>3. QED
      BY <1>3, <3>1, <3>2
  <2>5. taken[t] \in Nat
    BY <1>b DEF Typed
  <2>6. ASSUME Alone(t)
        PROVE  /\ Len(written'[t]) <= taken'[t] /\ InPlace(written'[t], sent'[t], 0)
               /\ Len(written'[t]) = taken'[t]
    <3>1. Len(w) = taken[t] /\ InPlace(w, sent[t], 0)
      BY <2>4, <2>6
    <3>2. written'[t] = w /\ taken'[t] = taken[t] /\ sent'[t] = sent[t]
      BY <1>0, <1>4
    <3>3. InPlace(written'[t], sent'[t], 0)
      BY <3>1, <3>2
    <3>4. QED
      BY <2>5, <3>1, <3>2, <3>3
  <2>7. QED
    BY <1>6, <1>7, <2>2, <2>3, <2>6 DEF BytesOf, Early
<1>10. QED
  BY <1>5, <1>8, <1>9 DEF BytesOK

(* Every step keeps the bytes in their places. *)
LEMMA NextBytes ==
  ASSUME MainOK, TasksOK, BytesOK, [Next]_vars PROVE BytesOK'
<1>b. Typed /\ \A u \in Conns : BytesOf(u)
  BY DEF BytesOK
<1>t. task \in [Conns -> TaskSet]
  BY DEF TasksOK
<1> DEFINE Moves(u) ==
      \/ Same(u)
      \/ /\ \/ task[u].pc = "none" /\ task'[u].pc = "start"
            \/ task'[u].pc \in {"zombie", "reaped", "unlisted", "gone"}
            \/ /\ <<task[u].pc, task'[u].pc>> \in Path
               /\ ~(task[u].pc = "select" /\ task'[u].pc = "write")
               /\ ~(task[u].pc = "write" /\ task'[u].pc = "select")
         /\ task'[u].msock = task[u].msock
      \/ task[u].pc = "start" /\ task'[u].pc = "copied"
<1>1. ASSUME UNCHANGED <<written, buf, taken>>, sent' \in [Conns -> Seq(Bytes)],
             \A u \in Conns : /\ Len(sent[u]) <= Len(sent'[u])
                              /\ \A k \in 1 .. Len(sent[u]) : sent'[u][k] = sent[u][k],
             \A u \in Conns : Moves(u)
      PROVE  BytesOK'
  <2>1. \A v \in Conns : task'[v].msock = task[v].msock \/ task[v].msock = 0
    BY <1>1 DEF Same, TasksOK
  <2>2. \A u \in Conns : BytesOf(u)'
    BY <1>1, <1>b, <2>1, BytesKept
  <2>3. QED
    BY <1>1, <1>b, <2>2 DEF BytesOK, Typed
<1>2. ASSUME UNCHANGED <<sent, written, buf, taken>>, \A u \in Conns : Moves(u)
      PROVE  BytesOK'
  <2>1. \A u \in Conns : sent[u] \in Seq(Bytes) /\ Len(sent[u]) \in Nat
    BY <1>b, LenProperties DEF Typed
  <2>2. \A u \in Conns :
         /\ Len(sent[u]) <= Len(sent'[u])
         /\ \A k \in 1 .. Len(sent[u]) : sent'[u][k] = sent[u][k]
    BY <1>2, <2>1
  <2>3. sent' \in [Conns -> Seq(Bytes)]
    BY <1>2, <1>b DEF Typed
  <2>4. QED
    BY <1>1, <1>2, <2>2, <2>3
<1>3. CASE MainNext /\ UNCHANGED <<callVars, shellVars>>
  <2>1. \A u \in Conns :
          \/ Same(u)
          \/ u = cur /\ pc = "start" /\ pc' = "record" /\ cur' = cur /\ At(u, "start")
          \/ task[u].pc = "zombie" /\ (At(u, "reaped") \/ At(u, "unlisted"))
          \/ NT /\ pc' = "exited" /\ Live(u) /\ At(u, "gone")
    BY <1>3, <1>t, MainTask
  <2>2. pc = "start" => \A u \in Conns : u = cur => task[u].pc = "none"
    BY DEF TasksOK
  <2>3. \A u \in Conns : Moves(u)
    BY <2>1, <2>2 DEF At
  <2>4. QED
    BY <1>2, <1>3, <2>3
<1>4. CASE CallNext /\ UNCHANGED <<offspringVars, shellVars>>
  <2>0. \A u \in Conns : Same(u)
    BY <1>4 DEF Same
  <2>1. ASSUME NEW c \in Conns, HangUp(c) PROVE BytesOK'
    BY <1>2, <1>4, <2>0, <2>1 DEF HangUp
  <2>2. ASSUME NEW c \in Conns, NEW b \in Bytes, Send(c, b) PROVE BytesOK'
    <3>1. UNCHANGED <<written, buf, taken>> /\ sent' = [sent EXCEPT ![c] = Append(sent[c], b)]
      BY <1>4, <2>2 DEF Send
    <3>2. \A u \in Conns : sent[u] \in Seq(Bytes) /\ Len(sent[u]) \in Nat
      BY <1>b, LenProperties DEF Typed
    <3>3. PICK a : a = Append(sent[c], b)
      OBVIOUS
    <3>4. /\ a \in Seq(Bytes) /\ Len(a) = Len(sent[c]) + 1
          /\ \A k \in 1 .. Len(sent[c]) : a[k] = sent[c][k]
      BY <3>2, <3>3, AppendProperties
    <3>5. /\ sent' \in [Conns -> Seq(Bytes)] /\ sent'[c] = a
          /\ \A u \in Conns \ {c} : sent'[u] = sent[u]
      BY <1>b, <3>1, <3>3, <3>4 DEF Typed
    <3>6. \A u \in Conns :
           /\ Len(sent[u]) <= Len(sent'[u])
           /\ \A k \in 1 .. Len(sent[u]) : sent'[u][k] = sent[u][k]
      <4> SUFFICES ASSUME NEW u \in Conns
                   PROVE  /\ Len(sent[u]) <= Len(sent'[u])
                          /\ \A k \in 1 .. Len(sent[u]) : sent'[u][k] = sent[u][k]
        OBVIOUS
      <4>1. Len(sent[u]) \in Nat
        BY <3>2
      <4>2. CASE u = c
        BY <3>4, <3>5, <4>1, <4>2
      <4>3. CASE u # c
        <5>1. sent'[u] = sent[u]
          BY <3>5, <4>3
        <5>2. QED
          BY <4>1, <5>1
      <4>4. QED
        BY <4>2, <4>3
    <3>7. QED
      BY <1>1, <2>0, <3>1, <3>5, <3>6
  <2>3. QED
    BY <1>4, <2>1, <2>2 DEF CallNext
<1>5. CASE UNCHANGED vars
  BY <1>2, <1>5 DEF vars, Same
<1>6. ASSUME NEW t \in Conns, StepOf(t) PROVE BytesOK'
  <2>1. ASSUME UNCHANGED <<sent, taken, written, buf>>,
               ~(task[t].pc = "select" /\ task'[t].pc = "write"),
               ~(task[t].pc = "write" /\ task'[t].pc = "select")
        PROVE  BytesOK'
    <3>1. \A u \in Conns \ {t} : Same(u)
      BY <1>6, DialogTask
    <3>2. Moves(t)
      BY <1>6, <2>1, DialogTask DEF Same, At, Copies, Leaves
    <3>3. QED
      BY <1>2, <2>1, <3>1, <3>2
  <2>2. QED
    BY <1>6, <2>1, DialogBytes, ReceiveBytes, RecvBytes, WriteBytes
<1>7. QED
  BY <1>3, <1>4, <1>5, <1>6, NextIs

-----------------------------------------------------------------------------
(* The table under Unix: a step of main() that touches it.                  *)
LEMMA UnixMain ==
  ASSUME MainOK, TasksOK, UnixTable, Unix, MainNext, pc' # "exited", term'.at = "no"
  PROVE  UnixTable'
<1>0. /\ task \in [Conns -> TaskSet] /\ task' \in [Conns -> TaskSet]
      /\ offspring \in [Rows -> RowSet] /\ slot \in Rows /\ cur \in Nat
      /\ \A t \in Conns : t \in Nat /\ t >= 1
      /\ pc \in {"start", "record", "socket"} => cur \in Conns
      /\ ~NT
  BY MainTask, CurIsConn, Sizes, Builds DEF TasksOK, MainOK
<1>r. \A i \in Rows : offspring[i] \in RowSet /\ offspring[i].opid \in {0, ParentPid} \cup Conns
  BY <1>0 DEF RowSet
<1>1. CASE Accept
  <2>1. /\ UNCHANGED <<offspring, task>> /\ pc = "listen" /\ cur' = cur + 1
        /\ \/ pc' = "start" /\ ~Used(slot') /\ slot' \in Rows
           \/ pc' = "listen" /\ slot' = slot
    BY <1>1, FirstFreeIs DEF Accept
  <2>2. pc' \in {"start", "record"} => ~Used(slot)'
    BY <2>1 DEF Used
  <2>3. ASSUME NEW i \in Rows, Used(i)'
        PROVE  /\ offspring'[i].opid <= cur'
               /\ pc' \in {"start", "record"} => offspring'[i].opid # cur'
               /\ offspring'[i].msock = offspring'[i].opid
               /\ task'[offspring'[i].opid].pc # "reaped"
    <3>1. Used(i)
      BY <2>1, <2>3 DEF Used
    <3>2. /\ offspring[i].opid <= cur /\ offspring[i].msock = offspring[i].opid
          /\ task[offspring[i].opid].pc # "reaped" /\ offspring[i].opid # ParentPid
      BY <2>1, <3>1 DEF UnixTable
    <3>3. offspring[i].opid \in Nat
      BY <1>0, <1>r, <3>1, <3>2 DEF Used
    <3>4. QED
      BY <1>0, <2>1, <3>2, <3>3
  <2>4. QED
    BY <2>1, <2>2, <2>3 DEF UnixTable, Used, Live
<1>2. CASE Fork
  <2>1. /\ pc = "start" /\ pc' = "record" /\ UNCHANGED <<offspring, slot, cur>>
    BY <1>2 DEF Fork
  <2>2. At(cur, "start") /\ cur \in Conns
    <3>1. cur \in Conns
      BY <1>0, <2>1
    <3>2. task' = [task EXCEPT ![cur] = [task[cur] EXCEPT !.pc = "start",
                                          !.sibs = {offspring[i].opid : i \in Rows} \ {0}]]
      BY <1>2 DEF Fork, NewTask
    <3>3. task[cur] \in TaskSet
      BY <1>0, <3>1
    <3>4. task'[cur] = [task[cur] EXCEPT !.pc = "start",
                                          !.sibs = {offspring[i].opid : i \in Rows} \ {0}]
      BY <1>0, <3>1, <3>2
    <3>5. QED
      BY <3>1, <3>3, <3>4 DEF At, TaskSet
  <2>3. \A u \in Conns \ {cur} : task'[u] = task[u]
    BY <1>0, <1>2 DEF Fork, NewTask
  <2>4. \A i \in Rows : Used(i)' => Used(i)
    BY <2>1 DEF Used
  <2>5. \A i \in Rows : Used(i) => offspring[i].opid \in Conns \ {cur}
    BY <1>r, <2>1 DEF UnixTable, Used
  <2>6. \A t \in Conns : Live(t)' \/ task'[t].pc = "zombie" =>
          \/ t = cur
          \/ Live(t) \/ task[t].pc = "zombie"
    BY <2>3 DEF Live
  <2>7. QED
    BY <2>1, <2>2, <2>3, <2>4, <2>5, <2>6 DEF UnixTable, Used, At
<1>3. CASE RecordPid
  <2>1. /\ pc = "record" /\ pc' = "socket" /\ UNCHANGED <<slot, cur, task>>
        /\ offspring' = [offspring EXCEPT ![slot] = [offspring[slot] EXCEPT !.opid = cur]]
    BY <1>3 DEF RecordPid
  <2>2. offspring'[slot].opid = cur /\ \A i \in Rows \ {slot} : offspring'[i] = offspring[i]
    BY <1>0, <1>r, <2>1 DEF RowSet
  <2>3. ~Used(slot) /\ cur \in Conns /\ cur # ParentPid /\ cur # 0
    BY <1>0, <2>1 DEF UnixTable, ParentPid
  <2>4. \A i \in Rows \ {slot} : Used(i)' <=> Used(i)
    BY <2>2 DEF Used
  <2>5. \A i \in Rows : offspring'[i].opid # ParentPid
    BY <2>2, <2>3 DEF UnixTable
  <2>6. ASSUME NEW i \in Rows, Used(i)'
        PROVE  /\ offspring'[i].opid <= cur'
               /\ offspring'[i].msock = offspring'[i].opid \/ (pc' = "socket" /\ i = slot')
               /\ task'[offspring'[i].opid].pc # "reaped"
    BY <1>0, <2>1, <2>2, <2>4, <2>6 DEF UnixTable
  <2>7. ASSUME NEW i \in Rows, NEW j \in Rows, Used(i)', offspring'[i].opid = offspring'[j].opid
        PROVE  i = j
    <3>1. \A k \in Rows \ {slot} : offspring[k].opid # cur
      BY <2>1, <2>3 DEF UnixTable, Used
    <3>2. QED
      BY <2>2, <2>4, <2>7, <3>1 DEF UnixTable
  <2>8. ASSUME NEW t \in Conns, Live(t)' \/ task'[t].pc = "zombie"
        PROVE  \E i \in Rows : offspring'[i].opid = t
    <3>1. Live(t) \/ task[t].pc = "zombie"
      BY <2>1, <2>8 DEF Live
    <3>2. CASE t = cur
      BY <1>0, <2>2, <3>2
    <3>3. CASE t # cur
      <4>1. PICK i \in Rows : offspring[i].opid = t
        BY <3>1, <3>3 DEF UnixTable
      <4>2. i # slot
        BY <1>0, <2>3, <4>1 DEF Used
      <4>3. QED
        BY <2>2, <4>1, <4>2
    <3>4. QED
      BY <3>2, <3>3
  <2>9. QED
    BY <2>1, <2>2, <2>5, <2>6, <2>7, <2>8 DEF UnixTable
<1>4. CASE RecordSocket
  <2>1. /\ pc = "socket" /\ pc' = "listen" /\ UNCHANGED <<slot, cur, task>>
        /\ offspring' = [offspring EXCEPT ![slot] = [offspring[slot] EXCEPT !.thread = threadnum,
                                                                           !.msock = cur]]
    BY <1>4 DEF RecordSocket
  <2>2. /\ offspring'[slot].opid = offspring[slot].opid /\ offspring'[slot].msock = cur
        /\ \A i \in Rows \ {slot} : offspring'[i] = offspring[i]
    BY <1>0, <1>r, <2>1 DEF RowSet
  <2>3. \A i \in Rows : offspring'[i].opid = offspring[i].opid /\ (Used(i)' <=> Used(i))
    BY <2>2 DEF Used
  <2>4. ASSUME NEW i \in Rows, Used(i)
        PROVE  offspring'[i].msock = offspring'[i].opid
    <3>1. CASE i = slot
      BY <2>1, <2>2, <2>4, <3>1 DEF UnixTable, Used
    <3>2. CASE i # slot
      BY <2>2, <2>4, <3>2 DEF UnixTable
    <3>3. QED
      BY <3>1, <3>2
  <2>5. QED
    BY <2>1, <2>3, <2>4 DEF UnixTable, Live
<1>5. ASSUME NEW z \in Conns, Reap(z) PROVE UnixTable'
  <2> DEFINE hit == {i \in Rows : offspring[i].opid = z}
  <2>1. /\ UNCHANGED <<pc, slot, cur>> /\ task[z].pc = "zombie"
        /\ offspring' = [i \in Rows |-> IF i \in hit THEN Free ELSE offspring[i]]
        /\ task' = [task EXCEPT ![z].pc = IF hit = {} THEN "unlisted" ELSE "reaped"]
    BY <1>5 DEF Reap, Cleared
  <2>2. /\ \A u \in Conns \ {z} : task'[u] = task[u]
        /\ task'[z].pc = IF hit = {} THEN "unlisted" ELSE "reaped"
    <3>1. task[z] \in TaskSet
      BY <1>0
    <3>2. QED
      BY <1>0, <2>1, <3>1 DEF TaskSet
  <2>3. \A i \in Rows : offspring'[i] = IF offspring[i].opid = z THEN Free ELSE offspring[i]
    BY <2>1
  <2>4. \A i \in Rows : \/ offspring[i].opid = z /\ offspring'[i].opid = 0
                        \/ offspring[i].opid # z /\ offspring'[i] = offspring[i]
    BY <2>3 DEF Free
  <2>5. z # 0 /\ ParentPid # 0
    BY <1>0 DEF ParentPid
  <2>6. \A i \in Rows : Used(i)' => Used(i) /\ offspring'[i] = offspring[i] /\ offspring[i].opid # z
    BY <2>4 DEF Used
  <2>7. \A i \in Rows : offspring'[i].opid # ParentPid
    BY <2>4, <2>5 DEF UnixTable
  <2>8. pc' \in {"start", "record"} => ~Used(slot)'
    BY <1>0, <2>1, <2>6 DEF UnixTable, Used
  <2>9. pc' = "record" => task'[cur'].pc # "reaped"
    <3> SUFFICES ASSUME pc = "record" PROVE task'[cur].pc # "reaped"
      BY <2>1
    <3>1. CASE cur = z
      <4>1. hit = {}
        BY <2>5, <3>1 DEF UnixTable, Used
      <4>2. QED
        BY <2>2, <3>1, <4>1
    <3>2. CASE cur # z
      BY <1>0, <2>2, <3>2 DEF UnixTable
    <3>3. QED
      BY <3>1, <3>2
  <2>10. pc' = "socket" => offspring'[slot'].opid \in {0, cur'}
    BY <1>0, <2>1, <2>4 DEF UnixTable
  <2>11. ASSUME NEW i \in Rows, Used(i)'
         PROVE  /\ offspring'[i].opid <= cur'
                /\ pc' \in {"start", "record"} => offspring'[i].opid # cur'
                /\ offspring'[i].msock = offspring'[i].opid \/ (pc' = "socket" /\ i = slot')
                /\ task'[offspring'[i].opid].pc # "reaped"
    <3>1. Used(i) /\ offspring'[i] = offspring[i] /\ offspring[i].opid # z
      BY <2>6, <2>11
    <3>2. offspring[i].opid \in Conns \ {z}
      BY <1>r, <3>1 DEF UnixTable, Used
    <3>3. QED
      BY <2>1, <2>2, <3>1, <3>2 DEF UnixTable
  <2>12. ASSUME NEW i \in Rows, NEW j \in Rows, Used(i)', offspring'[i].opid = offspring'[j].opid
         PROVE  i = j
    BY <2>4, <2>6, <2>12 DEF UnixTable, Used
  <2>13. ASSUME NEW t \in Conns, Live(t)' \/ task'[t].pc = "zombie"
         PROVE  \/ \E i \in Rows : offspring'[i].opid = t
                \/ pc' = "record" /\ t = cur'
    <3>1. t # z
      BY <2>2, <2>13 DEF Live, Ended
    <3>2. Live(t) \/ task[t].pc = "zombie"
      BY <2>2, <2>13, <3>1 DEF Live
    <3>3. CASE pc = "record" /\ t = cur
      BY <2>1, <3>3
    <3>4. CASE \E i \in Rows : offspring[i].opid = t
      BY <2>4, <3>1, <3>4
    <3>5. QED
      BY <3>2, <3>3, <3>4 DEF UnixTable
  <2>14. QED
    BY <2>7, <2>8, <2>9, <2>10, <2>11, <2>12, <2>13 DEF UnixTable
<1>6. CASE BeginThread \/ RecordThread \/ CloseChild
  BY <1>0, <1>6 DEF BeginThread, RecordThread, CloseChild
<1>7. CASE StartFails \/ ExitTold
  BY <1>7 DEF StartFails, ExitTold, ProcessExits
<1>8. CASE Terminate \/ SkipRow \/ ToldChildGone
  BY <1>8 DEF Terminate, SkipRow, ToldChildGone, NextRow
<1>9. CASE TellChild
  BY <1>9 DEF TellChild, MainOK
<1>10. QED
  BY <1>1, <1>2, <1>3, <1>4, <1>5, <1>6, <1>7, <1>8, <1>9 DEF MainNext

(* Every step keeps the table of children. *)
LEMMA NextUnixTable ==
  ASSUME MainOK, TasksOK, UnixTableOK, [Next]_vars PROVE UnixTableOK'
<1> SUFFICES ASSUME Unix', pc' # "exited", term'.at = "no" PROVE UnixTable'
  BY DEF UnixTableOK
<1>1. Unix /\ ~NT
  BY SceneKept, Builds DEF Unix
<1>2. CASE MainNext
  <2>1. pc # "exited"
    BY <1>2 DEF MainNext, MainRuns, Accept, BeginThread, Fork, StartFails, RecordThread,
       RecordPid, RecordSocket, Reap, Terminate, Telling, TellChild, CloseChild, SkipRow,
       ToldChildGone, ExitTold
  <2>2. term.at = "no"
    <3>1. \/ term' = term
          \/ term' = [at |-> "tell", i |-> 1]
          \/ term' = [term EXCEPT !.at = "wait"]
          \/ term' = [at |-> "tell", i |-> term.i + 1]
      BY <1>2 DEF MainNext, Accept, BeginThread, Begin, Fork, StartFails, RecordThread,
         RecordPid, RecordSocket, Reap, Terminate, TellChild, CloseChild, SkipRow,
         ToldChildGone, ExitTold, NextRow
    <3>2. QED
      BY <3>1 DEF MainOK
  <2>3. QED
    BY <1>1, <1>2, <2>1, <2>2, UnixMain DEF UnixTableOK
<1>3. CASE UNCHANGED offspringVars
  <2>1. UnixTable
    BY <1>1, <1>3 DEF UnixTableOK
  <2>2. QED
    BY <1>3, <2>1 DEF UnixTable, Used, Live
<1>4. ASSUME NEW t \in Conns, StepOf(t) PROVE UnixTable'
  <2>1. UNCHANGED <<pc, cur, slot, term, offspring>>
    BY <1>1, <1>4, DialogMain
  <2>2. UnixTable
    BY <1>1, <2>1 DEF UnixTableOK
  <2>3. \A u \in Conns : /\ task'[u].pc = "reaped" => task[u].pc = "reaped"
                         /\ Live(u)' \/ task'[u].pc = "zombie" => Live(u) \/ task[u].pc = "zombie"
    BY <1>4, DialogTask DEF Same, Copies, At, Leaves, Path, Live, Ended
  <2>4. \A i \in Rows : Used(i)' => Used(i)
    BY <2>1 DEF Used
  <2>5. \A i \in Rows : Used(i) => offspring[i].opid \in Conns
    BY <2>2 DEF UnixTable, Used, MainOK, RowSet
  <2>6. pc \in {"record"} => cur \in Conns
    BY CurIsConn
  <2>7. QED
    BY <2>1, <2>2, <2>3, <2>4, <2>5, <2>6 DEF UnixTable, Used
<1>5. QED
  BY <1>2, <1>3, <1>4, NextIs DEF vars

(* What the table then tells.                                               *)
LEMMA UnixTells ==
  ASSUME MainOK, TasksOK, UnixTableOK, Unix, pc = "listen", term.at = "no", NEW t \in Conns
  PROVE  /\ Live(t) => Cardinality({i \in Rows : Named(t, i)}) = 1
         /\ task[t].pc = "reaped" => \A i \in Rows : offspring[i].opid # t
<1>1. UnixTable /\ t # 0
  BY Sizes DEF UnixTableOK
<1>2. ASSUME Live(t) PROVE Cardinality({i \in Rows : Named(t, i)}) = 1
  <2>1. PICK i \in Rows : offspring[i].opid = t
    BY <1>1, <1>2 DEF UnixTable
  <2>2. Named(t, i)
    BY <1>1, <2>1 DEF UnixTable, Used, Named
  <2>3. \A j \in Rows : Named(t, j) => j = i
    BY <1>1, <2>1 DEF UnixTable, Used, Named
  <2>4. {j \in Rows : Named(t, j)} = {i}
    BY <2>2, <2>3
  <2>5. QED
    BY <2>4, FS_Singleton
<1>3. task[t].pc = "reaped" => \A i \in Rows : offspring[i].opid # t
  BY <1>1 DEF UnixTable, Used
<1>4. QED
  BY <1>2, <1>3

-----------------------------------------------------------------------------
(* The table under NT.  Pairs that have been issued, and those that a step  *)
(* may add.                                                                 *)
LEMMA IssuedHas ==
  /\ \A u \in Conns : task[u].msock # 0 => <<task[u].msock, task[u].num>> \in Issued
  /\ arglist.msock # 0 => <<arglist.msock, arglist.num>> \in Issued
  /\ \A i \in Rows : Used(i) => <<offspring[i].msock, offspring[i].thread>> \in Issued
BY DEF Issued

(* The pairs of socket and number that are about, after a step. *)
LEMMA IssuedStays ==
  ASSUME NEW E,
         \A u \in Conns : task'[u].msock # 0 => <<task'[u].msock, task'[u].num>> \in E,
         arglist'.msock # 0 => <<arglist'.msock, arglist'.num>> \in E,
         \A i \in Rows : Used(i)' => <<offspring'[i].msock, offspring'[i].thread>> \in E
  PROVE  Issued' \subseteq E
BY DEF Issued

(* A step that issues nothing; a row is freed when a thread that has its    *)
(* connection is gone.                                                      *)
LEMMA NTKept ==
  ASSUME MainOK, TasksOK, NTTable, UNCHANGED <<pc, cur, slot, threadnum, arglist>>,
         \A i \in Rows :
           \/ offspring'[i] = offspring[i]
           \/ /\ Used(i) /\ offspring'[i] = Free
              /\ \E u \in Conns : task'[u].msock = offspring[i].msock /\ task'[u].pc = "gone",
         \A u \in Conns : task'[u].msock # 0 => <<task'[u].msock, task'[u].num>> \in Issued,
         \A u \in Conns :
           /\ task'[u].pc # "none" => task[u].pc # "none"
           /\ task[u].msock = 0 \/ task'[u].msock = task[u].msock
           /\ task[u].pc = "gone" => task'[u].pc = "gone"
  PROVE  NTTable'
<1>f. Free.opid = 0 /\ Free.thread = 0 /\ Free.msock = -1
  BY DEF Free
<1>1. \A i \in Rows : Used(i)' => Used(i) /\ offspring'[i] = offspring[i]
  BY <1>f DEF Used
<1>2. Issued' \subseteq Issued
  BY <1>1, IssuedHas, IssuedStays
<1>3. \A i \in Rows : ~Used(i)' => offspring'[i].thread = 0
  BY <1>f DEF Used, NTTable
<1>4. pc \in {"start", "record"} => ~Used(slot)'
  BY <1>1 DEF NTTable, MainOK
<1>5. pc = "record" => offspring'[slot].msock = cur
  BY DEF NTTable, MainOK
<1>6. ASSUME pc # "exited", NEW t \in Conns, task'[t].pc # "none",
             \A u \in Conns : task'[u].msock = t => task'[u].pc # "gone"
      PROVE  \/ \E i \in Rows : Used(i)' /\ offspring'[i].msock = t
             \/ pc = "record" /\ t = cur
  <2>1. t # 0
    BY Sizes
  <2>2. task[t].pc # "none" /\ \A u \in Conns : task[u].msock = t => task[u].pc # "gone"
    BY <1>6, <2>1
  <2>3. CASE \E i \in Rows : Used(i) /\ offspring[i].msock = t
    <3>1. PICK i \in Rows : Used(i) /\ offspring[i].msock = t
      BY <2>3
    <3>2. offspring'[i] = offspring[i]
      BY <1>6, <3>1
    <3>3. Used(i)'
      BY <3>1, <3>2 DEF Used
    <3>4. QED
      BY <3>1, <3>2, <3>3
  <2>4. QED
    BY <1>6, <2>2, <2>3 DEF NTTable
<1>7. \A p \in Issued' :
        /\ p[1] \in Conns /\ p[1] <= cur
        /\ p[2] \in 1 .. threadnum
        /\ pc = "start" => p[1] # cur
        /\ pc \in {"listen", "start"} => p[2] # threadnum
  BY <1>2 DEF NTTable
<1>8. \A p, q \in Issued' : p[1] = q[1] <=> p[2] = q[2]
  BY <1>2 DEF NTTable
<1>9. \A i \in Rows : Used(i)' => offspring'[i].thread < threadnum
  BY <1>1 DEF NTTable
<1>10. ASSUME NEW i \in Rows, NEW j \in Rows, Used(i)', offspring'[i].thread = offspring'[j].thread
       PROVE  i = j
  <2>1. Used(i) /\ offspring'[i] = offspring[i]
    BY <1>1, <1>10
  <2>2. offspring[i].thread # 0
    <3>1. <<offspring[i].msock, offspring[i].thread>> \in Issued
      BY <2>1, IssuedHas
    <3>2. offspring[i].thread \in 1 .. threadnum
      BY <3>1 DEF NTTable
    <3>3. QED
      BY <3>2
  <2>3. offspring'[j] = offspring[j]
    BY <1>f, <1>10, <2>1, <2>2
  <2>4. QED
    BY <1>10, <2>1, <2>3 DEF NTTable
<1>11. QED
  BY <1>3, <1>4, <1>5, <1>6, <1>7, <1>8, <1>9, <1>10 DEF NTTable

(* A step of the main loop keeps the table of threads. *)
LEMMA NTMain ==
  ASSUME MainOK, TasksOK, NTTable, NT, MainNext PROVE NTTable'
<1>0. /\ task \in [Conns -> TaskSet] /\ offspring \in [Rows -> RowSet] /\ slot \in Rows
      /\ cur \in Nat /\ threadnum \in Nat \ {0}
      /\ \A t \in Conns : t \in Nat /\ t >= 1
      /\ pc \in {"start", "record", "socket"} => cur \in Conns
      /\ ~Unix
  BY CurIsConn, Sizes, Builds DEF TasksOK, MainOK
<1>t. \A u \in Conns :
        \/ Same(u)
        \/ u = cur /\ pc = "start" /\ pc' = "record" /\ cur' = cur /\ At(u, "start")
        \/ task[u].pc = "zombie" /\ (At(u, "reaped") \/ At(u, "unlisted"))
        \/ NT /\ pc' = "exited" /\ Live(u) /\ At(u, "gone")
  BY <1>0, MainTask
<1>m. \A u \in Conns : task'[u].msock = task[u].msock /\ task'[u].num = task[u].num
  BY <1>t DEF Same, At
<1>1. CASE Accept
  <2>1. /\ UNCHANGED <<offspring, task, arglist, threadnum>> /\ pc = "listen" /\ cur' = cur + 1
        /\ \/ pc' = "start" /\ ~Used(slot') /\ slot' \in Rows
           \/ pc' = "listen" /\ slot' = slot
    BY <1>1, FirstFreeIs DEF Accept
  <2>2. Issued' = Issued
    BY <2>1 DEF Issued, Used
  <2>3. \A p \in Issued :
          /\ p[1] \in Conns /\ p[1] <= cur' /\ p[1] # cur'
          /\ p[2] \in 1 .. threadnum /\ p[2] # threadnum
    <3>1. \A p \in Issued : p[1] \in Conns /\ p[1] <= cur /\ p[2] \in 1 .. threadnum
                           /\ p[2] # threadnum
      BY <2>1 DEF NTTable
    <3>2. QED
      BY <1>0, <2>1, <3>1
  <2>4. QED
    BY <2>1, <2>2, <2>3 DEF NTTable, Used
<1>2. CASE BeginThread
  <2>1. /\ pc = "start" /\ pc' = "record" /\ UNCHANGED <<slot, cur, threadnum>>
        /\ offspring' = [offspring EXCEPT ![slot] = [offspring[slot] EXCEPT !.msock = cur]]
        /\ arglist' = [msock |-> cur, num |-> threadnum]
    BY <1>2 DEF BeginThread, Begin
  <2>2. cur \in Conns /\ task[cur].pc = "none" /\ ~Used(slot)
    BY <1>0, <2>1 DEF TasksOK, NTTable
  <2>3. /\ offspring'[slot].opid = offspring[slot].opid /\ offspring'[slot].msock = cur
        /\ offspring'[slot].thread = offspring[slot].thread
        /\ \A i \in Rows \ {slot} : offspring'[i] = offspring[i]
    <3>1. offspring[slot] \in RowSet
      BY <1>0
    <3>2. QED
      BY <1>0, <2>1, <3>1 DEF RowSet
  <2>4. \A i \in Rows :
        /\ Used(i)' <=> Used(i)
        /\ offspring'[i].thread = offspring[i].thread
        /\ Used(i) => offspring'[i] = offspring[i]
    BY <2>2, <2>3 DEF Used
  <2> DEFINE new == <<cur, threadnum>>
  <2>5. Issued' \subseteq Issued \cup {new}
    <3>1. \A u \in Conns : task'[u].msock # 0 =>
            <<task'[u].msock, task'[u].num>> \in Issued \cup {new}
      BY <1>m, IssuedHas
    <3>2. <<arglist'.msock, arglist'.num>> \in Issued \cup {new}
      BY <2>1
    <3>3. \A i \in Rows : Used(i)' =>
            <<offspring'[i].msock, offspring'[i].thread>> \in Issued \cup {new}
      BY <2>4, IssuedHas
    <3>4. QED
      BY <3>1, <3>2, <3>3, IssuedStays
  <2>6. \A p \in Issued :
        /\ p[1] \in Conns /\ p[1] <= cur /\ p[1] # cur
        /\ p[2] \in 1 .. threadnum /\ p[2] # threadnum
    BY <2>1 DEF NTTable
  <2>7. new[1] = cur /\ new[2] = threadnum
    OBVIOUS
  <2>8. \A p \in Issued' : p[1] \in Conns /\ p[1] <= cur /\ p[2] \in 1 .. threadnum
    BY <1>0, <2>2, <2>5, <2>6, <2>7
  <2>9. \A p, q \in Issued' : p[1] = q[1] <=> p[2] = q[2]
    <3>1. \A p, q \in Issued : p[1] = q[1] <=> p[2] = q[2]
      BY DEF NTTable
    <3>2. QED
      BY <2>5, <2>6, <2>7, <3>1
  <2>10. ASSUME NEW t \in Conns, task'[t].pc # "none",
                \A u \in Conns : task'[u].msock = t => task'[u].pc # "gone"
         PROVE  (\E i \in Rows : Used(i)' /\ offspring'[i].msock = t) \/ t = cur
    <3> SUFFICES ASSUME t # cur PROVE \E i \in Rows : Used(i)' /\ offspring'[i].msock = t
      OBVIOUS
    <3>1. task[t].pc # "none"
      BY <1>t, <2>1, <2>10 DEF Same, Live, Ended
    <3>2. \A u \in Conns : task[u].msock = t => task[u].pc # "gone"
      <4>1. \A u \in Conns : task[u].pc = "gone" => task'[u].pc = "gone"
        BY <1>t, <2>1, <2>2 DEF Same
      <4>2. QED
        BY <1>m, <2>10, <4>1
    <3>3. \E i \in Rows : Used(i) /\ offspring[i].msock = t
      BY <2>1, <3>1, <3>2 DEF NTTable
    <3>4. QED
      BY <2>4, <3>3
  <2>11. ~Used(slot)'
    BY <2>1, <2>2, <2>3 DEF Used
  <2>12. \A i \in Rows :
           /\ Used(i)' => offspring'[i].thread < threadnum
           /\ ~Used(i)' => offspring'[i].thread = 0
    BY <2>4 DEF NTTable
  <2>13. \A i, j \in Rows : Used(i)' /\ offspring'[i].thread = offspring'[j].thread => i = j
    BY <2>4 DEF NTTable
  <2>14. QED
    BY <2>1, <2>3, <2>8, <2>9, <2>10, <2>11, <2>12, <2>13 DEF NTTable
<1>3. CASE RecordThread
  <2>1. /\ pc = "record" /\ pc' = "listen" /\ UNCHANGED <<slot, cur, arglist, task>>
        /\ offspring' = [offspring EXCEPT ![slot] = [offspring[slot] EXCEPT !.opid = ParentPid,
                                                                           !.thread = threadnum]]
        /\ threadnum' = threadnum + 1
    BY <1>3 DEF RecordThread
  <2>2. /\ arglist.msock = cur /\ arglist.num = threadnum /\ offspring[slot].msock = cur
        /\ ~Used(slot) /\ cur # 0
    BY <1>0, <2>1 DEF NTTable
  <2>3. /\ offspring'[slot].opid = ParentPid /\ offspring'[slot].msock = cur
        /\ offspring'[slot].thread = threadnum
        /\ \A i \in Rows \ {slot} : offspring'[i] = offspring[i]
    <3>1. offspring[slot] \in RowSet
      BY <1>0
    <3>2. QED
      BY <1>0, <2>1, <2>2, <3>1 DEF RowSet
  <2>4. \A i \in Rows : Used(i)' <=> i = slot \/ Used(i)
    BY <2>3 DEF Used, ParentPid
  <2>5. Issued' \subseteq Issued
    <3>1. <<cur, threadnum>> \in Issued
      BY <2>2, IssuedHas
    <3>2. \A i \in Rows : Used(i)' => <<offspring'[i].msock, offspring'[i].thread>> \in Issued
      BY <2>3, <2>4, <3>1, IssuedHas
    <3>3. arglist'.msock # 0 => <<arglist'.msock, arglist'.num>> \in Issued
      BY <2>1, IssuedHas
    <3>4. \A u \in Conns : task'[u].msock # 0 => <<task'[u].msock, task'[u].num>> \in Issued
      BY <2>1, IssuedHas
    <3>5. QED
      BY <3>2, <3>3, <3>4, IssuedStays
  <2>6. \A p \in Issued' :
        /\ p[1] \in Conns /\ p[1] <= cur
        /\ p[2] \in 1 .. threadnum' /\ p[2] # threadnum'
    <3>1. \A p \in Issued : p[1] \in Conns /\ p[1] <= cur /\ p[2] \in 1 .. threadnum
      BY DEF NTTable
    <3>2. QED
      BY <1>0, <2>1, <2>5, <3>1
  <2>7. \A p, q \in Issued' : p[1] = q[1] <=> p[2] = q[2]
    BY <2>5 DEF NTTable
  <2>8. ASSUME NEW i \in Rows
        PROVE  /\ Used(i)' => offspring'[i].thread < threadnum'
               /\ ~Used(i)' => offspring'[i].thread = 0
    <3>1. CASE i = slot
      BY <1>0, <2>1, <2>3, <2>4, <3>1
    <3>2. CASE i # slot
      <4>1. offspring[i] \in RowSet
        BY <1>0
      <4>2. offspring[i].thread \in Nat
        BY <4>1 DEF RowSet
      <4>3. /\ Used(i) => offspring[i].thread < threadnum
            /\ ~Used(i) => offspring[i].thread = 0
        BY DEF NTTable
      <4>4. QED
        BY <1>0, <2>1, <2>3, <2>4, <3>2, <4>2, <4>3
    <3>3. QED
      BY <3>1, <3>2
  <2>9. ASSUME NEW i \in Rows, NEW j \in Rows, Used(i)', offspring'[i].thread = offspring'[j].thread
        PROVE  i = j
    <3>1. \A k \in Rows \ {slot} : offspring[k].thread # threadnum
      <4>1. \A k \in Rows : Used(k) => offspring[k].thread < threadnum
        BY DEF NTTable
      <4>2. \A k \in Rows : ~Used(k) => offspring[k].thread = 0
        BY DEF NTTable
      <4>3. QED
        BY <1>0, <4>1, <4>2
    <3>2. QED
      BY <2>3, <2>4, <2>9, <3>1 DEF NTTable
  <2>10. ASSUME NEW t \in Conns, task'[t].pc # "none",
                \A u \in Conns : task'[u].msock = t => task'[u].pc # "gone"
         PROVE  \E i \in Rows : Used(i)' /\ offspring'[i].msock = t
    <3>1. \/ \E i \in Rows : Used(i) /\ offspring[i].msock = t
          \/ t = cur
      BY <2>1, <2>10 DEF NTTable
    <3>2. CASE t = cur
      BY <1>0, <2>3, <2>4, <3>2
    <3>3. CASE \E i \in Rows : Used(i) /\ offspring[i].msock = t
      <4>1. PICK i \in Rows : Used(i) /\ offspring[i].msock = t
        BY <3>3
      <4>2. i # slot
        BY <2>2, <4>1
      <4>3. QED
        BY <2>3, <2>4, <4>1, <4>2
    <3>4. QED
      BY <3>1, <3>2, <3>3
  <2>11. QED
    BY <2>1, <2>6, <2>7, <2>8, <2>9, <2>10 DEF NTTable
<1>4. CASE StartFails \/ ExitTold
  <2>1. pc' = "exited" /\ UNCHANGED <<slot, cur, arglist, offspring, threadnum>>
    BY <1>4 DEF StartFails, ExitTold, ProcessExits
  <2>2. Issued' \subseteq Issued
    <3>1. \A i \in Rows : Used(i)' => <<offspring'[i].msock, offspring'[i].thread>> \in Issued
      BY <2>1, IssuedHas DEF Used
    <3>2. arglist'.msock # 0 => <<arglist'.msock, arglist'.num>> \in Issued
      BY <2>1, IssuedHas
    <3>3. \A u \in Conns : task'[u].msock # 0 => <<task'[u].msock, task'[u].num>> \in Issued
      BY <1>m, IssuedHas
    <3>4. QED
      BY <3>1, <3>2, <3>3, IssuedStays
  <2>3. \A p \in Issued' : p[1] \in Conns /\ p[1] <= cur /\ p[2] \in 1 .. threadnum
    BY <2>2 DEF NTTable
  <2>4. \A p, q \in Issued' : p[1] = q[1] <=> p[2] = q[2]
    BY <2>2 DEF NTTable
  <2>5. QED
    BY <2>1, <2>3, <2>4 DEF NTTable, Used
<1>5. CASE Terminate \/ CloseChild \/ SkipRow \/ ToldChildGone
  <2>1. UNCHANGED <<pc, cur, slot, threadnum, arglist, offspring>>
    BY <1>5 DEF Terminate, CloseChild, SkipRow, ToldChildGone
  <2>2. pc # "exited"
    BY <1>5 DEF Terminate, CloseChild, SkipRow, ToldChildGone, Telling
  <2>3. \A u \in Conns : task'[u].msock # 0 => <<task'[u].msock, task'[u].num>> \in Issued
    BY <1>m, IssuedHas
  <2>4. \A u \in Conns :
          /\ task'[u].pc # "none" => task[u].pc # "none"
          /\ task[u].msock = 0 \/ task'[u].msock = task[u].msock
          /\ task[u].pc = "gone" => task'[u].pc = "gone"
    BY <1>m, <1>t, <2>1, <2>2 DEF Same
  <2>5. QED
    BY <2>1, <2>3, <2>4, NTKept
<1>6. CASE Fork \/ RecordPid \/ RecordSocket \/ TellChild
  BY <1>0, <1>6 DEF Fork, RecordPid, RecordSocket, TellChild
<1>7. ASSUME NEW z \in Conns, Reap(z) PROVE NTTable'
  BY <1>0, <1>7 DEF Reap
<1>8. QED
  BY <1>1, <1>2, <1>3, <1>4, <1>5, <1>6, <1>7 DEF MainNext

(* The row that a thread finds is used, and for the connection it serves.   *)
LEMMA OwnRowUsed ==
  ASSUME MainOK, TasksOK, NTTable, NEW t \in Conns, Live(t), task[t].pc # "start", HasRow(t)
  PROVE  /\ OwnRow(t) \in Rows /\ Used(OwnRow(t))
         /\ offspring[OwnRow(t)].msock = task[t].msock
<1>1. task[t].msock \in Conns /\ task[t].msock # 0
  BY Sizes DEF TasksOK
<1>2. <<task[t].msock, task[t].num>> \in Issued
  BY <1>1, IssuedHas
<1>3. task[t].num \in 1 .. threadnum
  BY <1>2 DEF NTTable
<1>4. PICK i \in Rows : i = OwnRow(t) /\ offspring[i].thread = task[t].num
  BY OwnRowIs DEF HasRow
<1>5. Used(i)
  BY <1>3, <1>4 DEF NTTable
<1>6. <<offspring[i].msock, offspring[i].thread>> \in Issued
  BY <1>5, IssuedHas
<1>7. offspring[i].msock = task[t].msock
  BY <1>2, <1>4, <1>6 DEF NTTable
<1>8. QED
  BY <1>4, <1>5, <1>7

(* Every step keeps the table of threads. *)
LEMMA NextNTTable ==
  ASSUME MainOK, TasksOK, NTTableOK, [Next]_vars PROVE NTTableOK'
<1> SUFFICES ASSUME NT' PROVE NTTable'
  BY DEF NTTableOK
<1>1. NT /\ ~Unix /\ NTTable
  BY SceneKept, Builds DEF NT, NTTableOK
<1>2. CASE MainNext
  BY <1>1, <1>2, NTMain
<1>3. CASE UNCHANGED offspringVars
  <2>1. \A u \in Conns : task'[u].msock # 0 => <<task'[u].msock, task'[u].num>> \in Issued
    BY <1>3, IssuedHas
  <2>2. QED
    BY <1>1, <1>3, <2>1, NTKept
<1>4. ASSUME NEW t \in Conns, StepOf(t) PROVE NTTable'
  <2>1. UNCHANGED <<pc, cur, slot, threadnum, arglist>>
    BY <1>4, DialogMain
  <2>2. /\ \A u \in Conns \ {t} : Same(u)
        /\ \/ Same(t)
           \/ Copies(t)
           \/ \E x \in Places : At(t, x) /\ <<task[t].pc, x>> \in Path
           \/ Live(t) /\ Leaves(t)
    BY <1>4, DialogTask
  <2>3. ASSUME NEW u \in Conns, task'[u].msock # 0
        PROVE  <<task'[u].msock, task'[u].num>> \in Issued
    <3>1. CASE task'[u].msock = task[u].msock /\ task'[u].num = task[u].num
      BY <2>3, <3>1, IssuedHas
    <3>2. CASE u = t /\ Copies(t)
      BY <1>1, <2>3, <3>2, IssuedHas DEF Copies
    <3>3. QED
      BY <2>2, <3>1, <3>2 DEF Same, At, Leaves
  <2>4. \A u \in Conns :
          /\ task'[u].pc # "none" => task[u].pc # "none"
          /\ task[u].msock = 0 \/ task'[u].msock = task[u].msock
          /\ task[u].pc = "gone" => task'[u].pc = "gone"
    <3>1. \A u \in Conns : task[u].pc = "start" => task[u].msock = 0
      BY DEF TasksOK
    <3>2. QED
      BY <2>2, <3>1 DEF Same, At, Leaves, Copies, Path, Live, Ended
  <2>5. CASE offspring' = offspring
    BY <1>1, <2>1, <2>3, <2>4, <2>5, NTKept
  <2>6. CASE Finish(t) /\ Live(t) /\ task[t].pc # "start" /\ HasRow(t)
    <3>1. task'[t].pc = "gone" /\ task'[t].msock = task[t].msock
      <4>1. task' = [task EXCEPT ![t].pc = "gone"] /\ "gone" \in Places /\ task \in [Conns -> TaskSet]
        BY <1>1, <2>6 DEF Finish, Places, Ended, TasksOK
      <4>2. At(t, "gone")
        BY <4>1, PcSet
      <4>3. QED
        BY <4>2 DEF At
    <3>2. /\ OwnRow(t) \in Rows /\ Used(OwnRow(t))
          /\ offspring[OwnRow(t)].msock = task[t].msock
      BY <1>1, <2>6, OwnRowUsed
    <3>3. offspring' = [offspring EXCEPT ![OwnRow(t)] = Free]
      BY <1>1, <2>6 DEF Finish
    <3>4. \A i \in Rows :
            \/ offspring'[i] = offspring[i]
            \/ /\ Used(i) /\ offspring'[i] = Free
               /\ \E u \in Conns : task'[u].msock = offspring[i].msock /\ task'[u].pc = "gone"
      <4>1. ASSUME NEW i \in Rows, offspring'[i] # offspring[i]
            PROVE  i = OwnRow(t) /\ offspring'[i] = Free
        BY <3>3, <4>1 DEF MainOK
      <4>2. QED
        BY <3>1, <3>2, <4>1
    <3>5. QED
      BY <1>1, <2>1, <2>3, <2>4, <3>4, NTKept
  <2>7. Finish(t) /\ ~HasRow(t) => offspring' = offspring
    BY <1>1 DEF Finish
  <2>8. QED
    BY <1>4, <2>5, <2>6, <2>7, DialogMain
<1>5. QED
  BY <1>2, <1>3, <1>4, NextIs DEF vars

(* The row of a thread that serves is the only one with its number. *)
LEMMA NTTells ==
  ASSUME MainOK, TasksOK, NTTableOK, NT, pc = "listen", NEW t \in Conns, Serving(t),
         task[t].msock = t, \A u \in Conns \ {t} : task[u].msock # t
  PROVE  Cardinality({i \in Rows : Threaded(t, i)}) = 1
<1>1. NTTable /\ t # 0
  BY Sizes DEF NTTableOK
<1>2. task[t].pc # "none" /\ \A u \in Conns : task[u].msock = t => task[u].pc # "gone"
  BY DEF Serving, Live, Ended
<1>3. PICK i \in Rows : Used(i) /\ offspring[i].msock = t
  BY <1>1, <1>2 DEF NTTable
<1>4. offspring[i].thread = task[t].num
  <2>1. <<t, task[t].num>> \in Issued /\ <<t, offspring[i].thread>> \in Issued
    BY <1>1, <1>3, IssuedHas
  <2>2. QED
    BY <1>1, <2>1 DEF NTTable
<1>5. \A j \in Rows : Threaded(t, j) <=> j = i
  BY <1>1, <1>3, <1>4 DEF NTTable, Threaded
<1>6. {j \in Rows : Threaded(t, j)} = {i}
  BY <1>5
<1>7. QED
  BY <1>6, FS_Singleton

-----------------------------------------------------------------------------
(* The rows in use, counted.                                                *)
LEMMA Finite ==
  IsFiniteSet(Conns) /\ IsFiniteSet(Rows)
<1> DEFINE most == CHOOSE s \in Scenarios : \A r \in Scenarios : r.callers <= s.callers
<1>1. most \in Scenarios
  BY OffspringAssumption
<1>2. most.callers \in Nat
  BY <1>1, OffspringAssumption
<1>3. Conns = 1 .. most.callers
  BY DEF Conns
<1> HIDE DEF most
<1>4. IsFiniteSet(Conns)
  BY <1>2, <1>3, FS_Interval
<1>5. IsFiniteSet(Rows)
  BY Sizes, FS_Interval DEF Rows
<1>6. QED
  BY <1>4, <1>5

(* Nothing begins anew: main() has neither exited nor been told to before.  *)
LEMMA NotYet ==
  ASSUME MainOK, TasksOK, [Next]_vars, pc' # "exited", term'.at = "no"
  PROVE  pc # "exited" /\ term.at = "no"
<1>1. CASE MainNext
  <2>1. pc # "exited"
    BY <1>1 DEF MainNext, MainRuns, Accept, BeginThread, Fork, StartFails, RecordThread,
       RecordPid, RecordSocket, Reap, Terminate, Telling, TellChild, CloseChild, SkipRow,
       ToldChildGone, ExitTold
  <2>2. \/ term' = term
        \/ term' = [at |-> "tell", i |-> 1]
        \/ term' = [term EXCEPT !.at = "wait"]
        \/ term' = [at |-> "tell", i |-> term.i + 1]
    BY <1>1 DEF MainNext, Accept, BeginThread, Begin, Fork, StartFails, RecordThread,
       RecordPid, RecordSocket, Reap, Terminate, TellChild, CloseChild, SkipRow,
       ToldChildGone, ExitTold, NextRow
  <2>3. QED
    BY <2>1, <2>2 DEF MainOK
<1>2. CASE UNCHANGED <<pc, term>>
  BY <1>2
<1>3. QED
  BY <1>1, <1>2, NextIs, DialogMain DEF vars

(* A step after which neither or both are one fewer.                        *)
LEMMA CountsKept ==
  ASSUME Counts, pc # "exited", term.at = "no",
         pc' = "record" <=> pc = "record",
         \/ UsedRows' = UsedRows /\ Members' = Members
         \/ \E i \in UsedRows, t \in Members :
              UsedRows' = UsedRows \ {i} /\ Members' = Members \ {t}
  PROVE  Counts'
<1> DEFINE r == IF pc = "record" THEN 1 ELSE 0
<1>1. IsFiniteSet(UsedRows) /\ IsFiniteSet(Members)
  <2>1. UsedRows \subseteq Rows /\ Members \subseteq Conns
    BY DEF UsedRows, Members
  <2>2. QED
    BY <2>1, Finite, FS_Subset
<1>2. Cardinality(UsedRows) \in Nat /\ Cardinality(Members) \in Nat
  BY <1>1, FS_CardinalityType
<1>3. Cardinality(UsedRows) + r = Cardinality(Members)
  BY DEF Counts
<1>4. CASE UsedRows' = UsedRows /\ Members' = Members
  BY <1>3, <1>4 DEF Counts
<1>5. ASSUME NEW i \in UsedRows, NEW t \in Members,
             UsedRows' = UsedRows \ {i}, Members' = Members \ {t}
      PROVE  Counts'
  <2>1. /\ Cardinality(UsedRows') = Cardinality(UsedRows) - 1
        /\ Cardinality(Members') = Cardinality(Members) - 1
    BY <1>1, <1>5, FS_RemoveElement
  <2>2. Cardinality(UsedRows') + r = Cardinality(Members')
    BY <1>2, <1>3, <2>1
  <2>3. QED
    BY <2>2 DEF Counts
<1>6. QED
  BY <1>4, <1>5

(* A step after which one of them is one more.                              *)
LEMMA CountsGrow ==
  ASSUME Counts, pc # "exited", term.at = "no",
         \/ /\ pc # "record" /\ pc' = "record" /\ UsedRows' = UsedRows
            /\ \E t \in Conns \ Members : Members' = Members \cup {t}
         \/ /\ pc = "record" /\ pc' # "record" /\ Members' = Members
            /\ \E i \in Rows \ UsedRows : UsedRows' = UsedRows \cup {i}
  PROVE  Counts'
<1>1. IsFiniteSet(UsedRows) /\ IsFiniteSet(Members)
  <2>1. UsedRows \subseteq Rows /\ Members \subseteq Conns
    BY DEF UsedRows, Members
  <2>2. QED
    BY <2>1, Finite, FS_Subset
<1>2. Cardinality(UsedRows) \in Nat /\ Cardinality(Members) \in Nat
  BY <1>1, FS_CardinalityType
<1>3. ASSUME pc # "record", pc' = "record", UsedRows' = UsedRows,
             NEW t \in Conns \ Members, Members' = Members \cup {t}
      PROVE  Counts'
  <2>1. Cardinality(Members') = Cardinality(Members) + 1
    BY <1>1, <1>3, FS_AddElement
  <2>2. Cardinality(UsedRows) = Cardinality(Members)
    BY <1>2, <1>3 DEF Counts
  <2>3. QED
    BY <1>3, <2>1, <2>2 DEF Counts
<1>4. ASSUME pc = "record", pc' # "record", Members' = Members,
             NEW i \in Rows \ UsedRows, UsedRows' = UsedRows \cup {i}
      PROVE  Counts'
  <2>1. Cardinality(UsedRows') = Cardinality(UsedRows) + 1
    BY <1>1, <1>4, FS_AddElement
  <2>2. Cardinality(UsedRows) + 1 = Cardinality(Members)
    BY <1>4 DEF Counts
  <2>3. Cardinality(UsedRows') + 0 = Cardinality(Members')
    BY <1>2, <1>4, <2>1, <2>2
  <2>4. QED
    BY <1>4, <2>3 DEF Counts
<1>5. QED
  BY <1>3, <1>4

(* A step of the main loop keeps the count. *)
LEMMA MainCounts ==
  ASSUME MainOK, TasksOK, UnixTableOK, NTTableOK, Counts, MainNext,
         pc # "exited", term.at = "no", pc' # "exited", term'.at = "no"
  PROVE  Counts'
<1>0. /\ task \in [Conns -> TaskSet] /\ offspring \in [Rows -> RowSet] /\ slot \in Rows
      /\ \A t \in Conns : t \in Nat /\ t >= 1
      /\ pc \in {"start", "record"} => cur \in Conns
      /\ Unix <=> ~NT
  BY CurIsConn, Sizes, Builds DEF TasksOK, MainOK
<1>r. \A i \in Rows : offspring[i] \in RowSet
  BY <1>0
<1>s. pc \in {"start", "record"} => ~Used(slot)
  BY <1>0 DEF UnixTableOK, UnixTable, NTTableOK, NTTable
<1>1. CASE Accept
  BY <1>1, CountsKept DEF Accept, UsedRows, Used, Members, Live
<1>2. CASE BeginThread \/ Fork
  <2>1. pc = "start" /\ pc' = "record" /\ task' = NewTask
        /\ \/ offspring' = offspring
           \/ offspring' = [offspring EXCEPT ![slot] = [offspring[slot] EXCEPT !.msock = cur]]
    BY <1>2 DEF BeginThread, Begin, Fork
  <2>2. \A i \in Rows : offspring'[i].opid = offspring[i].opid
    BY <1>0, <1>r, <2>1 DEF RowSet
  <2>3. UsedRows' = UsedRows
    BY <2>2 DEF UsedRows, Used
  <2>4. cur \in Conns /\ task[cur].pc = "none" /\ task'[cur].pc = "start"
        /\ \A u \in Conns \ {cur} : task'[u] = task[u]
    <3> DEFINE S == {offspring[i].opid : i \in Rows} \ {0}
    <3>1. cur \in Conns /\ task[cur].pc = "none"
      BY <1>0, <2>1 DEF TasksOK
    <3>2. task' = [task EXCEPT ![cur] = [task[cur] EXCEPT !.pc = "start", !.sibs = S]]
      BY <2>1 DEF NewTask
    <3> HIDE DEF S
    <3>3. task[cur] \in TaskSet
      BY <1>0, <3>1
    <3>4. task'[cur] = [task[cur] EXCEPT !.pc = "start", !.sibs = S]
      BY <1>0, <3>1, <3>2
    <3>5. task'[cur].pc = "start"
      BY <3>3, <3>4 DEF TaskSet
    <3>6. QED
      BY <1>0, <3>1, <3>2, <3>5
  <2>5. cur \in Conns \ Members /\ Members' = Members \cup {cur}
    BY <2>4 DEF Members, Live, Ended
  <2>6. QED
    BY <2>1, <2>3, <2>5, CountsGrow
<1>3. CASE RecordThread \/ RecordPid
  <2>1. pc = "record" /\ pc' # "record" /\ task' = task
        /\ \/ offspring' = [offspring EXCEPT ![slot] = [offspring[slot] EXCEPT !.opid = ParentPid,
                                                                             !.thread = threadnum]]
           \/ offspring' = [offspring EXCEPT ![slot] = [offspring[slot] EXCEPT !.opid = cur]]
    BY <1>3 DEF RecordThread, RecordPid
  <2>2. offspring'[slot].opid # 0 /\ \A i \in Rows \ {slot} : offspring'[i] = offspring[i]
    <3>1. cur \in Conns /\ cur # 0 /\ ParentPid # 0
      BY <1>0, <2>1 DEF ParentPid
    <3>2. slot \in Rows /\ DOMAIN offspring = Rows /\ DOMAIN offspring[slot] = {"opid", "msock", "thread"}
      BY <1>0, <1>r DEF RowSet
    <3>3. \A i \in Rows \ {slot} : offspring'[i] = offspring[i]
      BY <2>1, <3>2
    <3>4. offspring'[slot].opid \in {ParentPid, cur}
      BY <2>1, <3>2
    <3>5. QED
      BY <3>1, <3>3, <3>4
  <2>3. slot \in Rows \ UsedRows /\ UsedRows' = UsedRows \cup {slot}
    BY <1>0, <1>s, <2>1, <2>2 DEF UsedRows, Used
  <2>4. Members' = Members
    BY <2>1 DEF Members, Live
  <2>5. QED
    BY <2>1, <2>3, <2>4, CountsGrow
<1>4. CASE RecordSocket
  <2>1. pc = "socket" /\ pc' = "listen" /\ task' = task
        /\ offspring' = [offspring EXCEPT ![slot] = [offspring[slot] EXCEPT !.thread = threadnum,
                                                                           !.msock = cur]]
    BY <1>4 DEF RecordSocket
  <2>2. \A i \in Rows : offspring'[i].opid = offspring[i].opid
    BY <1>0, <1>r, <2>1 DEF RowSet
  <2>3. UsedRows' = UsedRows /\ Members' = Members
    BY <2>1, <2>2 DEF UsedRows, Used, Members, Live
  <2>4. QED
    BY <2>1, <2>3, CountsKept
<1>5. ASSUME NEW z \in Conns, Reap(z) PROVE Counts'
  <2> DEFINE hit == {i \in Rows : offspring[i].opid = z}
  <2>1. /\ Unix /\ pc' = pc /\ task[z].pc = "zombie"
        /\ offspring' = [i \in Rows |-> IF i \in hit THEN Free ELSE offspring[i]]
        /\ task' = [task EXCEPT ![z].pc = IF hit = {} THEN "unlisted" ELSE "reaped"]
    BY <1>5 DEF Reap, Cleared
  <2>2. /\ \A u \in Conns \ {z} : task'[u] = task[u]
        /\ task'[z].pc = IF hit = {} THEN "unlisted" ELSE "reaped"
    <3>1. task[z] \in TaskSet
      BY <1>0
    <3>2. QED
      BY <1>0, <2>1, <3>1 DEF TaskSet
  <2>3. \A i \in Rows : offspring'[i].opid = IF i \in hit THEN 0 ELSE offspring[i].opid
    BY <2>1 DEF Free
  <2>4. z \in Members
    BY <2>1 DEF Members
  <2>5. CASE hit = {}
    <3>1. UsedRows' = UsedRows
      BY <2>3, <2>5 DEF UsedRows, Used
    <3>2. Members' = Members
      BY <2>1, <2>2, <2>5 DEF Members, Live
    <3>3. QED
      BY <2>1, <3>1, <3>2, CountsKept
  <2>6. CASE hit # {}
    <3>1. PICK i \in Rows : offspring[i].opid = z
      BY <2>6
    <3>2. Used(i) /\ UnixTable
      BY <1>0, <2>1, <3>1 DEF Used, UnixTableOK
    <3>3. hit = {i}
      BY <3>1, <3>2 DEF UnixTable
    <3>4. i \in UsedRows /\ UsedRows' = UsedRows \ {i}
      BY <2>3, <3>2, <3>3 DEF UsedRows, Used
    <3>5. Members' = Members \ {z}
      BY <2>2, <2>6 DEF Members, Live, Ended
    <3>6. QED
      BY <2>1, <2>4, <3>4, <3>5, CountsKept
  <2>7. QED
    BY <2>5, <2>6
<1>6. CASE StartFails \/ ExitTold
  BY <1>6 DEF StartFails, ExitTold, ProcessExits
<1>7. CASE Terminate
  BY <1>7 DEF Terminate
<1>8. CASE TellChild \/ CloseChild \/ SkipRow \/ ToldChildGone
  BY <1>8 DEF TellChild, CloseChild, SkipRow, Telling, ToldChildGone
<1>9. QED
  BY <1>1, <1>2, <1>3, <1>4, <1>5, <1>6, <1>7, <1>8 DEF MainNext

(* Every step keeps the count. *)
LEMMA NextCounts ==
  ASSUME MainOK, TasksOK, UnixTableOK, NTTableOK, Counts, [Next]_vars PROVE Counts'
<1> SUFFICES ASSUME pc' # "exited", term'.at = "no" PROVE Counts'
  BY DEF Counts
<1>0. pc # "exited" /\ term.at = "no" /\ task \in [Conns -> TaskSet] /\ (Unix <=> ~NT)
  BY NotYet, Builds DEF TasksOK
<1>1. CASE MainNext
  BY <1>0, <1>1, MainCounts
<1>2. CASE UNCHANGED offspringVars
  BY <1>0, <1>2, CountsKept DEF UsedRows, Used, Members, Live
<1>3. ASSUME NEW t \in Conns, StepOf(t) PROVE Counts'
  <2>1. pc' = pc /\ \A u \in Conns \ {t} : Same(u)
    BY <1>3, DialogMain, DialogTask
  <2>2. ASSUME offspring' = offspring, task'[t].pc \in Ended => task'[t].pc = task[t].pc \/
                 (Live(t) /\ task'[t].pc \in {"zombie", "unlisted"}),
               Live(t)' => Live(t)
        PROVE  Counts'
    <3>1. UsedRows' = UsedRows
      BY <2>2 DEF UsedRows, Used
    <3>2. \A u \in Conns : (Live(u) \/ task[u].pc \in {"zombie", "unlisted"})'
                            <=> (Live(u) \/ task[u].pc \in {"zombie", "unlisted"})
      BY <2>1, <2>2 DEF Same, Live, Ended
    <3>3. Members' = Members
      BY <3>2 DEF Members
    <3>4. QED
      BY <1>0, <2>1, <3>1, <3>3, CountsKept
  <2>3. CASE NT /\ Finish(t) /\ Live(t) /\ task[t].pc # "start"
    <3>1. /\ task' = [task EXCEPT ![t].pc = IF HasRow(t) THEN "gone" ELSE "unlisted"]
          /\ offspring' = IF HasRow(t) THEN [offspring EXCEPT ![OwnRow(t)] = Free] ELSE offspring
      BY <1>0, <2>3 DEF Finish
    <3>2. task'[t].pc = IF HasRow(t) THEN "gone" ELSE "unlisted"
      BY <1>0, <3>1, PcSet DEF At, Places, Ended
    <3>3. CASE HasRow(t)
      <4>1. OwnRow(t) \in Rows /\ Used(OwnRow(t))
        BY <1>0, <2>3, <3>3, OwnRowUsed DEF NTTableOK
      <4>2. OwnRow(t) \in UsedRows /\ UsedRows' = UsedRows \ {OwnRow(t)}
        BY <3>1, <3>3, <4>1 DEF MainOK, UsedRows, Used, Free
      <4>3. t \in Members /\ Members' = Members \ {t}
        BY <2>1, <2>3, <3>2, <3>3 DEF Members, Same, Live, Ended
      <4>4. QED
        BY <1>0, <2>1, <4>2, <4>3, CountsKept
    <3>4. CASE ~HasRow(t)
      BY <2>2, <2>3, <3>1, <3>2, <3>4 DEF Live, Ended
    <3>5. QED
      BY <3>3, <3>4
  <2>4. CASE offspring' = offspring /\ ~(NT /\ Finish(t) /\ Live(t) /\ task[t].pc # "start")
    <3>1. \/ Same(t)
          \/ Copies(t)
          \/ \E x \in Places : At(t, x) /\ <<task[t].pc, x>> \in Path
          \/ Unix /\ Live(t) /\ \E told : Die(t, told)
      <4>1. Unix /\ Finish(t) => Die(t, {})
        BY DEF Finish
      <4>2. QED
        BY <1>0, <1>3, <2>4, <4>1, DialogTask
    <3>2. CASE Unix /\ Live(t) /\ \E told : Die(t, told)
      <4>1. PICK told : Die(t, told)
        BY <3>2
      <4>2. task'[t].pc = "zombie"
        BY <1>0, <4>1, DieZombie
      <4>3. QED
        BY <2>2, <2>4, <3>2, <4>2 DEF Live, Ended
    <3>3. CASE Same(t)
      BY <2>2, <2>4, <3>3 DEF Same, Live
    <3>4. CASE Copies(t)
      BY <2>2, <2>4, <3>4 DEF Copies, Live, Ended
    <3>5. CASE \E x \in Places : At(t, x) /\ <<task[t].pc, x>> \in Path
      BY <2>2, <2>4, <3>5 DEF At, Path, Live, Ended
    <3>6. QED
      BY <3>1, <3>2, <3>3, <3>4, <3>5
  <2>5. QED
    BY <1>3, <2>3, <2>4, DialogMain
<1>4. QED
  BY <1>1, <1>2, <1>3, NextIs DEF vars

-----------------------------------------------------------------------------
(* The start. *)
LEMMA InitIInv == DaemonsInit => IInv
<1> SUFFICES ASSUME DaemonsInit PROVE IInv
  OBVIOUS
<1> USE DEF DaemonsInit, Init, CallInit, ShellInit
<1>f. Free \in RowSet /\ Free.opid = 0 /\ Free.thread = 0
  BY DEF Free, RowSet
<1>u. \A i \in Rows : offspring[i] = Free /\ ~Used(i)
  BY <1>f DEF Used
<1>t. /\ task \in [Conns -> TaskSet]
      /\ \A t \in Conns : task[t].pc = "none" /\ task[t].msock = 0 /\ ~Live(t)
  <2>1. [pc |-> "none", msock |-> 0, num |-> 0, told |-> FALSE, sibs |-> {}] \in TaskSet
    BY DEF TaskSet, Places, Early
  <2>2. QED
    BY <2>1 DEF Live, Ended
<1>1. MainOK
  <2>1. 0 \in 0 .. scene.callers /\ 1 \in Rows
    BY Sizes DEF Rows
  <2>2. QED
    BY <1>f, <2>1 DEF MainOK
<1>2. TasksOK
  BY <1>t, Builds, <1>1 DEF TasksOK
<1>3. HoldersOK
  BY DEF HoldersOK, Heirs
<1>4. OutputOK
  <2>1. Counted
    <3>1. <<>> \in Seq(Nat)
      BY EmptySeq
    <3>2. [e \in Ends |-> {}] \in [Ends -> SUBSET Family]
      OBVIOUS
    <3>3. QED
      BY <3>1, <3>2 DEF Counted, Words
  <2>2. ASSUME NEW t \in Conns PROVE OutputOf(t)
    <3>1. Pieces(relayed[t], held[t], fromsh[t], produced[t], cut[t])
      BY PiecesNone
    <3>2. QED
      BY <1>t, <3>1 DEF OutputOf, Early
  <2>3. QED
    BY <2>1, <2>2 DEF OutputOK
<1>5. BytesOK
  <2>1. Typed
    <3>1. <<>> \in Seq(Bytes) /\ <<>> \in Seq(Piped)
      BY EmptySeq
    <3>2. QED
      BY <3>1 DEF Typed
  <2>2. ASSUME NEW t \in Conns PROVE BytesOf(t)
    BY <1>t, Sizes DEF BytesOf, Alone
  <2>3. QED
    BY <2>1, <2>2 DEF BytesOK
<1>6. UnixTableOK
  BY <1>u, <1>t, <1>f DEF UnixTableOK, UnixTable, ParentPid
<1>7. NTTableOK
  <2>1. Issued = {}
    BY <1>u, <1>t DEF Issued
  <2>2. QED
    BY <1>u, <1>t, <1>f, <2>1 DEF NTTableOK, NTTable
<1>8. Counts
  <2>1. UsedRows = {} /\ Members = {}
    BY <1>u, <1>t DEF UsedRows, Members
  <2>2. QED
    BY <2>1, FS_EmptySet DEF Counts
<1>9. QED
  BY <1>1, <1>2, <1>3, <1>4, <1>5, <1>6, <1>7, <1>8 DEF IInv

(* Every step keeps the invariant. *)
LEMMA NextIInv == IInv /\ [Next]_vars => IInv'
BY NextMain, NextTasks, NextHolders, NextOutput, NextBytes, NextUnixTable, NextNTTable,
   NextCounts
DEF IInv

(* The invariant holds. *)
LEMMA SpecIInv == Spec => []IInv
BY InitIInv, NextIInv, PTL DEF Spec

(* The bytes in their places, from the invariant. *)
LEMMA BytesTell == IInv => BytesInPlace
<1> SUFFICES ASSUME IInv, NEW t \in Conns, Alone(t)
             PROVE  /\ Len(written[t]) <= taken[t]
                    /\ \A k \in DOMAIN written[t] :
                         \/ written[t][k] = sent[t][k]
                         \/ written[t][k] = "lf" /\ sent[t][k] = "cr"
                         \/ written[t][k] = "nul" /\ k > 1 /\ sent[t][k - 1] \in {"cr", "lf"}
  BY DEF BytesInPlace, Alone
<1>1. Len(written[t]) <= taken[t] /\ InPlace(written[t], sent[t], 0)
  BY DEF IInv, BytesOK, BytesOf
<1>2. DOMAIN written[t] = 1 .. Len(written[t])
  BY LenProperties DEF IInv, BytesOK, Typed
<1>3. \A k \in 1 .. Len(written[t]) : 0 + k = k
  OBVIOUS
<1>4. QED
  BY <1>1, <1>2, <1>3 DEF InPlace

(* The types, from the invariant. *)
LEMMA TypesTell == IInv => TypeOK
<1> SUFFICES ASSUME IInv PROVE TypeOK
  OBVIOUS
<1>1. MainOK /\ TasksOK /\ HoldersOK /\ OutputOK /\ BytesOK
  BY DEF IInv
<1>2. \A i \in Rows : /\ offspring[i].opid \in {0, ParentPid} \cup Conns
                      /\ offspring[i].msock \in {-1} \cup Conns
  <2>1. \A i \in Rows : offspring[i] \in RowSet
    BY <1>1 DEF MainOK
  <2>2. QED
    BY <2>1 DEF RowSet
<1>3. ASSUME NEW t \in Conns
      PROVE  /\ task[t].pc \in Ended \cup {"start", "copied", "handled", "recv",
                           "pipes", "spawn", "close", "select", "write", "send", "finish"}
             /\ Serving(t) => task[t].msock \in Conns
             /\ holders[t] \subseteq Heirs(t)
             /\ taken[t] <= Len(sent[t])
  <2>1. task[t].pc \in Places
    <3>1. task[t] \in TaskSet
      BY <1>1 DEF TasksOK
    <3>2. QED
      BY <3>1 DEF TaskSet
  <2>2. Serving(t) => task[t].msock \in Conns
    BY <1>1 DEF TasksOK, Serving
  <2>4. holders[t] \subseteq Heirs(t)
    BY <1>1 DEF HoldersOK
  <2>5. taken[t] <= Len(sent[t])
    BY <1>1 DEF BytesOK, BytesOf
  <2>6. QED
    BY <2>1, <2>2, <2>4, <2>5 DEF Places, Early, Ended
<1>4. QED
  BY <1>1, <1>2, <1>3 DEF TypeOK, MainOK

(* The rows of the table, from the invariant. *)
LEMMA RowsTell == IInv => TableTells /\ RowsAccounted
<1> SUFFICES ASSUME IInv PROVE TableTells /\ RowsAccounted
  OBVIOUS
<1>1. MainOK /\ TasksOK /\ UnixTableOK /\ NTTableOK /\ Counts
  BY DEF IInv
<1>2. ASSUME pc = "listen", term.at = "no", NEW t \in Conns
      PROVE  /\ Unix =>
                  /\ Live(t) => Cardinality({i \in Rows : Named(t, i)}) = 1
                  /\ task[t].pc = "reaped" => \A i \in Rows : offspring[i].opid # t
             /\ NT /\ Serving(t) /\ task[t].msock = t
                   /\ (\A u \in Conns \ {t} : task[u].msock # t) =>
                  Cardinality({i \in Rows : Threaded(t, i)}) = 1
  BY <1>1, <1>2, UnixTells, NTTells
<1>3. TableTells
  BY <1>2 DEF TableTells
<1>4. ASSUME pc = "listen", term.at = "no"
      PROVE  Cardinality(UsedRows) = Cardinality(Members)
  <2>1. UsedRows \subseteq Rows
    BY DEF UsedRows
  <2>2. Cardinality(UsedRows) \in Nat
    BY <2>1, Finite, FS_Subset, FS_CardinalityType
  <2>3. QED
    BY <1>1, <1>4, <2>2 DEF Counts
<1>5. RowsAccounted
  BY <1>4 DEF RowsAccounted, UsedRows, Members
<1>6. QED
  BY <1>3, <1>5

(* What the caller gets of the shell's output is in order, and whole unless *)
(* a send() was cut short: nothing is lost in the pipe or the session's     *)
(* buffer, and a session that has read to the end has sent everything, in   *)
(* both builds: under NT although a second thread sends, and the first one  *)
(* ends the session (s_daemon.c:873-888, 949-973, 1041-1076).               *)
THEOREM OutputIsWhole == Spec => []OutputWhole
<1>1. ASSUME IInv, NEW t \in Conns
      PROVE  /\ \A k \in 2 .. Len(relayed[t]) : relayed[t][k - 1] < relayed[t][k]
             /\ ~cut[t] =>
                  /\ \A k \in 1 .. Len(relayed[t]) : relayed[t][k] = k
                  /\ Len(relayed[t]) + Len(held[t]) + Len(fromsh[t]) = produced[t]
                  /\ cause[t] = "eof" => Len(relayed[t]) = produced[t]
             /\ cut[t] => Unix /\ (shell[t] = "exited" \/ hungup[t])
  <2>1. OutputOf(t) /\ relayed[t] \in Seq(Nat)
    BY <1>1 DEF IInv, OutputOK, Counted
  <2>2. PICK p \in Nat :
          /\ p + Len(held[t]) + Len(fromsh[t]) = produced[t]
          /\ Ordered(relayed[t])
          /\ ~cut[t] => Len(relayed[t]) = p /\ Follow(relayed[t], 0)
    BY <2>1, Zenon DEF OutputOf, Pieces
  <2>3. ~cut[t] => \A k \in 1 .. Len(relayed[t]) : relayed[t][k] = k
    <3>1. ~cut[t] => \A k \in 1 .. Len(relayed[t]) : relayed[t][k] = 0 + k
      BY <2>2 DEF Follow
    <3>2. \A k \in 1 .. Len(relayed[t]) : 0 + k = k
      OBVIOUS
    <3>3. QED
      BY <3>1, <3>2
  <2>4. ~cut[t] /\ cause[t] = "eof" => Len(relayed[t]) = produced[t]
    <3>1. cause[t] = "eof" => held[t] = <<>> /\ fromsh[t] = <<>>
      BY <2>1 DEF OutputOf
    <3>2. Len(<<>>) = 0 /\ p + 0 + 0 = p
      OBVIOUS
    <3>3. QED
      BY <2>2, <3>1, <3>2
  <2>5. QED
    BY <2>1, <2>2, <2>3, <2>4 DEF OutputOf, Ordered
<1>2. IInv => OutputWhole
  BY <1>1 DEF OutputWhole
<1>3. QED
  BY <1>2, SpecIInv, PTL

(* What a caller types reaches the shell byte for byte, in its place, save  *)
(* for what end-of-line handling changes, however recv() cuts it and        *)
(* whatever other sessions do (s_daemon.c:902-940).                         *)
THEOREM BytesAreInPlace == Spec => []BytesInPlace
BY BytesTell, SpecIInv, PTL

(* While main() listens, offspring[] names every live child once (Unix) or  *)
(* every thread with arguments of its own (NT), and no row is used but by   *)
(* these and those who ended without finding theirs, whatever the number of *)
(* rows and callers; and in every state the types hold, with all the        *)
(* descriptors that children and shells inherit (s_daemon.c:292-394,        *)
(* 534-555, 814-828, 978-1003).                                             *)
THEOREM TableIsKept == Spec => []TableKept
<1>1. IInv => TableKept
  BY TypesTell, RowsTell DEF TableKept
<1>2. QED
  BY <1>1, SpecIInv, PTL
================================================================================
