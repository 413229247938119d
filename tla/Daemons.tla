-------------------------------- MODULE Daemons --------------------------------
(***************************************************************************)
(* daemon.c and s_daemon.c, each in both builds: main() and its table      *)
(* (Offspring) with what an offspring does (LineDaemon, ShellDaemon).      *)
(***************************************************************************)
EXTENDS ShellDaemon

vars == <<offspringVars, callVars, shellVars>>

DaemonsInit == Init /\ CallInit /\ ShellInit

Dialog(t) ==
  \/ (CopyArguments(t) \/ SetHandlers(t) \/ BeReady(t)) /\ UNCHANGED <<callVars, shellVars>>
  \/ LineNext(t) /\ UNCHANGED shellVars
  \/ SessionNext(t)
  \/ SessionTold(t)

Next ==
  \/ MainNext /\ UNCHANGED <<callVars, shellVars>>
  \/ CallNext /\ UNCHANGED shellVars
  \/ \E t \in Conns : \/ Dialog(t) \/ SelectEnds(t)
                      \/ ShellReads(t) \/ ShellPrints(t) \/ ShellExits(t) \/ ShellSeesEnd(t)

Spec == DaemonsInit /\ [][Next]_vars

\* Processes go on, the shell reads what it is sent and the end of it.
FairSpec ==
  /\ Spec
  /\ \A t \in Conns : WF_vars(Dialog(t)) /\ WF_vars(ShellReads(t) \/ ShellSeesEnd(t))

------------------------------------------------------------------------------
(* Properties                                                               *)

\* Who may have a descriptor of connection c: under Unix nobody who began
\* before it was accepted.
Heirs(c) ==
  {Main} \cup UNION {{Proc(u), ShellOf(u)} : u \in {v \in Conns : Unix => v >= c}}

TypeOK ==
  /\ pc \in {"listen", "start", "record", "socket", "exited"}
  /\ cur \in 0 .. scene.callers /\ slot \in Rows
  /\ \A i \in Rows : /\ offspring[i].opid \in {0, ParentPid} \cup Conns
                     /\ offspring[i].msock \in {-1} \cup Conns
  /\ \A t \in Conns : /\ task[t].pc \in Ended \cup {"start", "copied", "handled", "recv",
                           "pipes", "spawn", "close", "select", "write", "send", "finish"}
                      /\ Serving(t) => task[t].msock \in Conns
                      /\ holders[t] \subseteq Heirs(t)
                      /\ taken[t] <= Len(sent[t])

(* While main() listens, offspring[] tells the truth.  Under Unix it names  *)
(* every live child, in one row, and nobody who has been waited for, save   *)
(* one who died before its row was made; under NT every thread that has     *)
(* its own arguments, which no other thread has copied too, is in a row     *)
(* with its number and socket (s_daemon.c:292-394, 534-555, 978-1003).      *)
Named(t, i) == offspring[i].opid = t /\ offspring[i].msock = t
Threaded(t, i) == /\ Used(i) /\ offspring[i].thread = task[t].num
                  /\ offspring[i].msock = t
TableTells ==
  pc = "listen" /\ term.at = "no" =>
    \A t \in Conns :
      /\ Unix =>
           /\ Live(t) => Cardinality({i \in Rows : Named(t, i)}) = 1
           /\ task[t].pc = "reaped" => \A i \in Rows : offspring[i].opid # t
      /\ NT /\ Serving(t) /\ task[t].msock = t
            /\ (\A u \in Conns \ {t} : task[u].msock # t) =>
           Cardinality({i \in Rows : Threaded(t, i)}) = 1

(* No row is lost or given twice but to an offspring that ended without     *)
(* finding its own: while main() listens, as many rows are used as there    *)
(* are offspring that live, wait to be waited for, or ended unlisted - a    *)
(* child that died before fork()'s value was stored, a thread that ended    *)
(* before its number was, or whose row another thread with the same copied  *)
(* arguments had freed (s_daemon.c:338-345, 358-395, 659, 524-555,          *)
(* 993-1003).                                                               *)
RowsAccounted ==
  pc = "listen" /\ term.at = "no" =>
    Cardinality({i \in Rows : Used(i)})
      = Cardinality({t \in Conns : Live(t) \/ task[t].pc \in {"zombie", "unlisted"}})

(* The table and what depends on it, in every state.                        *)
TableKept == TypeOK /\ TableTells /\ RowsAccounted

(* Each byte of a caller reaches its shell in its place: but a CR may have  *)
(* become LF, and what follows an end of line may have become NUL, which    *)
(* s_sh skips (s_daemon.c:915-937).                                         *)
BytesInPlace ==
  \A t \in Conns :
    task[t].msock = t /\ (\A u \in Conns \ {t} : task[u].msock # t) =>
      /\ Len(written[t]) <= taken[t]
      /\ \A k \in DOMAIN written[t] :
           \/ written[t][k] = sent[t][k]
           \/ written[t][k] = "lf" /\ sent[t][k] = "cr"
           \/ written[t][k] = "nul" /\ k > 1 /\ sent[t][k - 1] \in {"cr", "lf"}

(* What the caller gets of the shell's output is in order and has nothing   *)
(* twice.  Unless a send() was cut short it has no gap either, what is not  *)
(* yet sent is still in the session's buffer or the pipe, and a session     *)
(* that has read to the end has sent everything.  A send() that goes on     *)
(* short can only be one of a Unix session whose shell has died or whose    *)
(* caller has left (s_daemon.c:873-888, 949-965, 1041-1076).                *)
OutputWhole ==
  \A t \in Conns :
    /\ \A k \in 2 .. Len(relayed[t]) : relayed[t][k - 1] < relayed[t][k]
    /\ ~cut[t] =>
         /\ \A k \in 1 .. Len(relayed[t]) : relayed[t][k] = k
         /\ Len(relayed[t]) + Len(held[t]) + Len(fromsh[t]) = produced[t]
         /\ cause[t] = "eof" => Len(relayed[t]) = produced[t]
    /\ cut[t] => Unix /\ (shell[t] = "exited" \/ hungup[t])

(* When a caller of s_daemon hangs up, or its session is ended, the session *)
(* process and the shell end, although the shell reads from a pipe that the *)
(* session has no longer anybody to close for: nobody has kept the other    *)
(* end of it.  The connection then is open at most in main() and in those   *)
(* who began later, while main() had it open: main() keeps it until it has  *)
(* waited for the session, although it says that it closes it               *)
(* (s_daemon.c:358-382, 541-550, 814-849, 969-973).                         *)
SessionLetsGo ==
  \A t \in Conns :
    scene.program = "s_daemon" /\ Unix /\ task[t].pc # "none"
      /\ (hungup[t] \/ task[t].told \/ ~Live(t))
    ~> /\ ~Live(t) /\ shell[t] # "runs"
       /\ \A c \in Conns : {Proc(t), ShellOf(t)} \cap holders[c] = {}
       /\ \A u \in Conns : u < t => {Proc(u), ShellOf(u)} \cap holders[t] = {}
=============================================================================
