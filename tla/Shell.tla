-------------------------------- MODULE Shell --------------------------------
(***************************************************************************)
(* cmps3620/code/lab6/s_sh.c, Unix build: how the shell starts commands,   *)
(* waits for the inline ones, keeps the backgrounded ones in proc[] and    *)
(* learns of deaths in child_exit(), the SIGCLD handler.                   *)
(*                                                                         *)
(* The handler interrupts main() between any two of its steps unless       *)
(* SIGCLD is blocked: sigprocmask() blocks it from just before an inline   *)
(* wait to just after, and sigsuspend() lets it in.  SIGCLD is one pending *)
(* bit: deaths that happen while it is pending raise no second one.        *)
(* signal() is the BSD one (SIGCLD stays blocked while child_exit() runs,  *)
(* stops and continues raise SIGCLD too, read() restarts).                 *)
(*                                                                         *)
(* What a command line says is abstracted to what main() does with it: an  *)
(* inline command, a job ("&"), "exit", the end of the input, or anything  *)
(* that starts no process (internal commands, errors, names not found).    *)
(***************************************************************************)
EXTENDS Naturals, FiniteSets

CONSTANTS
  Pids,            \* process ids the kernel hands out, and reuses once reaped
  PROCESS_LINES    \* size of proc[]

ASSUME ShellAssumption ==
  /\ IsFiniteSet(Pids)
  /\ 0 \notin Pids
  /\ PROCESS_LINES \in Nat \ {0}

VARIABLES
  pc,              \* where main() is
  opid,            \* what fork() returned
  no_waitflag,     \* the command is a job
  no_waitslot,     \* the slot found for it
  inline_opid,     \* the inline command waited for, or 0
  last_SIGCLD,     \* the last child reaped, or 0
  proc,            \* proc[].opid, 0 in an unused slot
  child,           \* what each process is
  role,            \* why it was started
  inherited,       \* proc[] as a copy of the shell inherited it
  pending,         \* SIGCLD is pending
  handler,         \* child_exit() is on the stack, before wait() returns
  stops,           \* history: a child was stopped from outside
  lone             \* history: the shell had no other child at its last fork()

mainVars  == <<pc, opid, no_waitflag, no_waitslot>>
tableVars == <<inline_opid, last_SIGCLD, proc>>
childVars == <<child, role, inherited>>
ghosts == <<stops, lone>>
vars == <<mainVars, tableVars, childVars, pending, handler, ghosts>>

Slots == 0 .. PROCESS_LINES - 1

Ended   == {"exited", "gone"}          \* main() returned, exit(0) at end of file
Masked  == {"masked", "test", "unmask"}   \* SIGCLD is blocked
Waiting == {"masked", "test", "asleep"}   \* on behalf of an inline command

Alive == {"run", "stopped", "copy"}
Live  == {p \in Pids : child[p] \in Alive}
Dead  == {p \in Pids : child[p] = "zombie"}

Init ==
  /\ pc = "prompt" /\ opid = 0 /\ no_waitflag = FALSE /\ no_waitslot = 0
  /\ inline_opid = 0 /\ last_SIGCLD = 0 /\ proc = [i \in Slots |-> 0]
  /\ child = [p \in Pids |-> "none"]
  /\ role = [p \in Pids |-> "none"]
  /\ inherited = [p \in Pids |-> {}]
  /\ pending = FALSE /\ handler = FALSE /\ stops = FALSE /\ lone = FALSE

------------------------------------------------------------------------------
(* main(): the command loop.  It runs only while the handler does not.     *)

MainAt(l) == pc = l /\ ~handler
GoTo(l)   == pc' = l

Prompt ==
  /\ MainAt("prompt") /\ GoTo("read")
  /\ no_waitflag' = FALSE
  /\ UNCHANGED <<opid, no_waitslot, tableVars, childVars, pending, handler, ghosts>>

\* Every command line that starts no process goes back to the prompt.
ReadOther ==
  /\ MainAt("read") /\ GoTo("prompt")
  /\ UNCHANGED <<opid, no_waitflag, no_waitslot, tableVars, childVars, pending, handler, ghosts>>

ReadInline ==
  /\ MainAt("read") /\ GoTo("fork")
  /\ UNCHANGED <<opid, no_waitflag, no_waitslot, tableVars, childVars, pending, handler, ghosts>>

FreeSlots == {i \in Slots : proc[i] = 0}
FirstOf(S) == CHOOSE i \in S : \A j \in S : i <= j

\* A line that ends in "&": without a free slot the command is refused.
ReadJob ==
  /\ MainAt("read")
  /\ \/ /\ FreeSlots # {}
        /\ no_waitslot' = FirstOf(FreeSlots)
        /\ no_waitflag' = TRUE
        /\ GoTo("fork")
     \/ /\ FreeSlots = {}
        /\ no_waitslot' = PROCESS_LINES
        /\ GoTo("prompt")
        /\ UNCHANGED no_waitflag
  /\ UNCHANGED <<opid, tableVars, childVars, pending, handler, ghosts>>

\* execve() fails on a file that may not be executed; the offspring then
\* runs on as a second shell, with a copy of proc[].
Fork ==
  /\ MainAt("fork") /\ GoTo("forked")
  /\ \E p \in Pids, s \in {"run", "copy"} :
       /\ child[p] = "none"
       /\ p # last_SIGCLD            \* process ids are handed out in turn
       /\ opid' = p
       /\ child' = [child EXCEPT ![p] = s]
       /\ role' = [role EXCEPT ![p] = IF no_waitflag THEN "job" ELSE "inline"]
       /\ inherited' = [inherited EXCEPT ![p] =
                          IF s = "copy" THEN {proc[i] : i \in Slots} \ {0} ELSE {}]
       /\ lone' = (\A q \in Pids \ {p} : child[q] = "none")
  /\ UNCHANGED <<no_waitflag, no_waitslot, tableVars, pending, handler, stops>>

ForkFails ==
  /\ MainAt("fork") /\ GoTo("prompt")
  /\ UNCHANGED <<opid, no_waitflag, no_waitslot, tableVars, childVars, pending, handler, ghosts>>

Record ==
  /\ MainAt("forked") /\ no_waitflag /\ GoTo("prompt")
  /\ proc' = [proc EXCEPT ![no_waitslot] = opid]
  /\ UNCHANGED <<opid, no_waitflag, no_waitslot, inline_opid, last_SIGCLD,
                 childVars, pending, handler, ghosts>>

BlockSigcld ==
  /\ MainAt("forked") /\ ~no_waitflag /\ GoTo("masked")
  /\ UNCHANGED <<opid, no_waitflag, no_waitslot, tableVars, childVars, pending, handler, ghosts>>

\* Mutant of ReapedEarly: the second race is not looked for.
NeverEarly == FALSE

ReapedEarly == last_SIGCLD = opid

SetInline ==
  /\ MainAt("masked")
  /\ inline_opid' = opid
  /\ GoTo(IF ReapedEarly THEN "unmask" ELSE "test")
  /\ UNCHANGED <<opid, no_waitflag, no_waitslot, last_SIGCLD, proc,
                 childVars, pending, handler, ghosts>>

\* Mutant of TestInline: main() calls waitpid() itself, as it once did.
WaitpidInline ==
  /\ MainAt("test")
  /\ \/ /\ child[opid] = "zombie"
        /\ child' = [child EXCEPT ![opid] = "none"]
        /\ role' = [role EXCEPT ![opid] = "none"]
        /\ inline_opid' = 0
        /\ GoTo("unmask")
     \/ /\ child[opid] # "zombie"
        /\ GoTo("asleep")
        /\ UNCHANGED <<child, role, inline_opid>>
  /\ UNCHANGED <<opid, no_waitflag, no_waitslot, last_SIGCLD, proc, inherited,
                 pending, handler, ghosts>>

TestInline ==
  /\ MainAt("test")
  /\ GoTo(IF inline_opid = opid THEN "asleep" ELSE "unmask")
  /\ UNCHANGED <<opid, no_waitflag, no_waitslot, tableVars, childVars, pending, handler, ghosts>>

RestoreMask ==
  /\ MainAt("unmask") /\ GoTo("prompt")
  /\ UNCHANGED <<opid, no_waitflag, no_waitslot, tableVars, childVars, pending, handler, ghosts>>

\* "exit": SIGCLD is ignored from here, so whoever is killed leaves no zombie.

Listed == {proc[i] : i \in Slots}

ReadExit ==
  /\ MainAt("read") /\ GoTo("exited")
  /\ pending' = FALSE
  /\ child' = [p \in Pids |-> IF p \in Listed THEN "none" ELSE child[p]]
  /\ role' = [p \in Pids |-> IF p \in Listed THEN "none" ELSE role[p]]
  /\ inherited' = [p \in Pids |-> IF p \in Listed THEN {} ELSE inherited[p]]
  /\ UNCHANGED <<opid, no_waitflag, no_waitslot, tableVars, handler, ghosts>>

ReadEnd ==
  /\ MainAt("read") /\ GoTo("gone")
  /\ UNCHANGED <<opid, no_waitflag, no_waitslot, tableVars, childVars, pending, handler, ghosts>>

------------------------------------------------------------------------------
(* child_exit(), the SIGCLD handler                                        *)

Deliver ==
  /\ pending /\ ~handler /\ pc \notin Masked \cup Ended
  /\ handler' = TRUE /\ pending' = FALSE
  /\ GoTo(IF pc = "asleep" THEN "test" ELSE pc)   \* sigsuspend() will return
  /\ UNCHANGED <<opid, no_waitflag, no_waitslot, tableVars, childVars, ghosts>>

\* Mutant of InlineAfter: any death ends the wait.
InlineDone(p) == 0

InlineAfter(p) == IF p = inline_opid THEN 0 ELSE inline_opid

SlotsHolding(p) == {i \in Slots : proc[i] = p}

\* Mutant of ProcAfter: the first used slot is freed, whoever died.
FirstUsedFreed(p) ==
  IF FreeSlots = Slots THEN proc ELSE [proc EXCEPT ![FirstOf(Slots \ FreeSlots)] = 0]

ProcAfter(p) ==
  IF SlotsHolding(p) = {} THEN proc
  ELSE [proc EXCEPT ![FirstOf(SlotsHolding(p))] = 0]

\* wait() returns any child that is dead; with none dead it blocks.
Reap ==
  /\ handler
  /\ \E p \in Dead :
       /\ child' = [child EXCEPT ![p] = "none"]
       /\ role' = [role EXCEPT ![p] = "none"]
       /\ inherited' = [inherited EXCEPT ![p] = {}]
       /\ last_SIGCLD' = p
       /\ inline_opid' = InlineAfter(p)
       /\ proc' = ProcAfter(p)
  /\ handler' = FALSE
  /\ UNCHANGED <<mainVars, pending, ghosts>>

\* wait() fails with ECHILD.
FalseAlarm ==
  /\ handler /\ Live = {} /\ Dead = {}
  /\ handler' = FALSE
  /\ UNCHANGED <<mainVars, tableVars, childVars, pending, ghosts>>

------------------------------------------------------------------------------
(* The children, and whoever stops and continues them                      *)

Killed(S) ==
  /\ child' = [p \in Pids |-> IF p \in S \cap Live THEN "zombie" ELSE child[p]]
  /\ pending' = TRUE

Die(p) ==
  /\ pc \notin Ended /\ p \in Live
  /\ Killed({p})
  /\ UNCHANGED <<mainVars, tableVars, role, inherited, handler, ghosts>>

\* "exit" typed to a copy of the shell kills the jobs of the table it inherited.
CopyExits(p) ==
  /\ pc \notin Ended /\ child[p] = "copy" /\ inherited[p] \ {p} # {}
  /\ Killed({p} \cup inherited[p])
  /\ UNCHANGED <<mainVars, tableVars, role, inherited, handler, ghosts>>

Stop(p) ==
  /\ pc \notin Ended /\ child[p] = "run"
  /\ child' = [child EXCEPT ![p] = "stopped"]
  /\ pending' = TRUE /\ stops' = TRUE
  /\ UNCHANGED <<mainVars, tableVars, role, inherited, handler, lone>>

Continue(p) ==
  /\ pc \notin Ended /\ child[p] = "stopped"
  /\ child' = [child EXCEPT ![p] = "run"]
  /\ pending' = TRUE
  /\ UNCHANGED <<mainVars, tableVars, role, inherited, handler, ghosts>>

------------------------------------------------------------------------------
MainStep ==
  \/ Prompt \/ Fork \/ ForkFails \/ Record
  \/ BlockSigcld \/ SetInline \/ TestInline \/ RestoreMask

Command == ReadOther \/ ReadInline \/ ReadJob \/ ReadExit \/ ReadEnd

HandlerStep == Deliver \/ Reap \/ FalseAlarm

ChildStep == \E p \in Pids : Die(p) \/ CopyExits(p) \/ Stop(p) \/ Continue(p)

Next == MainStep \/ Command \/ HandlerStep \/ ChildStep

Spec == Init /\ [][Next]_vars

\* The kernel runs the shell and delivers signals; nobody need type a
\* command, and no child need end.
FairSpec == Spec /\ WF_vars(MainStep) /\ WF_vars(HandlerStep)

------------------------------------------------------------------------------
(* Properties                                                              *)

\* Type invariant: the values of the shell's variables, and of the kernel's.
TypeOK ==
  /\ pc \in {"prompt", "read", "fork", "forked", "masked", "test", "asleep",
             "unmask", "exited", "gone"}
  /\ opid \in Pids \cup {0}
  /\ no_waitflag \in BOOLEAN /\ no_waitslot \in 0 .. PROCESS_LINES
  /\ no_waitflag => no_waitslot \in Slots
  /\ inline_opid \in Pids \cup {0}
  /\ last_SIGCLD \in Pids \cup {0}
  /\ proc \in [Slots -> Pids \cup {0}]
  /\ child \in [Pids -> {"none", "run", "stopped", "copy", "zombie"}]
  /\ role \in [Pids -> {"none", "inline", "job"}]
  /\ inherited \in [Pids -> SUBSET Pids]
  /\ pending \in BOOLEAN /\ handler \in BOOLEAN
  /\ stops \in BOOLEAN /\ lone \in BOOLEAN

\* Whatever signals arrive while an inline command runs (lines 1042-1106), the
\* shell prompts for the next command only when that command has been reaped.
ForegroundWaited ==
  pc \in {"prompt", "read"} => \A p \in Pids : role[p] # "inline"

\* While nobody stops a child, the wait() of child_exit() (line 1134) finds a
\* dead child: it neither blocks the shell nor fails, although several deaths
\* can share one SIGCLD.
WaitHasZombie == handler /\ ~stops => Dead # {}

\* At the prompt every job that still lives is in proc[]: "jobs" lists it and
\* "exit" will kill it, whatever slots child_exit() freed and copies of the
\* shell killed meanwhile.
LiveJobListed ==
  pc \in {"prompt", "read"} =>
    \A p \in Live : role[p] = "job" => \E i \in Slots : proc[i] = p

\* After "exit" (lines 673-705) no job is left behind.
ExitKillsJobs == pc = "exited" => \A p \in Live : role[p] # "job"

\* A slot that holds a process id is emptied only by the death of that
\* process and never given to another job before.
SlotKeptUntilDeath ==
  [][\A i \in Slots : proc[i] # 0 /\ proc'[i] # proc[i] =>
       /\ proc'[i] = 0
       /\ child[proc[i]] = "zombie" /\ child'[proc[i]] = "none"]_vars

\* The jobs and proc[]: each is listed while it lives, is the only one ever in
\* its slot, and is killed by exit (lines 673-705, 1046-1053, 1134-1160).
JobsKept == []LiveJobListed /\ SlotKeptUntilDeath /\ []ExitKillsJobs

\* An inline command that was started while the shell had no other child,
\* alive or unreaped, is never waited for beyond its death: the flag, the mask
\* and the test of last_SIGCLD (lines 1027-1106) lose no wakeup.
LoneWaitEnds == (pc \in Waiting /\ lone /\ opid \notin Live) ~> (pc = "prompt")

------------------------------------------------------------------------------
(* The inductive invariant: what each part of the code relies on.          *)

RoleInv == \A p \in Pids : role[p] = "none" <=> child[p] = "none"

(* Only the process main() has just forked is waited for, and main() knows *)
(* when it has been reaped, however early.                                 *)
ForegroundInv ==
  /\ pc \in {"prompt", "read", "fork"} => \A p \in Pids : role[p] # "inline"
  /\ \A p \in Pids : role[p] = "inline" =>
       p = opid /\ ~no_waitflag /\ pc \in {"forked", "masked", "test", "asleep"}
  /\ pc \in {"forked", "masked"} /\ last_SIGCLD = opid => child[opid] = "none"
  /\ pc \in {"test", "asleep"} /\ inline_opid # opid => child[opid] = "none"
  /\ pc \in {"forked", "masked", "test", "asleep"} => opid \in Pids
  /\ pc \in {"read", "masked", "test", "asleep"} => ~no_waitflag

(* The slot found for a job stays free until the job is recorded in it.    *)
SlotInv ==
  pc \in {"fork", "forked"} /\ no_waitflag =>
    no_waitslot \in Slots /\ proc[no_waitslot] = 0

JobInv ==
  \A p \in Live : role[p] = "job" =>
    \/ pc \in Ended
    \/ \E i \in Slots : proc[i] = p
    \/ pc = "forked" /\ no_waitflag /\ opid = p

EndInv == handler => pc \notin Ended

IInv ==
  /\ TypeOK /\ RoleInv /\ ForegroundInv /\ SlotInv /\ JobInv /\ EndInv
  /\ ExitKillsJobs

(* Without stops, every SIGCLD raised or being handled has its own zombie. *)
ZombieInv ==
  ~stops =>
    /\ \A p \in Pids : child[p] # "stopped"
    /\ pending \/ handler => \E p \in Pids : child[p] = "zombie"
    /\ pending /\ handler =>
         \E p, q \in Pids : p # q /\ child[p] = "zombie" /\ child[q] = "zombie"
=============================================================================
