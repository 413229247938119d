--------------------------------- MODULE Getty ---------------------------------
(***************************************************************************)
(* cmps3620/code/lab6/s_getty.c, the Unix build: one process accepts one   *)
(* caller at a time, takes a user name on the bare socket, opens a pseudo  *)
(* terminal, forks pre_login() onto its slave side and then relays between *)
(* the socket and the master side until one of them ends; then it kills    *)
(* the offspring, waits for it and listens again.                          *)
(*                                                                         *)
(*     caller <--in, writes--> s_getty <--ptyin, ptyout--> pre_login/shell *)
(*                                                                         *)
(* Descriptors are numbers.  The process closes 0 and 1 after its first    *)
(* fork, so the sockets and terminals of a later session take the numbers  *)
(* that pre_login() is about to dup2() onto: both descriptor tables are    *)
(* modelled, with the kernel's rule that a new descriptor is the lowest    *)
(* free number.                                                            *)
(*                                                                         *)
(* A byte is <<caller who typed it, character>>.  What s_getty and the     *)
(* shell write is counted, not spelled out.  Time is left out: a timeout   *)
(* may come whenever nothing is readable, a sleep() takes any time.        *)
(***************************************************************************)
EXTENDS Integers, Sequences

CONSTANTS
  Callers,      \* each places one call
  Local,        \* the callers whose host check_host() accepts
  Letters,      \* characters without a meaning to s_getty
  Names,        \* what check_user() finds, with a uid of 1024 or more
  Codes,        \* the socket codes of those users
  Build,        \* the socket code check compiled in: "none", "bsd43", "c2"
  MaxTries,     \* MAX_TRIES
  MaxSess,      \* MAX_SESS, the length of the listen queue
  PacketSize,   \* PACKET_SIZE, what one read of get_schar() takes
  ReadSize,     \* 80, what one read of the relay takes
  PtySize,      \* what the slave side of the terminal holds unread
  Window,       \* what a connection holds unread
  MaxSent,      \* bound: how much each caller sends
  Keys,         \* bound: the characters each caller types
  MaxOut,       \* bound: unread writes to the slave side
  LastFd        \* bound: the highest descriptor number

ASSUME ConstantsAssumption ==
  /\ Local \subseteq Callers
  /\ Names \subseteq Seq(Letters) /\ Codes \subseteq Seq(Letters)
  /\ Build \in {"none", "bsd43", "c2"}
  /\ {MaxTries, MaxSess, PacketSize, ReadSize, PtySize, Window, MaxOut} \subseteq Nat \ {0}
  /\ Keys \in [Callers -> SUBSET (Letters \cup {"BS", "NL", "REINIT", "DOKILL"})]
  /\ MaxSent \in [Callers -> Nat] /\ LastFd \in Nat
  /\ Callers \cap {"closed", "std", "sock", "master", "slave"} = {}

Controls == {"REINIT", "DOKILL"}            \* GET_REINIT, GET_DOKILL
Chars == Letters \cup Controls \cup {"BS", "NL"}
Fds   == 0 .. LastFd

VARIABLES
  pc,          \* s_getty: where it is
  fds,         \* its descriptor table
  msgsock, ps_master, ps_slave, sh_pid, first_fork, numtries,
  gbuf,        \* what get_schar() has read and not yet returned
  obuf,        \* the user name so far
  ready,       \* what the last select() found, not yet dealt with
  after,       \* where to go after offspring_stop()
  child,       \* the offspring: pre_login(), then the shell
  lastpid,     \* the last process id the kernel has given
  queue,       \* connections waiting for accept()
  conn,        \* the call of each caller
  ptyin,       \* written to the master side, not yet read from the slave
  ptyout       \* writes to the slave side, not yet read from the master

sessionVars == <<msgsock, ps_master, ps_slave, sh_pid, first_fork>>
gettyVars == <<pc, fds, sessionVars>>
loginVars == <<numtries, gbuf, obuf>>
relayVars == <<ready, after>>
ptyVars   == <<ptyin, ptyout>>
netVars   == <<queue, conn>>
childVars == <<child, lastpid>>
vars == <<gettyVars, loginVars, relayVars, childVars, netVars, ptyVars>>

AllClosed == [d \in Fds |-> "closed"]
NoChild   == [pc |-> "none", pid |-> 0, fds |-> AllClosed, tries |-> 0,
              answer |-> <<>>]

(* Type invariant: the values the variables may take. *)
TypeOK ==
  /\ pc \in {"listen", "check", "login", "openps", "fork", "relay", "kill",
             "wait", "exited", "killed"}
  /\ fds \in [Fds -> {"closed", "std", "sock", "master", "slave"} \cup Callers]
  /\ {msgsock, ps_master, ps_slave} \subseteq Fds \cup {-1}
  /\ sh_pid \in Nat /\ first_fork \in BOOLEAN
  /\ numtries \in 0 .. MaxTries
  /\ gbuf \in Seq(Callers \X Chars) /\ obuf \in Seq(Callers \X Chars)
  /\ ready \subseteq {"ptty", "sock"}
  /\ after \in {"listen", "exit"}
  /\ child.pc \in {"none", "prelogin", "code", "verdict", "exec", "shell", "zombie"}
  /\ child.pid \in 0 .. lastpid /\ lastpid \in Nat
  /\ child.fds \in [Fds -> {"closed", "std", "sock", "master", "slave"} \cup Callers]
  /\ child.tries \in 0 .. MaxTries
  /\ child.answer \in Seq(Chars)
  /\ queue \in Seq(Callers)
  /\ \A c \in Callers :
       /\ conn[c].stage \in {"idle", "queued", "open", "ended"}
       /\ conn[c].in \in Seq(Callers \X Chars)
       /\ conn[c].sent \in 0 .. MaxSent[c]
       /\ {conn[c].left, conn[c].rst, conn[c].oob} \subseteq BOOLEAN
  /\ ptyin \in Seq(Callers \X Chars) /\ Len(ptyin) <= PtySize
  /\ ptyout \in 0 .. MaxOut

(* A call, before it is placed. *)
NewCall == [stage |-> "idle", in |-> <<>>, sent |-> 0,
            left |-> FALSE, rst |-> FALSE, oob |-> FALSE]

(* s_getty has bound its socket, as descriptor 3, and listens. *)
Init ==
  /\ pc = "listen"
  /\ fds = [d \in Fds |-> IF d <= 2 THEN "std" ELSE IF d = 3 THEN "sock" ELSE "closed"]
  /\ msgsock = 0 /\ ps_master = 0 /\ ps_slave = 0 /\ sh_pid = 0
  /\ first_fork = TRUE
  /\ numtries = 0 /\ gbuf = <<>> /\ obuf = <<>>
  /\ ready = {} /\ after = "listen"
  /\ child = NoChild /\ lastpid = 0
  /\ queue = <<>>
  /\ conn = [c \in Callers |-> NewCall]
  /\ ptyin = <<>> /\ ptyout = 0

-----------------------------------------------------------------------------
(* Descriptors and reads                                                    *)

(* open(), socket(), accept() return the lowest free number. *)
Lowest(t) == CHOOSE d \in Fds : /\ t[d] = "closed"
                                /\ \A e \in Fds : t[e] = "closed" => d <= e
Open(t, what) == [t EXCEPT ![Lowest(t)] = what]

(* close() of the descriptors in D, the ones in use among them. *)
Close(t, D) == [d \in Fds |-> IF d \in D THEN "closed" ELSE t[d]]

(* What one read() of at most n bytes returns, and what it leaves. *)
First(s, n) == SubSeq(s, 1, IF Len(s) < n THEN Len(s) ELSE n)
After(s, n) == SubSeq(s, n + 1, Len(s))

Caller == fds[msgsock]                       \* whose call msgsock is
Text(s) == [k \in 1 .. Len(s) |-> s[k][2]]   \* the characters of some bytes

(* Some process still has the call open, or the terminal's slave side. *)
Held(c)   == \E d \in Fds : fds[d] = c \/ child.fds[d] = c
SlaveHeld == \E d \in Fds : fds[d] = "slave" \/ child.fds[d] = "slave"

(* The call as it is after a write() to it: a caller who has left answers   *)
(* with a reset, which arrives at once or later.                            *)
WrittenTo(c) == {[conn[c] EXCEPT !.rst = r] :
                   r \in IF conn[c].left /\ ~conn[c].rst THEN BOOLEAN
                         ELSE {conn[c].rst}}

(* The last descriptor of a call has gone, and what was under way with it. *)
Over == [NewCall EXCEPT !.stage = "ended", !.left = TRUE]

-----------------------------------------------------------------------------
(* main(): from accept() to fork()                                          *)

Accept ==
  /\ pc = "listen" /\ queue # <<>>
  /\ fds' = Open(fds, Head(queue)) /\ msgsock' = Lowest(fds)
  /\ queue' = Tail(queue)
  /\ conn' = [conn EXCEPT ![Head(queue)].stage = "open"]
  /\ pc' = "check"
  /\ UNCHANGED <<ps_master, ps_slave, sh_pid, first_fork, loginVars,
                 relayVars, childVars, ptyVars>>

(* accept() fails: the connection it would have returned is gone. *)
AcceptFails ==
  /\ pc = "listen" /\ queue # <<>>
  /\ queue' = Tail(queue)
  /\ conn' = [conn EXCEPT ![Head(queue)] = Over]
  /\ UNCHANGED <<gettyVars, loginVars, relayVars, childVars, ptyVars>>

(* close(msgsock) and back to listening, at the label failedlogin. *)
FailedLogin ==
  /\ fds' = Close(fds, {msgsock})
  /\ conn' = [conn EXCEPT ![Caller] = Over]
  /\ pc' = "listen"

(* bufnum = bufindex = 0 and oindex = 0: nothing read, nothing typed. *)
\* mutant: the packet buffer keeps what the last caller typed
FreshName == obuf' = <<>> /\ UNCHANGED gbuf
FreshLine == gbuf' = <<>> /\ obuf' = <<>>

TriesUsedUp(n) == n = MaxTries

(* check_host(): the host must be local and its name must be found. *)
HostRefused ==
  /\ pc = "check"
  /\ FailedLogin
  /\ UNCHANGED <<sessionVars, loginVars, relayVars, childVars, queue,
                 ptyVars>>

HostAccepted ==
  /\ pc = "check" /\ Caller \in Local
  /\ numtries' = 0 /\ FreshLine
  /\ \E k \in WrittenTo(Caller) : conn' = [conn EXCEPT ![Caller] = k]  \* prompt
  /\ pc' = "login"
  /\ UNCHANGED <<fds, sessionVars, relayVars, childVars, queue, ptyVars>>

(* get_schar() refills its buffer. *)
LoginRead ==
  /\ pc = "login" /\ gbuf = <<>> /\ conn[Caller].in # <<>>
  /\ gbuf' = First(conn[Caller].in, PacketSize)
  /\ conn' = [conn EXCEPT ![Caller].in = After(@, PacketSize)]
  /\ UNCHANGED <<gettyVars, numtries, obuf, relayVars, childVars, queue,
                 ptyVars>>

(* get_schar() returns EOF: the caller has left, or the read failed. *)
LoginEof ==
  /\ pc = "login" /\ gbuf = <<>>
  /\ (conn[Caller].left /\ conn[Caller].in = <<>>) \/ conn[Caller].rst
  /\ FailedLogin
  /\ UNCHANGED <<sessionVars, loginVars, relayVars, childVars, queue,
                 ptyVars>>

(* A character of the user name: rubbed out or stored, and echoed. *)
LoginKey ==
  /\ pc = "login" /\ gbuf # <<>> /\ Head(gbuf)[2] # "NL"
  /\ gbuf' = Tail(gbuf)
  /\ obuf' = IF Head(gbuf)[2] # "BS" THEN Append(obuf, Head(gbuf))
             ELSE SubSeq(obuf, 1, Len(obuf) - 1)
  /\ \E k \in WrittenTo(Caller) : conn' = [conn EXCEPT ![Caller] = k]
  /\ UNCHANGED <<gettyVars, numtries, relayVars, childVars, queue, ptyVars>>

(* The end of the line, and check_user() does not accept the name. *)
LoginBad ==
  /\ pc = "login" /\ gbuf # <<>> /\ Head(gbuf)[2] = "NL"
  /\ Text(obuf) \notin Names
  /\ gbuf' = Tail(gbuf) /\ numtries' = numtries + 1
  /\ IF TriesUsedUp(numtries')
     THEN FailedLogin /\ UNCHANGED obuf
     ELSE /\ obuf' = <<>>
          /\ \E k \in WrittenTo(Caller) : conn' = [conn EXCEPT ![Caller] = k]
          /\ UNCHANGED <<pc, fds>>
  /\ UNCHANGED <<sessionVars, relayVars, childVars, queue, ptyVars>>

(* check_user() accepts the name.  What is left in gbuf is not read again. *)
LoginGood ==
  /\ pc = "login" /\ gbuf # <<>> /\ Head(gbuf)[2] = "NL"
  /\ Text(obuf) \in Names
  /\ gbuf' = Tail(gbuf) /\ numtries' = numtries + 1
  /\ \E k \in WrittenTo(Caller) : conn' = [conn EXCEPT ![Caller] = k]
  /\ pc' = "openps"
  /\ UNCHANGED <<fds, sessionVars, obuf, relayVars, childVars, queue,
                 ptyVars>>

(* open_psterm(): the master side of a free terminal, then its slave side. *)
OpenPsterm ==
  /\ pc = "openps"
  /\ LET withMaster == Open(fds, "master")
     IN /\ ps_master' = Lowest(fds)
        /\ ps_slave' = Lowest(withMaster)
        /\ fds' = Open(withMaster, "slave")
  /\ pc' = "fork"
  /\ UNCHANGED <<msgsock, sh_pid, first_fork, loginVars, relayVars, childVars,
                 netVars, ptyVars>>

(* No terminal is free; or the slave side cannot be opened and the master   *)
(* is closed again.                                                         *)
OpenPstermFails ==
  /\ pc = "openps"
  /\ \/ ps_master' = -1 /\ UNCHANGED ps_slave
     \/ ps_master' = Lowest(fds) /\ ps_slave' = -1
  /\ FailedLogin
  /\ UNCHANGED <<msgsock, sh_pid, first_fork, loginVars, relayVars, childVars,
                 queue, ptyVars>>

ForkFails ==
  /\ pc = "fork"
  /\ fds' = Close(fds, {ps_slave, ps_master, msgsock})
  /\ conn' = [conn EXCEPT ![Caller] = Over]
  /\ pc' = "listen"
  /\ UNCHANGED <<sessionVars, loginVars, relayVars, childVars, queue,
                 ptyVars>>

(* The descriptors the parent gives up after a fork: the slave side, and    *)
(* its own 0 and 1 the first time.                                          *)
ParentKeeps == Close(fds, {ps_slave} \cup IF first_fork THEN {0, 1} ELSE {})

Fork ==
  /\ pc = "fork"
  /\ child' = [NoChild EXCEPT !.pc = "prelogin", !.pid = lastpid + 1, !.fds = fds]
  /\ lastpid' = lastpid + 1
  /\ sh_pid' = lastpid + 1
  /\ fds' = ParentKeeps
  /\ first_fork' = FALSE
  /\ pc' = "relay" /\ ready' = {}
  /\ UNCHANGED <<msgsock, ps_master, ps_slave, loginVars, after, netVars,
                 ptyVars>>

-----------------------------------------------------------------------------
(* main(): the select() loop                                                *)

\* mutant: the end of the caller's stream is not a reason to read
HasData ==
  {x \in {"ptty", "sock"} :
     \/ x = "ptty" /\ (ptyout > 0 \/ ~SlaveHeld)
     \/ x = "sock" /\ conn[Caller].in # <<>>}

Readable ==
  {x \in {"ptty", "sock"} :
     \/ x = "ptty" /\ (ptyout > 0 \/ ~SlaveHeld)
     \/ x = "sock" /\ \/ conn[Caller].in # <<>>
                      \/ conn[Caller].left \/ conn[Caller].rst}

Select ==
  /\ pc = "relay" /\ ready = {} /\ ~conn[Caller].oob /\ Readable # {}
  /\ ready' = Readable
  /\ UNCHANGED <<gettyVars, loginVars, after, childVars, netVars, ptyVars>>

(* The call of offspring_stop(), and where the caller goes on from there. *)
Stop(next) == pc' = "kill" /\ after' = next /\ ready' = {}

(* SELECT_TIMEOUT seconds without anything to read. *)
SelectTimeout ==
  /\ pc = "relay" /\ ready = {} /\ ~conn[Caller].oob /\ Readable = {}
  /\ Stop("listen")
  /\ UNCHANGED <<fds, sessionVars, loginVars, childVars, netVars, ptyVars>>

(* Urgent data.  An error of select() itself takes the same way. *)
SelectException ==
  /\ pc = "relay" /\ ready = {} /\ conn[Caller].oob
  /\ Stop("exit")
  /\ UNCHANGED <<fds, sessionVars, loginVars, childVars, netVars, ptyVars>>

(* ptty(read) --> socket(write).  A master side without data is readable    *)
(* once nobody holds the slave side: the shell has terminated.              *)
PtyTurn ==
  /\ pc = "relay" /\ "ptty" \in ready
  /\ IF ptyout = 0
     THEN Stop("listen") /\ UNCHANGED <<ptyout, conn>>
     ELSE /\ ptyout' = IF ptyout < ReadSize THEN 0 ELSE ptyout - ReadSize
          /\ \E k \in WrittenTo(Caller) : conn' = [conn EXCEPT ![Caller] = k]
          /\ ready' = ready \ {"ptty"}
          /\ UNCHANGED <<pc, after>>
  /\ UNCHANGED <<fds, sessionVars, loginVars, childVars, queue, ptyin>>

(* socket(read) --> ptty(write).  A control character anywhere in what was  *)
(* read keeps all of it from the shell; the first one counts.  The write    *)
(* does not block: what does not fit is lost.                               *)
ControlsIn(s) == {k \in 1 .. Len(s) : s[k][2] \in Controls}

SockTurn ==
  /\ pc = "relay" /\ ready = {"sock"}
  /\ LET ibuf == First(conn[Caller].in, ReadSize)
         at == ControlsIn(ibuf)
     IN IF ibuf = <<>>
        THEN Stop("listen") /\ UNCHANGED ptyin
        ELSE IF at # {}
        THEN /\ Stop(IF \E k \in at : /\ ibuf[k][2] = "DOKILL"
                                      /\ \A e \in at : k <= e
                     THEN "exit" ELSE "listen")
             /\ UNCHANGED ptyin
        ELSE /\ ptyin' = First(ptyin \o ibuf, PtySize)
             /\ ready' = {}
             /\ UNCHANGED <<pc, after>>
  /\ conn' = [conn EXCEPT ![Caller].in = After(@, ReadSize)]
  /\ UNCHANGED <<fds, sessionVars, loginVars, childVars, queue, ptyout>>

(* The read of a reset connection fails although bytes were there. *)
SockReset ==
  /\ pc = "relay" /\ ready = {"sock"} /\ conn[Caller].rst
  /\ Stop("listen")
  /\ UNCHANGED <<fds, sessionVars, loginVars, childVars, netVars, ptyVars>>

-----------------------------------------------------------------------------
(* offspring_stop(), and the end                                            *)

Running == child.pc \notin {"none", "zombie"}
Dead    == [child EXCEPT !.pc = "zombie", !.fds = AllClosed, !.answer = <<>>]

(* kill(spid, SIGKILL), after one second. *)
\* mutant: SIGINT, which pre_login() ignores
HitsShell(spid) == child.pc = "shell" /\ child.pid = spid
Hits(spid) == Running /\ child.pid = spid

Kill ==
  /\ pc = "kill"
  /\ child' = IF Hits(sh_pid) THEN Dead ELSE child
  /\ pc' = "wait"
  /\ UNCHANGED <<lastpid, fds, sessionVars, loginVars, relayVars, netVars,
                 ptyVars>>

(* s_getty is gone: so are the connections it had not accepted. *)
GettyGone(own) ==
  /\ fds' = AllClosed
  /\ queue' = <<>>
  /\ conn' = [c \in Callers |-> IF c = own \/ conn[c].stage = "queued"
                                THEN Over ELSE conn[c]]

(* wait() returns; then the two descriptors of the session are recycled,    *)
(* and with the master side what the terminal held.                         *)
Wait ==
  /\ pc = "wait" /\ ~Running
  /\ child' = NoChild
  /\ ptyin' = <<>> /\ ptyout' = 0
  /\ \/ /\ after = "listen" /\ pc' = "listen"
        /\ fds' = Close(fds, {msgsock, ps_master})
        /\ conn' = [conn EXCEPT ![Caller] = Over]
        /\ UNCHANGED queue
     \/ /\ after = "exit" /\ pc' = "exited"
        /\ GettyGone(Caller)
  /\ UNCHANGED <<lastpid, sessionVars, loginVars, relayVars>>

(* SIGPIPE is neither caught nor ignored: a write to a connection that has  *)
(* been reset may end s_getty.                                              *)
WillWrite == \/ pc = "check" /\ Caller \in Local
             \/ pc = "login" /\ gbuf # <<>>
             \/ pc = "openps"
             \/ pc = "relay" /\ "ptty" \in ready /\ ptyout > 0

BrokenPipe ==
  /\ WillWrite /\ conn[Caller].rst
  /\ pc' = "killed" /\ ready' = {}
  /\ GettyGone(Caller)
  /\ UNCHANGED <<sessionVars, loginVars, after, childVars, ptyVars>>

-----------------------------------------------------------------------------
(* pre_login() and the shell                                                *)

Ends == child' = Dead

(* What a process writes to the slave side. *)
Writes == ptyout' = IF ptyout < MaxOut THEN ptyout + 1 ELSE ptyout

(* The descriptors of the offspring: the parent's two are closed, and the   *)
(* slave side becomes 0 and 1.                                              *)
\* mutant: the parent's descriptors are closed after the dup2()s
ClosedLater(t) ==
  Close([t EXCEPT ![0] = t[ps_slave], ![1] = t[ps_slave]], {msgsock, ps_master})

OnSlave(t) ==
  LET own == Close(t, {msgsock, ps_master})
  IN [own EXCEPT ![0] = own[ps_slave], ![1] = own[ps_slave]]

(* The prompt is written; dup2() fails if the slave side is not open. *)
PreLogin ==
  /\ child.pc = "prelogin"
  /\ IF Close(child.fds, {msgsock, ps_master})[ps_slave] = "closed"
     THEN Ends /\ UNCHANGED ptyout
     ELSE /\ child' = [child EXCEPT !.pc = "code", !.fds = OnSlave(child.fds)]
          /\ Writes
  /\ UNCHANGED <<lastpid, gettyVars, loginVars, relayVars, netVars, ptyin>>

(* One character of the socket code.  j-- for a rubout is undone by the     *)
(* j++ of the loop, so it takes nothing away; at j = 0 it stays as answer[0]. *)
Typed(answer, ch) ==
  IF ch = "BS" /\ answer # <<>> THEN answer ELSE Append(answer, ch)

CodeByte ==
  /\ child.pc = "code" /\ ptyin # <<>>
  /\ ptyin' = Tail(ptyin)
  /\ child' = IF Head(ptyin)[2] = "NL" THEN [child EXCEPT !.pc = "verdict"]
              ELSE [child EXCEPT !.answer = Typed(@, Head(ptyin)[2])]
  /\ UNCHANGED <<lastpid, gettyVars, loginVars, relayVars, netVars, ptyout>>

CodeAccepted ==
  /\ child.pc = "verdict" /\ (Build = "none" \/ child.answer \in Codes)
  /\ child' = [child EXCEPT !.pc = "exec", !.answer = <<>>]
  /\ UNCHANGED <<lastpid, gettyVars, loginVars, relayVars, netVars, ptyVars>>

CodeRejected ==
  /\ child.pc = "verdict" /\ Build # "none" /\ child.answer \notin Codes
  /\ IF TriesUsedUp(child.tries + 1)
     THEN Ends /\ UNCHANGED ptyout
     ELSE /\ child' = [child EXCEPT !.pc = "code", !.tries = @ + 1, !.answer = <<>>]
          /\ Writes
  /\ UNCHANGED <<lastpid, gettyVars, loginVars, relayVars, netVars, ptyin>>

(* getauthuid() finds nothing. *)
NoAuthority ==
  /\ child.pc = "verdict" /\ Build = "c2"
  /\ Ends
  /\ UNCHANGED <<lastpid, gettyVars, loginVars, relayVars, netVars, ptyVars>>

(* The slave side becomes 2 as well, is opened a second time as the         *)
(* controlling terminal (if that succeeds), and the shell takes over.       *)
Exec ==
  /\ child.pc = "exec"
  /\ \E reopened \in BOOLEAN :
       LET t == [child.fds EXCEPT ![2] = child.fds[ps_slave]]
       IN child' = [child EXCEPT !.pc = "shell",
                                 !.fds = IF reopened THEN Open(t, "slave") ELSE t]
  /\ Writes
  /\ UNCHANGED <<lastpid, gettyVars, loginVars, relayVars, netVars, ptyin>>

ExecFails ==
  /\ child.pc = "exec"
  /\ Ends
  /\ UNCHANGED <<lastpid, gettyVars, loginVars, relayVars, netVars, ptyVars>>

ShellRead ==
  /\ child.pc = "shell" /\ ptyin # <<>>
  /\ ptyin' = Tail(ptyin)
  /\ UNCHANGED <<gettyVars, loginVars, relayVars, childVars, netVars, ptyout>>

ShellWrite ==
  /\ child.pc = "shell" /\ ptyout < MaxOut
  /\ Writes
  /\ UNCHANGED <<gettyVars, loginVars, relayVars, childVars, netVars, ptyin>>

ShellExit ==
  /\ child.pc = "shell"
  /\ Ends
  /\ UNCHANGED <<lastpid, gettyVars, loginVars, relayVars, netVars, ptyVars>>

(* The master side is gone with s_getty: the terminal hangs up. *)
Orphaned ==
  /\ Running /\ pc = "killed"
  /\ Ends
  /\ UNCHANGED <<lastpid, gettyVars, loginVars, relayVars, netVars, ptyVars>>

-----------------------------------------------------------------------------
(* The callers                                                              *)

Gone == pc \in {"exited", "killed"}

Connect(c) ==
  /\ conn[c].stage = "idle" /\ ~Gone /\ Len(queue) < MaxSess
  /\ queue' = Append(queue, c)
  /\ conn' = [conn EXCEPT ![c].stage = "queued"]
  /\ UNCHANGED <<gettyVars, loginVars, relayVars, childVars, ptyVars>>

(* What a caller does before accept() returns its call is first noticed     *)
(* after that, so it is let happen after that.                              *)
Calling(c) == conn[c].stage = "open" /\ ~conn[c].left

Send(c, ch) ==
  /\ Calling(c) /\ conn[c].sent < MaxSent[c] /\ Len(conn[c].in) < Window
  /\ conn' = [conn EXCEPT ![c].in = Append(@, <<c, ch>>), ![c].sent = @ + 1]
  /\ UNCHANGED <<gettyVars, loginVars, relayVars, childVars, queue, ptyVars>>

(* Urgent data, such as the SYNCH signal of telnet. *)
SendUrgent(c) ==
  /\ Calling(c) /\ ~conn[c].oob /\ conn[c].sent < MaxSent[c]
  /\ conn' = [conn EXCEPT ![c].oob = TRUE, ![c].sent = @ + 1]
  /\ UNCHANGED <<gettyVars, loginVars, relayVars, childVars, queue, ptyVars>>

(* The caller closes; output it has not read makes that a reset. *)
HangUp(c) ==
  /\ Calling(c)
  /\ \E r \in BOOLEAN : conn' = [conn EXCEPT ![c].left = TRUE, ![c].rst = r]
  /\ UNCHANGED <<gettyVars, loginVars, relayVars, childVars, queue, ptyVars>>

-----------------------------------------------------------------------------
LoginStep == \/ Accept \/ AcceptFails \/ HostRefused \/ HostAccepted
             \/ LoginRead \/ LoginEof \/ LoginKey \/ LoginBad \/ LoginGood
             \/ OpenPsterm \/ OpenPstermFails \/ ForkFails \/ Fork
RelayStep == \/ Select \/ SelectTimeout \/ SelectException
             \/ PtyTurn \/ SockTurn \/ SockReset
StopStep  == Kill \/ Wait
GettyStep == LoginStep \/ RelayStep \/ StopStep \/ BrokenPipe

ChildStep == \/ PreLogin \/ CodeByte \/ CodeAccepted \/ CodeRejected \/ NoAuthority
             \/ Exec \/ ExecFails \/ ShellRead \/ ShellWrite \/ ShellExit \/ Orphaned

CallerStep == \E c \in Callers : \/ Connect(c) \/ HangUp(c) \/ SendUrgent(c)
                                 \/ \E ch \in Keys[c] : Send(c, ch)

Next == GettyStep \/ ChildStep \/ CallerStep

Spec == Init /\ [][Next]_vars

(* s_getty and its offspring keep running; a shell need never end or write, *)
(* and nothing is asked of the callers.                                     *)
FairSpec == /\ Spec
            /\ WF_vars(LoginStep) /\ WF_vars(RelayStep) /\ WF_vars(StopStep)
            /\ WF_vars(PreLogin) /\ WF_vars(CodeByte)

(* Whose call a session serves. *)
Serving == pc \notin {"listen", "exited", "killed"}

OffspringOnSlave ==
  child.pc \in {"code", "verdict", "exec", "shell"} =>
    /\ child.fds[0] = "slave" /\ child.fds[1] = "slave"
    /\ child.pc = "shell" => child.fds[2] = "slave"
    /\ \A d \in Fds : child.fds[d] \notin Callers \cup {"master"}

(* While a session lasts, the descriptor numbers the code remembers mean    *)
(* what it takes them for, although 0 and 1 come back as socket and master  *)
(* side after the first session (lines 778-789): msgsock is the call, and   *)
(* in the relay ps_master the master side, with no slave side of its own    *)
(* that would hide the end of the shell.  pre_login() and the shell stand   *)
(* on the slave side with 0 and 1 (the shell with 2 as well) and hold       *)
(* neither the call nor the master side (lines 994-1008).                   *)
SessionDescriptors ==
  /\ Serving => Caller \in Callers
  /\ pc \in {"relay", "kill", "wait"} =>
       /\ fds[ps_master] = "master" /\ ps_master # msgsock
       /\ \A d \in Fds : fds[d] # "slave"
  /\ OffspringOnSlave

(* Every way back to start_listen leaves nothing behind: no offspring, not  *)
(* even unreaped, and no descriptor but the listening socket and the        *)
(* standard ones still open (lines 960-966 and 1345-1358).                  *)
ListenClean ==
  pc = "listen" =>
    /\ child.pc = "none"
    /\ \A d \in Fds : fds[d] = IF d = 3 THEN "sock"
                               ELSE IF d = 2 \/ (d < 2 /\ first_fork) THEN "std"
                               ELSE "closed"

(* The descriptors and what they lead to are right in a session and between *)
(* sessions, however it was left (lines 585-1358).                          *)
DescriptorsKept == TypeOK /\ SessionDescriptors /\ ListenClean

(* The name check_user() sees and the input of the offspring were typed by  *)
(* the caller being served, never by the one before (lines 585-593); and    *)
(* GET_REINIT and GET_DOKILL never reach the terminal, wherever they stand  *)
(* in what one read returned (lines 909-935).                               *)
OwnInput ==
  /\ pc = "login" => \A k \in 1 .. Len(gbuf \o obuf) : (gbuf \o obuf)[k][1] = Caller
  /\ pc \in {"fork", "relay", "kill"} =>
       \A k \in 1 .. Len(ptyin) : ptyin[k][1] = Caller
  /\ \A k \in 1 .. Len(ptyin) : ptyin[k][2] \notin Controls

(* A caller who has hung up is let go: the session ends whatever the shell  *)
(* is doing, and the last descriptor of the call is closed.                 *)
HungUpEnds == \A c \in Callers : conn[c].left /\ Held(c) ~> ~Held(c)

(* offspring_stop() returns: what it kills is the offspring of this         *)
(* session, in whatever state, and s_getty does not hang in wait().  It     *)
(* listens again, or ends, as the place it was called from says.            *)
StopReturns ==
  /\ (pc = "kill" /\ after = "listen") ~> (pc = "listen")
  /\ (pc = "kill" /\ after = "exit") ~> (pc = "exited")

(* s_getty itself ends only for the caller it serves, and only if that one  *)
(* has typed GET_DOKILL (lines 923-931), has sent urgent data (860-867), or *)
(* has reset the connection before a write to it: SIGPIPE is not ignored    *)
(* (886).  The last two are not what lines 65-68 have: that after an        *)
(* exception or a null read s_getty goes back to listen().                  *)
EndsOnlyIfMade ==
  [][~Gone /\ Gone' => \/ conn[Caller].oob
                       \/ conn[Caller].rst
                       \/ after = "exit" /\ "DOKILL" \in Keys[Caller]]_vars

(* No session outlives its caller, and each leads back to the next accept() *)
(* unless the caller has done one of three things that end s_getty.         *)
SessionsEnd == HungUpEnds /\ StopReturns /\ EndsOnlyIfMade
=============================================================================
