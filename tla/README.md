# Verification of the systems programs of csub

The repository holds the material of several computer-science courses. Its own
program logic is the C code of *cmps3620* (computer networks): servers that fork
a child per client, a shell with job control, a login server on a pseudo
terminal, a telnet client, a buffered-stream library. They are small programs
written directly on `fork`, `wait`, signals, `select`, pipes and sockets, and
their comments make promises about exactly those: which slot a child has, that a
wait cannot hang, that nothing is lost between two descriptors. Around them are
a network analyser and half a dozen programs that carry lines of text. This directory
specifies those programs in TLA+, checks the specifications with TLC and proves
with TLAPS the central invariants of eight of them and that two of them
implement an abstract specification.

All paths below are relative to `src/cmps3620/code/` unless they start with `src/`.

## 1. Inventory

### 1.1 The components and what makes each correct

**simple_daemon** (`lab5/simple_daemon.c`). State: the listening socket, the
table `offspring[MAX_CHILDREN]` of pid and socket, `main()`'s locals `i` and
`msgsock`, the pending signals. Operations: `main()`'s accept loop (search a
slot, refuse or fork, store pid), `child_terminate()` (SIGCHLD: `wait()`, close
the socket and free the slot of the pid), `parent_terminate()`
(SIGHUP/SIGTERM/SIGINT: tell each child, wait, exit), the child's handlers.
Interaction: the handlers share the table with `main()` without any masking;
children inherit the parent's descriptors and its handlers until they install
their own. Correct when: the table and the living children agree, no descriptor
number in it is another client's, the handler's `wait()` never blocks the
daemon, clients are taken in turn and refused only for lack of a slot, and a
termination signal ends the daemon.

**dialog_with_client and simple_shell** (`lab5/simple_daemon.c`,
`lab5/simple_shell.c`). State: two pipes, the client's socket, one buffer.
Operations: a `select()` loop that copies socket to pipe and pipe to socket;
the shell's prompt/read/answer loop. Correct when: nothing is lost, doubled or
reordered in either direction, the two processes never block on each other, and
the end of client, child or shell ends the other two.

**g_stdio** (`lab6/g_stdio.c`, `g_stdio.h`). State: `g_iob[]`: for each stream
its flags, buffer, `ptr`, `cnt` and `baseposition`; the kernel's offset.
Operations: open, close, getc, putc, gets, puts, read, seek, tell, flush, the
flush at exit. Correct when: bytes are handed out and written in order, from the
right place after any mixture of calls, short reads and failures.

**s_getty** (`lab6/s_getty.c`). State: the descriptor numbers in `msgsock`,
`ps_master`, `ps_slave`, the offspring's pid, `first_fork`, the global input
buffer of `get_schar()`. Operations: accept, host check, user name,
`open_psterm()`, fork into `pre_login()` and the shell, a relay, then
`offspring_stop()`. Correct when: each session is torn down completely (process,
descriptors, buffered input) although descriptors 0 and 1 mean something else
after the first, and a caller who leaves frees the server.

**s_tlnt** (`lab6/s_tlnt.c`). State: the connection, the terminal mode, the
parser state of telnet arbitration and of the escape trap, the flags that say
what the user asked. Operations: terminal mode (a `select()` loop), command
mode, `telnet_arb()`, `process_esc()`. Correct when: however `recv()` cuts the
stream the parsers stay in step, the answers fit the questions, the terminal is
restored on every way out.

**s_sh, job control** (`lab6/s_sh.c`). State: `proc[PROCESS_LINES]`,
`inline_opid`, `last_SIGCLD`, the signal mask. Operations: start an inline
command or a job, wait for an inline command by `sigprocmask()`/`sigsuspend()`,
`child_exit()` (SIGCLD), `exit`. Correct when: the shell prompts only once its
inline command is over, does so when it is, never blocks in the handler, and
knows every living job, so that `exit` leaves none behind.

**s_sh, the command line** (same file). State: `cmdbuf[]`, the ring `raw_cmdline[]`
with `num_cmdline[]` and `pid_cmdline[]`, `last_cmd`, `command_num`, the strings
of the last expansions in `cmdexp[]`. Operations: `getcmd()` (edit and end a
line, `! num`), `parse_cmdbuf()` and `drop_arg()` (tokens, quotes, redirection),
`expand_wcard()`, `history`. Sequential, with many boundaries. Correct when: a
line is cut into its words, a repeat runs the line with that number however
often the ring went round, and an expansion holds no argument of another command.

**s_daemon** and **daemon** (`lab6/s_daemon.c`, `lab6/daemon.c`). State:
`offspring[MAX_CHILDREN]` (process or thread, thread number, socket), the shared
`arglist`, and for each session of s_daemon two pipes, a shell and, under NT, a
second thread. Operations: `main()` (accept, choose a row, start, record), the
SIGCLD and termination handlers, the offspring's start and table removal, the
session's `select()` loop, `pipe_to_socket()`. Correct when: the table tells
which offspring live and with which socket, the caller's bytes reach the shell
in their places, its output reaches the caller, and nobody keeps a connection
open after its session.

**sesssend/sessrecv** (`lab6`). State: the NETBIOS session, the receiver's NCB
with its completion flag, `conn_flag`, its history buffer. Operations: the
sender calls, sends, reconnects and hangs up with blocking NCBs; the receiver
listens, polls one asynchronous receive between keystrokes, runs commands,
cancels and hangs up. Correct when: no acknowledged line is lost, none appears
twice, every end of a session is noticed, `exit` never waits for ever.

**vcsend/vcrec, client/server** (`lab2`, `lab4`, `lab6`, `solutions`) and
**pipesend** (`lab6/pipesend.c`). State: a TCP byte stream or a pipe, one input
buffer on each side. Operations: type, send and show lines; in the solutions an
answer to each line, in `solutions/lab4` after a `select()` on keyboard and
socket; in pipesend SIGTERM (Unix) or a sentinel (NT) after a period. Correct
when: texts appear in order and are never leftovers of older ones, neither side
waits for the other in vain, and the end of one is the end of the other.

**ngraph** (`lab6/ngraph.c`). State: three matrices, labels and working node of
`short_path()`, flow, layers and potentials of `max_flow()`. Operations: read
the file, Dijkstra from the destination, layered networks with `push_pull()`.
Correct when: paths are shortest, the flow is maximal, and commands return.

The rest (`select`/`terminal` demonstrations, datagrams, `digarp`, `s_tndesq`,
helpers, course examples, assembly and compiler labs, the web site) keeps no
state worth a model; section 6 gives the reasons.

### 1.2 How the parts interact

```
  client ==TCP== simple_daemon child --pipes-- simple_shell        lab 5
     \_ accept, SIGCHLD, SIGTERM _ simple_daemon (parent)

  s_tlnt ==TCP== s_getty --pseudo terminal-- pre_login -> s_sh     lab 6
  caller ==TCP== s_daemon session (process or thread) --pipes-- s_sh
     \_ accept, SIGCLD, SIGTERM _ s_daemon (main())
  sesssend ==NETBIOS session== sessrecv
  vcsend / client ==TCP== vcrec / server
  pipesend parent --pipe, SIGTERM-- pipesend child
```

The composed modules are `Daemons` (table, callers, sessions and shells of
s_daemon and daemon) and `LineTransfer` (two kinds of channel under the programs
that carry lines). `g_stdio` is linked by lab programs; nothing of it is shared
between processes, and `ngraph` stands alone.

### 1.3 What is hard here

* Signal handlers that interrupt `main()` between two assignments to the same
  table; SIGCHLD, which is one pending bit for any number of deaths;
  process ids and descriptor numbers that are reused.
* `wait()` without a pid in a handler; `wait()` with SIGCHLD ignored.
* Threads that take their arguments out of one structure which `main()` fills
  again for the next; offspring that end before their row is made.
* Byte streams that `read()`/`recv()` cut and join anywhere; pipes that fill.
* Peers and children that vanish at any point; SIGPIPE; resets; `select()` that
  a signal ends; SIGTERM that overtakes data.
* A control block that a line, a hang-up and a cancel compete for; a send that
  timed out and may have arrived.
* State that outlives a session or a command: global buffers, parser states,
  flags, the strings of the last expansion.
* Buffers that are exactly full, files that end inside an item, rings that go
  round.

`PROJECT.json` ("hazards") gives each at its line with the properties aimed at it.

## 2. The modules

| module | models | instance |
|---|---|---|
| `SimpleDaemon` | parent, handlers, children's life cycle, descriptors, listen queue | `MCSimpleDaemon` |
| `ConnService` | abstract: what the daemon is to its clients | refined by `SimpleDaemon` |
| `Dialog` | one child's relay, the shell behind it, the client | `MCDialog` |
| `GStdio` | the stream library and the kernel's files | `MCGStdio` |
| `Streams` | abstract: what the library is to the program | refined by `GStdio` |
| `Getty` | s_getty, its offspring, callers, both descriptor tables | `MCGetty` |
| `Tlnt` | s_tlnt, its user, the remote end | `MCTlnt` |
| `Shell` | s_sh's processes and signals | `MCShell` |
| `CmdLine` | s_sh's command line, history and wildcards | `MCCmdLine` |
| `Offspring` | main(), table and start-up common to daemon and s_daemon | `MCDaemons` |
| `LineDaemon`, `ShellDaemon` | what an offspring of each does with its caller | `MCDaemons` |
| `Daemons` | the three together | `MCDaemons` |
| `NetSession` | sesssend, sessrecv and the session between them | `MCNetSession` |
| `Lines` | lines over a channel without boundaries | `MCLineTransfer` |
| `Transfer`, `PipeSend` | the programs over TCP, over a pipe | `MCLineTransfer` |
| `LineTransfer` | the two together | `MCLineTransfer` |
| `Graph` | ngraph | `MCGraph` |
| `SimpleDaemonProofs` | theorems about `SimpleDaemon` and `Dialog` | |
| `GStdioProofs`, `GettyProofs`, `TlntProofs`, `DaemonsProofs`, `GraphProofs` | theorems about the module named | |
| `ShellProofs` | theorems about `Shell` and `CmdLine` | |
| `LineProofs` | theorems about `LineTransfer` and `NetSession` | |

Variables carry the names of the C variables. One action is one system call or
one stretch of code between two points at which something else can intervene;
"map" in `PROJECT.json` names the lines of every definition. A definition
marked `\* mutant`, or standing beside the real one as its slip, is not used by
the specification: it is what the definition below it would be with a plausible
bug, and is there so that each property can be seen to fail. Conventions shared
by the modules: the kernel (signals, wait, pipes, sockets, descriptor numbers)
is modelled by what it does for these programs; a failing system call is a
choice; time is left out, so a timeout may come whenever nothing is ready.

### 2.1 SimpleDaemon and ConnService

`pc` runs through accept, scan, fork, store; the handler `child_terminate` has
the two steps wait and sweep, `parent_terminate` the loop over slots with kill
and wait. `chld` and `term` are their places, and a handler's steps disable
those of what it interrupted (`MainRuns`). `sigchld` is the pending bit.
`fdtab` is the parent's descriptor table with the lowest-free-number rule and
`holders` the processes that keep a connection open: what a client sees is the
last of them closing. A child begins "forked" with the parent's handlers:
`InheritedTerminate` is what a signal does to it in that window. Startup, up to
`listen()`, is the initial state.

The sweep clears the slot of the pid `wait()` returned; when the child died
before `main()` stored its pid, the slot is taken for good. That, and deaths
that coalesce into one SIGCHLD, makes slots leak in the code. No property says
they do not; `ServiceImplemented` is worded accordingly: a client is turned
away only after MAX_CHILDREN others *have been given* a child.

`ConnService` has no processes, signals or descriptors: connections in order of
arrival, at most MaxServed served at a time. The refinement mapping computes
the abstract state of a connection from `conn`, the children and `msgsock`.

`JobSpec` adds children stopped and continued by somebody (SIGCHLD without a
death, because `signal()` sets no SA_NOCLDSTOP). With it `wait()` can block the
daemon, so `WaitHasZombie` is claimed for `Spec` only; the other invariants are
proved for `JobSpec`, which includes `Spec`.

The run has two slots, so that `parent_terminate` meets its own trap: SIGCHLD is
ignored by then, `wait()` returns only when *no* child is left, and the second child
is told only after it has returned. `TerminationCompletes` says that the daemon ends
or stands in that `wait()` for ever because of a child it has not told, and that
nothing else holds it up; `EachChildTerminated` is what lines 222-223 say, and the
run `daemon_stop` shows it violated.

### 2.2 Dialog

A unit of data is a line of the client or an output of the shell; reads return
as many units as fit. Writes to pipes block until all fits (they are shorter
than PIPE_BUF). The histories `sent`, `got`, `said`, `seen` let the order
properties speak of everything that ever went through. One `read()` of the
shell may return several lines, of which it looks at the first word: a `quit`
typed behind another line is lost, against `lab5.html:57`. The model has this;
`OneEndEndsAll` speaks of a quit that the shell has seen. Both modules are about one
program and their theorems share a module, so `Dialog` has names of its own for its
specification (`DialogSpec`) and for the child's program counter (`childPC`).

### 2.3 GStdio and Streams

A stream is a record with the fields of `G_FILE`. A call is one action; calls
with loops take one step per turn. `malloc`, `read`, `write`, `lseek` may fail,
and `write` may take a part, a bounded number of times. Facts of the code the
model keeps: after end of file `G_SEEK_CUR` counts from the start of the file;
`g_read()` returns 0 if it does not get all items; `g_close()` returns the result
of `close()` even when its flush failed; the `baseposition` of a stream in error
drifts (bounded by MaxBase). Callers use a stream for what it was opened for,
put only characters 0 to 255, and have a file open once. Of `g_profile()` only
the registration of the exit flush is modelled.

`Streams` is the promise: bytes in order from where a stream stands; what was put is
on the disk in order after a flush or close; a prefix at any moment; stdout is shown
before stdin is read; a seek counts from where the stream stands, as fseek() does;
at the end of the program all that was put is on the disk; loss only where the
kernel refused something. `View` in the refinement mapping is the file with the
buffer behind it. The code keeps the promise but for two places, and
`StreamsImplemented` names them (`SeekFromStart`, `ExitWithFull`) instead of
weakening the promise: at the end of a file `g_seek()` rewinds first (809-833), and
the flush at exit passes over a full buffer (955). The flush at exit is registered
by `g_profile()`; of a program that ends without it (in the model too, `Exit`) the
promise asks nothing.

### 2.4 Getty

Both processes' descriptor tables are modelled with the lowest-free rule, since
`s_getty` closes 0 and 1 after its first fork and later sessions get these
numbers for the socket and the terminal which `pre_login()` is about to
`dup2()` onto. Bytes carry the caller who typed them, which makes "input left
from the caller before" visible. Details kept: a rubout in the socket code takes
nothing away (line 1050); what is typed behind the user name in the same packet
is never read again; both descriptors of the relay are non-blocking and a short
write loses the rest; nothing limits the time at the login prompt. Urgent data
(860-867), CTRL-K and SIGPIPE end s_getty itself, and `SessionsEnd` says that nothing
else does. The OS/2 thread build is left out.

### 2.5 Tlnt

The remote end sends whole units (a character, an escape sequence, a telnet command
of two bytes or with an option, a subnegotiation: `UnitsAssumption`); the client
sees bytes, cut anywhere. Not among the units are a 255 inside a subnegotiation and
an escape sequence longer than the trap has room for. On the screen are the text,
the byte in hexadecimal that a command of two bytes leaves (1173-1179), and in
snoopy or verbose mode what `telnet_arb()` tells of the negotiation (`notes`, each
with its place in the text: 1117-1118, 1186-1189). `arb_state` and the escape trap
persist from call to call, `telnet_cmd` is a local variable of `telnet_arb()` and is
"junk" in a new call; `ArbCrash` is an index outside `telcmds[]` or `telopts[]`. A
connection opened in the middle of a sequence starts inside it, since
`newterminalmode` resets neither parser: the history `clean` says when that is not
so and the parser properties are claimed then. The Windows console emulation, the
status output, what `process_esc()` tells in verbose mode and the CR/LF cases of
port 23 are left out. The end of the connection after CTRL-^ leaves the descriptor
open, and at the end of its input command mode repeats the last command: both are in
the model.

### 2.6 Shell

`main()`'s steps around an inline command are fork, record, `sigprocmask`,
setting `inline_opid`, the test of `last_SIGCLD`, `sigsuspend`, restoring the
mask. `child_exit()` waits for whichever child the kernel picks. The `signal()`
is BSD's: SIGCLD is blocked during the handler, stops and continues raise it
too. The kernel hands process ids out in turn, so the id in `last_SIGCLD` is not
given out again while the shell remembers it; ids in stale slots may come again.
When `execve()` fails the offspring falls into the command loop: a second shell
("copy") with an inherited table, whose `exit` kills the first one's jobs. What
a command line says is abstracted to inline, job, exit, end of input, anything
else; reading it is `CmdLine`.

### 2.7 CmdLine

A byte is a class (a letter, blank, tab, quote, the redirections, `*`, `!`,
digits, control characters, rubout, line ends). `getcmd()` takes one byte per
step; what happens at the end of a line (`! num`, parsing, history) is one step,
since nothing can interrupt it. A parsed line goes to `main()`, which executes
it, expands it or finds it internal. `cmdexp[]` holds its strings until the next
expansion overwrites them, and the model lets stale ones be picked up exactly
where the code's indices do. `crashed` is the place an expansion with more names
than `cmdexp[]` has entries leads to (undefined behaviour in the code).
`HISTORY_LINES`, `MAX_ARGS`, `MAX_ARGLEN`, `MAX_LINEL` are the code's macros.

The reference for tokens (`Words`) is written over positions of a line, the code
over a moving index; they are compared on `Ordinary` lines, within the limits
and with quotes around whole words. Outside them the code does things listed in
section 5.

### 2.8 Offspring, LineDaemon, ShellDaemon, Daemons

`daemon.c` and `s_daemon.c` share `main()` line for line, each with a Unix and
an NT build; a scenario says which. An offspring, its pid and its connection
have one number. `holders` is who has a descriptor of a connection open; under
NT a socket belongs to the process, so one `closesocket()` closes it for all.
Under Unix `sigcld` may interrupt `main()` between `fork()` and the two stores
into the row (the row is then made for a dead process); under NT an offspring
copies `arglist` some time after its start, whatever it holds by then, and
removes itself from a row that may not have been made.

Descriptors are inherited as `fork()` copies them (`Inherited`): a session gets every
connection `main()` still has open, which are those of all earlier callers whose
sessions it has not yet waited for, since `main()` does not close its copy where line
381 says so; the shell gets all that its session has, since the session closes only
stdin (686). So sessions do share something, and a caller who leaves may stay
connected to later sessions. `ends` is who has which end of the two pipes: under Unix
a shell has no more than its two ends, because it closes the others (826-827); under
NT `spawnlp()` passes on all pipes of the process, so that a shell holds the writing
end of its own input and never sees the end of it.

`ShellDaemon` has the session's `select()` loop, the pipes, SIGCLD in the session
(an EINTR that ends `select()`, or a `send()` cut short), `pipe_to_socket()` as
`helper`, and s_sh as something that reads, prints and exits. Output is numbered, so
that what is lost, repeated or reordered between the pipe, the buffer and the caller
shows. The result of `send()` in the session is not looked at (963): what it did not
take is gone (`SendShort`), while the helper ends (`HelperSendFails`), also when the
caller has hung up. A pipe does not fill here: `Dialog` has that question. Scenarios
are finite in number of callers and one of them has the most, which is what makes
`Conns` a set.

### 2.9 NetSession

The sender's calls are of the waiting kind; the receiver has one NCB, a flag and
a poll between keystrokes. The service is external: a send completes when a
posted receive has taken the line, a timed-out send leaves its line arrived or
not, and the end of a session completes every receive posted on it. The
receiver's history buffer holds HISTLINES lines, and a recalled line which is
entered unchanged is not entered again. Entering `listen` while connected posts
a second receive on the NCB (the code does not look at `conn_flag`); the history
`relistened` marks these behaviours, which void `LinesKept`.

### 2.10 Lines, Transfer, PipeSend, LineTransfer

A byte is <<line, position>>, so what was printed shows where it came from.
`Lines` has typing, sending, reading a piece of any length and printing up to
the first NUL of a buffer that was or was not cleared. `Transfer` adds connect,
accept (which may fail), the receiver's greeting, closing with FIN or with a
reset that overtakes data, and the three kinds of programs (`SenderRuns`,
`ReceiverRuns` are what they do without their users); programs of one kind
differ in layout and wording. `PipeSend` adds the pipe, the period, SIGTERM
(to the child, or after a failed `fork()` to everybody) and NT's sentinel.

### 2.11 Graph

`short_path()` takes one step per turn of its goto, `max_flow()` one per layered
network, per reference node and per arc that `push_pull()` uses, with its
recursion as an explicit stack of node, flow left and arc. `walk()` and
`find_ref()` recurse over layers and are functions on them. `Trail` is the loop
that collects the path at the end. The references are the length of the shortest
path, as the shortest with at most 0, 1, 2, ... arcs (`Distance`), and the smallest
of all cuts.

## 3. The runs

Eleven runs pass, and one, `daemon_stop`, shows a sentence of the source violated.
Some properties are conjunctions of named parts about one question, so that a
question is one property: their parts are given with them.

| run | properties | what it shows |
|---|---|---|
| `daemon_service` | `TableTrue` (`LiveChildRecorded`, `SlotsNotShared`, `SocketMatchesChild`), `WaitHasZombie`, `ParentKeepsServed`, `ServiceImplemented`, `ServiceIsProgressing`, `TerminationCompletes` | with two slots table, descriptors and children stay consistent under every interleaving; `wait()` in the handler does not block; the daemon implements `ConnService`; no connection lies in the queue or in `main()`'s hands; a termination signal ends the daemon or leaves it in `wait()` for a child it has not told |
| `daemon_stop` | `EachChildTerminated` (violated) | after a termination signal not every child of the table goes, against lines 222-223: the daemon waits for all when it has told one |
| `dialog_relay` | `RelayedInOrder` (`DialogTypeOK`, `InwardInOrder`, `OutwardInOrder`), `NoMutualBlock`, `OneEndEndsAll` | nothing lost, doubled or reordered both ways; no mutual blocking; one end ends all |
| `gstdio_streams` | `PositionKept`, `InputTaken` (`TypeOK`, `GetsTakesALine`, `ReadTakesItems`), `StreamsImplemented` | positions, lines and items right; the library implements `Streams` but for two places, which the property names |
| `getty_sessions` | `DescriptorsKept` (`TypeOK`, `SessionDescriptors`, `ListenClean`), `OwnInput`, `SessionsEnd` (`HungUpEnds`, `StopReturns`, `EndsOnlyIfMade`) | sessions set up and torn down completely, own input only, callers who leave are let go, and s_getty listens again unless the caller did one of three things that end it |
| `tlnt_session` | `TextShown`, `ModesKept` (`TypeOK`, `TerminalRestored`, `TalksToOpenSocket`, `FlagsTell`), `GoneEnds` | parsers in step with the stream, text on the screen with notes of the negotiation in snoopy and verbose mode only, terminal restored, no closed socket used, the end noticed |
| `shell_jobs` | `ForegroundWaited`, `WaitHasZombie`, `JobsKept` (`LiveJobListed`, `SlotKeptUntilDeath`, `ExitKillsJobs`), `LoneWaitEnds` | prompt only after the inline command; table names living jobs; exit kills them; no blocking `wait()`; an inline wait without company ends |
| `cmdline_lines` | `LineCut` (`CmdTypes`, `TokensAreWords`, `CountIsLength`), `HistoryKept` (`HistoryRing`, `RepeatIsOriginal`), `ExpansionFresh` | ordinary lines become their words; the history keeps number and line together and repeats the right one; no leftovers in an expansion |
| `daemons_sessions` | `TableKept` (`TypeOK`, `TableTells`, `RowsAccounted`), `BytesInPlace`, `OutputWhole`, `SessionLetsGo` | the table tells the truth when `main()` listens and each row too many is accounted for; bytes and output of a session; session and shell end, and only `main()` and later sessions hold on to a connection |
| `netsession_lines` | `SessionTypes`, `LinesKept`, `RecvOutstanding`, `EndsNoticed` (`EndNoticed`, `ReceiverEnds`) | acknowledged lines are shown once and in order; the receiver always has a receive posted; ends are noticed and `exit` ends |
| `line_transfer` | `LinesInOrder` (`TypeOK`, `RunsInOrder`), `WholeLinesInTurn`, `NoMutualWait`, `EndsFollow` | texts in order and never leftovers; answers in turn; no mutual waiting; who is left ends or is at its prompt |
| `graph_analysis` | `ShortestPath`, `MaximumFlow` (`GraphTypes`, `NothingLeft`, `ValidFlow`, `FlowIsMinimumCut`), `CommandReturns` | answers are right, and come |

What section 4 proves of these properties it proves for every value of the
constants; the type invariants of `SimpleDaemon` and `Shell` are proved besides.

### 3.1 Bounds, and why they are enough

* `daemon_service`: 2 slots, 2 pids, 3 connections, 3 descriptors, SIGINT to the
  group. Two slots are needed for a wrong one to exist and for `parent_terminate` to
  wait with a child untold, three connections for a refusal, two pids for a reused
  one beside a living one, one descriptor more than slots for one in `main()`'s hand.
  Connections are alike but for their order, so the run has them come in one
  (`InTurn`, an ACTION_CONSTRAINT; symmetry would not be sound with liveness).
* `daemon_stop`: the same, with SIGTERM too.
* `dialog_relay`: 5 lines, pipes of 2 and 4 units, buffers of 2 and 1: the pipes
  fill in both directions, reads return one and several units. The invariants
  were also run with 6 and 7 lines (1.1 and 2.5 million states).
* `gstdio_streams`: buffers of 2 characters, files of 2 and 3 (so reads end
  inside, at and behind a buffer), 3 characters put, one refusal, seeks one
  before and behind the end. Four programs say which slots are used and how,
  since all combinations at once exceed what can be checked.
* `getty_sessions`: two callers in turn (descriptors change their meaning
  between them), letters reduced to one name and code, rubout and both control
  characters, packets of 2, two tries.
* `tlnt_session`: two connections, two units from the remote end and two user
  actions in all, `recv()` of 2 bytes: every sequence is cut at every place. The units
  are a character, an escape sequence, commands with and without an option, and a
  subnegotiation; snoopy and verbose mode are switched on and off by commands.
* `shell_jobs`: two slots, three pids: two jobs and an inline command, or an
  inline command and two copies.
* `cmdline_lines`: lines of 12 bytes, tokens of 3, 4 arguments, a history of 2
  (so four lines go round it twice and `! 3` is both old and new), a directory of
  two names. Six keyboards, each with the bytes one question needs: three type
  byte by byte (every line of 6 over blank, quote and letter; of 5 with editing
  and control characters; redirections), three type prepared pieces (lines and
  tokens past their limits, repeats, wildcards in several commands).
* `daemons_sessions`: two rows and up to three callers, so that rows are full and
  reused. Ten scenarios, each with what one question needs: the table with three
  callers of daemon and a request to terminate, in both builds; bytes and output with
  one caller; and two callers of s_daemon in both builds, since a second session and
  its shell inherit the connection of the first, and under NT its pipes. Two pieces
  of output suffice to lose or reorder one; three bytes hold CR LF and what follows.
* `netsession_lines`: 3 lines (lost, shown, next), 2 starts of the sender (a new
  session while the end of the old one is not yet noticed), 3 commands (leave,
  recall, `listen` at the wrong time), a history of 2.
* `line_transfer`: lines of 0 to 2 characters with a buffer of 2 (every line is
  cut) and of 9 (several fit), 2 or 3 lines a side.
* `graph_analysis`: 238 networks: every triangle with arcs of two metrics and
  three capacities, squares with two chords, and networks where a flow has to be
  undone, a node cannot be reached, a line is overridden or goes nowhere; every
  command on every pair, one command a behaviour, since a command keeps nothing.

Deadlock is not checked: all these programs may rightly stop (daemon exited and
clients gone, all lines typed, connection bounds used up). What must not stop is
stated as a leads-to property or as a "never blocked" invariant.

### 3.2 Fairness

Processes that can run do run: weak fairness on the steps of each process as a
whole (`Main`, each handler, the child, the shell, `TerminalStep`, ...), never
on single choices inside it. Nothing is asked of users, clients, operators and
remote ends: they need not type, leave, send signals or close. In `Dialog` an
open client reads what arrives (`Look`): otherwise its child rightly blocks in
`send()`. In `SimpleDaemon` a told child ends, and a shell ends once its child
has gone, which `Dialog` shows (`OneEndEndsAll`). In `Getty` the shell need never
end or write. In `Daemons` sessions and threads go on and the shell reads its
input and sees its end; it need not print, and nobody need call, hang up or stop
the daemon. In `NetSession` only the receiver's polling loop is fair. In
`Graph` the program is. In `LineTransfer` the programs go on and resets arrive, but
nobody need type: both sides block in `fgets()` with no regard to the other, so that
`EndsFollow` says of the one that is left that it ends or stays at its prompt, and
never goes round for ever while its user types. `CmdLine` has
no liveness: it ends when its user does.

## 4. The proofs

Eight modules of proofs state for *every* number of slots, processes,
connections, descriptors, buffers, files, lines and keys what the runs check for
small ones. Thirty of the runs' properties are theorems:

| module | theorems about what the runs check |
|---|---|
| `SimpleDaemonProofs` | of `SimpleDaemon`: `TableTrue`, `ParentKeepsServed`, `WaitHasZombie`, the refinement `ServiceImplemented`; of `Dialog`: `RelayedInOrder`, `NoMutualBlock` |
| `GStdioProofs` | `PositionKept`, `InputTaken`, the refinement `StreamsImplemented` |
| `GettyProofs` | `DescriptorsKept`, `OwnInput` |
| `TlntProofs` | `ModesKept`, `TextShown` |
| `GraphProofs` | `ShortestPath`, `MaximumFlow` |
| `ShellProofs` | of `Shell`: `ForegroundWaited`, `JobsKept`, `WaitHasZombie`; of `CmdLine`: `LineCut`, `HistoryKept`, `ExpansionFresh` |
| `DaemonsProofs` | `OutputWhole`, `BytesInPlace`, `TableKept` |
| `LineProofs` | of `LineTransfer`: `LinesInOrder`, `WholeLinesInTurn`, `NoMutualWait`; of `NetSession`: `SessionTypes`, `LinesKept`, `RecvOutstanding` |

They rest on the ASSUMEs of the modules: constants that stand for "none" are not
values, sizes are positive where the code's are, sets of numbers where numbers are
needed (in `Shell` that the pids are a finite set without 0, in `Tlnt` that what the
remote end sends as a whole is a character, an escape sequence the trap has room
for, a telnet command of two bytes or with its option, or a subnegotiation without a
255 inside, in `GStdio` that there are descriptors for the three standard streams,
in `Daemons` that some scenario has the most callers, in `Lines` that the child of
pipesend reads more at once, 2047 bytes, than a line with its NUL, in `CmdLine` that
`cmdbuf[]` and `cmd[]` have room for "! num", which 1024 bytes and 64 arguments
have, in `Graph` that the files are of 2 to 20 nodes, no line names another, and
INFTY, 32000 in the code, is more than 1). Three theorems have a hypothesis of their
own:

* `NeverMutuallyBlocked`: the pipe back from the shell holds twice as many outputs
  as the child's buffer holds lines, since a line earns at most an answer and a
  prompt. In the code a pipe has at least 4096 bytes; while the one to the shell is
  full, the shell's reads return all of their 512 bytes, so the 2048 that the child
  waits to write are four reads, each of which is answered in little more than 512.
  The hypothesis is as weak as it can be in the run's instance: with `RecvMax = 2`
  TLC finds the two blocking each other for `FromShellCap` 1, 2 and 3.
* those of `GettyProofs`: `LastFd >= 6`. The first session uses the descriptors 0
  to 6, and the model does not have a process that runs out of them.
* `MaximumAlways`: `CapacitiesBelow`, no line of a file has a capacity of INFTY or
  more. `find_ref()` starts with `fminpot = INFTY` and takes a node only when its
  potential is below that. Where every node lets 32000 units through it takes none,
  and the push starts from whatever `frefnode` was. The files of the run have the
  hypothesis (their capacities are at most 3, INFTY is 9).

In each module the first definitions are the parts of an inductive invariant `IInv`
(`LineInv` and `SessionInv` in `LineProofs`, `CmdInv` for `CmdLine`, `DialogIInv`
for `Dialog`, `PathInv` and `FlowState` for `Graph`); then come lemmas about the
model's operators, one lemma per group of actions, and `Init => IInv`, `IInv /\
[Next]_vars => IInv'` and the theorems.

**SimpleDaemon.** None of the properties is inductive. `LiveChildRecorded` needs to
know that the slot `main()` is about to write is still free, and that is a fact
about the handler: it clears only slots that hold the pid it reaped. `IInv`
therefore joins the type invariant, `LiveChildRecorded` and `SocketMatchesChild`
with `MainInv` (between accept and store `msgsock` is open and in no occupied slot;
slot `i` is free), `SlotInv` (occupied slots have open sockets, each its own) and
`SweepInv` (while the handler sweeps, the reaped pid is unused). The step lemmas
follow the parts of `Next`: `main()`, the two handlers, children, environment. From
`IInv` follow `TypeOK`, `LiveChildRecorded`, `SocketMatchesChild` and
`SlotsNotShared` (by `LiveChildRecorded` two unreaped children in a slot would be
one pid), together `TableTrue`. `HolderInv` (a connection is open in at most one
descriptor, held by the parent exactly then) gives the action property
`ParentKeepsServed`; `ZombieInv` (a SIGCHLD pending and one in the handler have two
different zombies) gives `WaitHasZombie`.

`DaemonServes` is the refinement `JobSpec => ServiceImplemented`. Lemmas say what
the mapping makes of a connection (`StandingIs`: served exactly if a live child
serves it, accepted exactly if it is in `main()`'s hand), and each action is
shown to be a step of `ConnService` or to leave the mapped state alone. The one
step that needs more than `IInv` and `HolderInv` is the refusal: the service may
turn a client away only after MaxServed others have been given a child, while
the code looks at slots. `SearchInv` carries that over the search: for the slots
which `main()` has passed by there are as many open connections, all different,
none of them the one in its hand or in a slot still to be looked at; it survives
that passed slots are freed behind `main()`'s back.

**Dialog.** `RelayedInOrder` says what is where in terms of the histories, but a
step that copies needs to know what `buf` holds: `BufHolds` (lines on their way
in between `recv` and `write`, outputs on their way out between `read` and
`send`, otherwise nothing) and `Opening` (nothing is said before there is a
shell, nothing sent before the greeting) make it inductive. For the mutual
blocking `RepliesBounded` counts: the child turns to the socket only when the
pipe from the shell is empty, and from then on every command which the shell
reads frees one place in its input and earns at most two outputs.

**GStdio.** `IInv` has three parts. `StreamsOK`: each slot is free or is a
reader, whose buffer is what the file holds up to the kernel's offset and whose
`baseposition` is where the buffer begins unless an error came between, or a
writer, whose buffer holds what belongs behind the end of the file; and no two
slots have one file. `CallOK`: what a loop of `g_gets()` or `g_read()` has taken
is what the file holds from where it began to where the stream stands; a line
has no newline in its middle. `RestOK`: the bounds. `g_filbuf()` and
`g_flushbuf()`, which take every way the kernel may answer, are described once by
what they deliver (`Served`, `Delivered`, `Sent`), and the calls cite that.

`StreamsRefined` is `Spec => StreamsImplemented`: each step is one of `Streams`, or one
of the two that the property names beside them. The abstract file is the file
with what its writer holds back behind it, so a step of a writer changes the
abstract file only where `Streams` lets it (put adds, a refusal takes away a
tail), and a flush shows on the abstract disk. Streams a call does not name may
be written on the way (stdout before stdin is read, all at the exit): what may
happen to them is described by `Quiet`. `RInv` adds two facts the runs'
invariants do not have: a buffer that was read is in the file as it is now
(nothing shortens it), and while `g_read()` takes from stdin, stdout is shown.

**Getty.** `TableOK` lists the descriptor table at every place of `main()`: in
the first session the numbers are 4, 5 and 6, in a later one 0, 1 and 4, and
between sessions all is as before but for 0 and 1. `ChildOK` does the same for
the offspring from `fork()` to `exec`; which number is the terminal in it after
both `dup2()` is where the order of the code's closes matters. `ConnOK`,
`LoginOK` and `PtyOK` say whose the bytes are in sockets, buffers and terminal.

**Tlnt.** `IInv` is mostly about places: the mode is cooked outside terminal mode,
a connection that counts as opened has its descriptor (in command mode too, since
`return` looks only at the flag), what `recv()` returned is left only while it is
dealt with. With it the flags (`FlagsTell`) are inductive.

`TextShown` speaks of the moments at which all is received. `InStep` says what holds
between them, on a connection that began with a fresh parser: there is a position in
the stream, so many units and so many bytes of the next one, such that what is in
`ibuf` and on its way is what remains behind it; `arb_state` and the trap are where
that many bytes of that unit leave them (`ArbAt`, `TrapAt`); and what has been said
up to there is what the screen shows and then what the trap has caught; what has
been noted of the negotiation are the notes that belong to that position (`NotesTo`,
`NotesIn`), but for stretches during which nobody wanted them (`told`). A byte for
`telnet_arb()` moves the position alone (`ArbStep`: from end to end of a unit that
begins with IAC nothing is handed back), a byte for the trap moves it and is caught
or shown behind all that was caught (`TrapStep`); `recv()` moves nothing. What the
fold over the units is when there is one more at either end (`FlattenAppend`,
`FlattenFront`) is by induction on their number: `Induction` gets that from the
well-foundedness of `<`, for a set of numbers, which needs no operator as parameter.

**Daemons.** One invariant for both daemons and both builds. `Pieces` is about what
the shell produced: the numbers sent, then those in the buffer, then those in the
pipe ascend, and as long as no `send()` was cut they are all the numbers there are;
after the end was read there is nothing in buffer and pipe. `OutputOf` has with it
that a shell which runs has the printing end of its pipe, so that no end is read
before it is gone, and that only its SIGCLD or a caller who left cuts a `send()`.
`BytesOf` has the buffer as the piece that follows what was written. `HoldersOK`
says who can have a descriptor of a connection: whoever has inherited it began
later, because `main()` numbers them in the order of `accept()`, and a shell has at
most what its session had (`Heirs`). For the table, Unix and NT need different
facts. `UnixTable`: who lives or waits to be reaped is in one row, unless `main()`
is just recording him; a row whose stores were interrupted belongs to a process that
has gone. `NTTable`: the pairs of connection and thread number which are issued (in
`arglist`, in a thread, in a row) determine each other. They are claimed as long as
no termination signal has come. `RowsAccounted` compares two cardinalities, and
`Counts` makes that inductive: the used rows are as many as the offspring that live,
are zombies or ended unlisted, less the one that `main()` has started and not
recorded. Each action adds to both sets, takes from both, or leaves both alone
(`CountsGrow`, `CountsKept`, `DieZombie`); that the row which an ending offspring
frees is a used one (`OwnRowUsed`) is where the two tables come in.

**Shell.** `IInv` joins the type invariant with `ForegroundInv` (only the process
just forked is waited for, and if it was reaped early `last_SIGCLD` or `inline_opid`
tells), `SlotInv` (the slot found stays free until recorded), `JobInv` (every living
job is in `proc[]` or just being recorded), `RoleInv` and `EndInv`. It yields
`TypeOK`, `ForegroundWaited`, `LiveJobListed`, `ExitKillsJobs` and the action
property `SlotKeptUntilDeath`, together `JobsKept`; `ZombieInv` yields
`WaitHasZombie` for behaviours without stops. That a search from slot 0 finds a
first slot is lemma `FirstOfIn`, from the well-foundedness of `<` on the naturals.

**NetSession.** `SessionTypes` also bounds the receives that are posted, by the commands
entered. `Room` makes that inductive: a receive more takes a command, typed or
yet to be entered, and a line which waits to be polled will be followed by a
receive. `LinesKept` is not inductive: that a line which arrives is newer
than all that were shown needs to know how many lines the sender has entered,
and that an acknowledged line is not lost between `cmd_cplt` and the poll needs
to know that no second receive can overwrite the buffer. `SessionInv` joins the types
with `RecvOutstanding`, `OneReceive` (unless `listen` was entered while
connected at most one receive is posted, and none beside an unpolled
completion), `InOrder` (what is shown, then the line in the buffer, then the
line being sent, ascend) and `NoneLost`. `RecallThenEnter` is a fact about the
history buffer alone: recalling the last line and entering it unchanged leaves
the buffer as it was.

**LineTransfer.** `Places` says who has connected, who has left and what TCP has
told of it. `Ends` and `PipeEnds` describe how what is on its way ends: with a whole
line before another is sent, in NT's pipe with the sentinel once there was a period;
between `reply` and `recv` something is on its way, which is why the two do not
wait for each other. `Streams` relates the bytes to the screen: those on their way
are of lines that were sent, in their order, and follow one another where nothing
separates them (`Flow`); what was shown is runs of lines (`Told`), all of it before
what is on its way (`Follows`). That printing stops before anything older in the
buffer is a matter of the first NUL: TCP's readers clear the buffer, and a piece out
of the pipe always has a NUL of its own (`PieceEnds`), because the child reads more
at once than a line. `Turns` lists the four states of an exchange in which nothing
was cut.

**CmdLine.** `CmdInv` joins three things. `Buffers` is the types, with the bounds of
`cmdbuf[]`, `cmd[]` and `cmdexp[]`. `Aged` says of the ring what neither of its
readers says: the entry that lies `x` places behind `last_cmd` was filled by the
command `x` before the current one, with the line run under it, or by none. From it
follow the listing of `hist_internal()` (`RingListed`), and that the search
for `cnum` finds one entry, of that command (`RepeatStep`). `CmdParsed` says that
`cmd` is what `parse_cmdbuf()` makes of the newest entry, or an error, also
after `! num` has parsed another line than was typed.

That an ordinary line becomes its words is a statement about a loop over positions
against a definition over sets of them. The loop invariant `Walk` says that the
tokens so far are the words that start before the index, that the index stands in
front of the next word or behind the last, and that the remembered redirections
are the first of their kind; `TurnWalks` proves it of one turn and `LoopWalks` of all
the turns, by induction over their number (`AllNumbers` states induction for a set
of numbers, and takes no operator as its parameter). `GapIs` is the skip between
words, `WordIs` the scan of one, `SignsAre`, `OneCut` and `TwoCuts` the removal of
the redirections. `ExpandIs` and `MatchedIs` say what `expand_wcard()` leaves in
`cmdexp[]` up to its first NULL, whatever stood there.

**Graph.** `Labels` is what Dijkstra's algorithm keeps: a label below INFTY leads by
an arc to a permanent node whose label is smaller by that arc (`Traced`); the working
node is the farthest permanent one and no tentative one is nearer (`Ordered`); the
neighbours of every other permanent node have been examined (`Examined`). A turn of
the goto keeps these (`Turned` says what it does, `LabelsTurn` that it keeps them).
When the source is chosen, no path is shorter than the label of its first node, up to
that of the source (`NoneShorter`, by induction over the arcs of the path). The other
direction needs that a label is the length of a path with no more arcs than there
are rounds in `Distance`: `Above` bounds them by the number of permanent nodes. So a
permanent label is the distance (`LabelIsDistance`). The loop over the predecessors
ends at the destination because each node has fewer nodes nearer than the one
before (`Gone`), and its sum is the difference of the labels. That the metric is
symmetric, since a line of the file sets both directions, is needed: the search runs
from the destination, the path from the source.

`MaximumFlow` is about a flow between phases and about one arc at a time within
them. `FlowInv` says what is known at each place of `max_flow()`. While `layer_net()`
labels, `Layered`: each labelled node has one in the layer before it from which there
is room, and `Closed`: from the layers done no arc with room leads to a node without a
label. So if the destination gets none, the labelled nodes are a cut without room
(`CutOff`); flow over it is its capacity, and no flow is larger (`ValueIsMinimum`).
If it gets one, `walk()` leaves nodes that each have an arc with room to the next
layer (`Upward`), so that every potential is positive and a smallest one exists
(`LeastIs`). The heart is the push and the pull. `push_pull()` cannot fail to place
what it was given, though it looks at one node after the other and never goes
back: `Moving(left)` relates the calls on the stack to the flow. `left` is what the
call for each node has still to move (`Held`), exactly what has entered it and not
left it (`Balanced`), and all that waits at a node and in the layers behind it has
room beyond that node (`Roomy`), at the start because no potential is less than the
reference node's. An arc passed over has no room and gets none in this network
(`Tried`), so a call that finds no arc left would have no room for what it holds:
it holds nothing (`NothingIsLeft`). During the push, `Pullable` keeps for the layers
behind the reference node the room that the pull will need; the push does not
touch them. When the pull is done `Owed` is nothing and the flow is one again
(`Conserved`).

The sums are the community modules' `SumFunction()`, a fold with an operator as its
parameter. `SumIs` shows that for every finite set it is the last value of a recursive
function on subsets (`AddedUp`), by induction over a set of numbers; what else is
needed (a sum with one value changed, two sums compared, the sum of a square of
opposite values) follows from that. For the same reason `Incap()`, `Outcap()` and
`Walked` are written with functions in `Graph`.

**Only model-checked.** The liveness properties: liveness under fairness and ENABLED
are beyond the prover. Every safety property and both refinements of the runs are
theorems.

## 5. What is known and not claimed

Things the models contain, or reading showed, that no property excludes because
the code does them. Where a comment or document of the repository says otherwise
it is quoted.

* simple_daemon: leaked slots (2.1); a child forked in the very moment of
  `parent_terminate` is not told and outlives the daemon; a child keeps the
  descriptors of all clients connected when it was forked; when `fork()` fails the
  daemon exits without telling its children. With two children `parent_terminate`
  stands in `wait()` after it has told the first (2.1, `daemon_stop`).
* g_stdio: `g_getc` on a stream opened for writing takes from its buffer;
  `g_putc` of a negative character is dropped when the buffer is full. The flush
  at exit tests `cnt > 0` (line 955), but `cnt == 0` is a full buffer (line 76),
  so a buffer that is exactly full, and always stderr's, is passed over, where lines
  947-948 have all that are not empty written. `g_seek()` at the end of a file counts
  `G_SEEK_CUR` from its start, where line 760 says that it does the same thing as
  `fseek()`. `g_read()` that meets the end of the file returns 0 although items were
  complete, where line 503 says that it does the same thing as `fread()`. The first
  two are the named exceptions of `StreamsImplemented`, the third is what
  `ReadTakesItems` says.
* s_getty: type-ahead lost, short writes lost, no limit on the login (2.4). A
  caller who resets the connection ends the whole server by SIGPIPE (line 886), and
  so does one who sends urgent data (860-867), though lines 65-68 say that after an
  exception or a null read it goes back to `listen()`. `SessionsEnd` allows these two
  and no other.
* s_tlnt: once negotiation is active a silent peer is asked AYT for ever; a
  CTRL-C outside `select()` is sent late or never. `telnet_arb()` keeps its state
  from call to call but not `telnet_cmd` (line 1114): a command cut from its
  option is answered from an uninitialised variable.
* s_sh, processes: stopping a job blocks the shell in its handler's `wait()`;
  `exit` sends SIGKILL to ids in slots that were never freed, whoever has them
  now. With a job in the background the inline wait can hang: two deaths in one
  SIGCLD, or the job reaped last before the mask is set, leave `sigsuspend()`
  with nothing to come (the comment at 1027-1041 says the sequence fixes the
  hang; `LoneWaitEnds` shows that it does when there is no second child).
* s_sh, lines: the rest of a line that reaches MAX_LINEL - 1 is the next command
  (the comment before `getcmd()` says it is thrown away); the byte at which a
  long token is split is lost; a quote inside a token drops a byte; `! 0` repeats
  an empty history line; more names than `cmdexp[]` has entries are written past
  its end; of several arguments behind a wildcard at most the last survives.
* s_daemon and daemon: under NT the arguments are copied after a sleep of three
  seconds when the log is the screen, though line 658 wants them copied before
  `main()` starts the next thread, so two threads may serve one caller and another
  none; an offspring that ends before its row is made stays in the table (line 989:
  "Make SURE we are removed"), and so does the row of a thread whose number another
  has used to free its own. `RowsAccounted` says that these are the only rows lost.
  The accepted socket is not closed in `main()` where line 381 says so; later
  sessions and their shells inherit it, and the connection stays open until the last
  of them ends (`SessionLetsGo` allows nobody else). Under NT the shell has the
  writing end of its own input and does not see the end of it; `pipe_to_socket()`
  closes the socket a second time, and what would follow if the number had been
  given to another caller by then is not modelled. What the shell printed last is
  lost when its SIGCLD meets the session in `select()`, and any output that a cut
  `send()` did not take (963); `OutputWhole` says that it is lost in no other way.
  `parent_terminate` waits for whichever child ends. What `main()` does after
  `fork()` is taken to depend on the value returned: a build that reads the row
  again, which SIGCLD may have cleared between, would take the daemon for its
  offspring (362-401; in simple_daemon 188-210).
* sesssend/sessrecv: a line whose send timed out is not sent again and may be
  lost; `listen` while connected posts a second receive (2.9).
* vcsend/vcrec, client/server, pipesend: lines that TCP joins are lost behind the
  first; at end of file the last line is sent again. `solutions/lab4/vcrec.c` asks
  for a line when `recv()` has told it by a 0 that the sender has left, and overwrites
  the 0 with the result of `send()`: it ends neither then nor after that line, but when
  a reset has come and its user types once more, where `vcsend.c` (215-217) says that
  it will "close its sockets and exit". `EndsFollow` leaves it at the prompt. In
  pipesend under NT a character with the eighth bit set ends the child; after a
  failed `fork()` the period sends SIGTERM to every process of the user; a read
  that fills the buffer of 2048 stores its NUL behind it (line 275, not modelled).
* ngraph: a `short_path()` whose source cannot be reached never returns (line
  590); `CommandReturns` excludes it by `Answerable`.

## 6. Not modelled

* `select.c` (`lab3`, `lab4`, `solutions/lab3`) and `terminal.c`: one process,
  one descriptor; the same loop with more of them is in `Dialog` and `Tlnt`.
* `dgrmsend`, `dgrmrec`: one datagram, sent once and read once.
* `digarp`: formatting of tables that Windows calls return, and one raw socket.
* `s_tndesq`: the option negotiation of `s_tlnt`, which is modelled, on the API of
  DESQview.
* `process`, `prc`, `gethost`, `startup`, `diagnost`, `cleanup`: straight-line
  set-up, listings and dumps; no state outlives a call.
* The small examples, the assembly labs, the lecture pages and generated scanner
  of the compiler course, and the web site: no state, or not a program.

Of the modelled programs: startup up to the first prompt or `listen()`, host
names and addresses, log files, wording and layout of what is displayed, the
OS/2 build of s_getty, the Windows console of s_tlnt.

## 7. What could follow

1. An abstract channel of lines that `NetSession` and `LineTransfer` implement.
2. A composition of `Shell` and `CmdLine`, for the pid in the history.
