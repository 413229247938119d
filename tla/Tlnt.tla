--------------------------------- MODULE Tlnt ---------------------------------
(***************************************************************************)
(* cmps3620/code/lab6/s_tlnt.c, the Unix build: the telnet client.  In     *)
(* terminal mode main() relays between the keyboard and a connection with  *)
(* select(); in command mode it obeys "s_tlnt> " commands.  Every byte     *)
(* received goes through telnet_arb(), which parses and answers the IAC    *)
(* sequences of the telnet protocol, or through the ESCape trap, which     *)
(* collects escape sequences for process_esc().                            *)
(*                                                                         *)
(* The remote end sends whole units: a character, an escape sequence, an   *)
(* IAC sequence.  The connection is a byte stream: recv() may cut it       *)
(* anywhere, and what the units were is history the client does not see.   *)
(*                                                                         *)
(* Bytes: IAC and the commands stand for 236 to 255, "x8" for the other    *)
(* bytes with the eighth bit set, the rest is below 128 and is an option   *)
(* or text, whichever is expected.  Of what is written on the screen the    *)
(* bytes received are modelled, and the notes of telnet_arb() on those it  *)
(* has parsed; wording, the other verbose output and the status            *)
(* output, the Windows branches and the CR and LF cases of port 23 are left *)
(* out, and so is the select() timeout while negotiation is active, which  *)
(* only asks AYT again.                                                    *)
(***************************************************************************)
EXTENDS Integers, Sequences, SequencesExt

CONSTANTS
  Units,        \* byte sequences the remote end sends as a whole
  Keys,         \* what is typed in terminal mode
  MaxEscSeq,    \* MAX_ESC_SEQ
  Snoopy,       \* whether -snoopy may be, or may not be, among the arguments
  Verbose,      \* likewise -v
  HasTerm,      \* the environment has a TERM variable
  KeyRead,      \* 80, what one read of the keyboard takes
  SockRead,     \* 80, what one recv() takes
  MaxUnits,     \* bound: units, and urgent data, the remote ends send
  MaxUser,      \* bound: keys, CTRL-Cs, end of file and (no)snoopy commands
  MaxOpens      \* bound: connections opened

Commands == {"DO", "DONT", "WILL", "WONT", "SB", "SE", "IAC", "NOP"}
Options  == {"TTYPE", "SGA", "ECHO", "BINARY", "LFLOW"}
Finals   == {"A"}                       \* the letters that end ESC <letter>
Params   == {"1"}                       \* 0 to 9 ; ?
Low      == Options \cup Finals \cup Params \cup {"a", "ESC", "["}
Bytes    == Commands \cup Low \cup {"x8"}

ASSUME ConstantsAssumption ==
  /\ Units \subseteq Seq(Bytes) \ {<<>>}
  /\ Keys \subseteq {"k", "BREAK", "REINIT", "DOKILL"}
  /\ {MaxEscSeq, KeyRead, SockRead} \subseteq Nat \ {0}
  /\ {MaxUnits, MaxUser, MaxOpens} \subseteq Nat
  /\ HasTerm \in BOOLEAN /\ Snoopy \subseteq BOOLEAN /\ Verbose \subseteq BOOLEAN

(* What the remote end sends as a whole: a character, with the eighth bit   *)
(* set or not; an escape sequence that the trap has room for; a telnet      *)
(* command of two bytes (a 255 that is data among them), one with an        *)
(* option; a subnegotiation without a 255 inside.                           *)
Character(u) == Len(u) = 1 /\ u[1] \in Bytes \ {"ESC", "IAC"}
Escape(u) ==
  \/ Len(u) = 2 /\ u[1] = "ESC" /\ u[2] \in Finals
  \/ /\ Len(u) \in 3 .. MaxEscSeq + 1 /\ u[1] = "ESC" /\ u[2] = "["
     /\ \A k \in 3 .. Len(u) - 1 : u[k] \in Params
     /\ u[Len(u)] \in Low \ (Params \cup {"ESC"})
Negotiations == {"DO", "DONT", "WILL", "WONT", "SB"}
Command(u) == Len(u) = 2 /\ u[1] = "IAC" /\ u[2] \in Commands \ Negotiations
Request(u) ==
  Len(u) = 3 /\ u[1] = "IAC" /\ u[2] \in {"DO", "DONT", "WILL", "WONT"}
Subnegotiation(u) ==
  /\ Len(u) >= 5 /\ u[1] = "IAC" /\ u[2] = "SB"
  /\ \A k \in 4 .. Len(u) - 2 : u[k] # "IAC"
  /\ u[Len(u) - 1] = "IAC" /\ u[Len(u)] = "SE"

ASSUME UnitsAssumption ==
  \A u \in Units : \/ Character(u) \/ Escape(u)
                    \/ Command(u) \/ Request(u) \/ Subnegotiation(u)

VARIABLES
  pc,                 \* where main() is
  ready,              \* what the last select() found, not yet dealt with
  ibuf,               \* what the last recv() returned, not yet dealt with
  mode,               \* current_mode: "cooked" (ECHO_NORAW) or "select"
  connection_opened, in_snoopymode, verbose_flag,
  reinit_sent, dokill_sent, ctrlc_received,
  sock_open,          \* the descriptor in sock has not been closed
  neg_active, negotiated,
  arb_state,          \* telnet_arb(): the state it keeps from call to call
  telnet_cmd,         \* telnet_arb(): its local variable; "junk" in a new call
  trap,               \* esc_last, escbrack_last, escinfo_last: those set
  esc_message,
  inc,                \* sent by the remote end, not yet received
  remote,             \* the remote end of the connection
  urgent,             \* it has sent urgent data
  typed,              \* typed, not yet read
  eof,                \* the keyboard is at its end
  units, shown, out,  \* history of this connection: sent to us, shown, sent by us
  notes,              \* history: the notes of telnet_arb() on the screen, each
                      \* the number of bytes shown before it and what it is on
  told,               \* history: whether notes were wanted, when it was called
  clean,              \* history: the connection began with arb_state and trap
                      \* reset, and no ESCape sequence was cut by (no)snoopy
  nuser, nsent, nopens

displayVars == <<in_snoopymode, verbose_flag>>
flagVars == <<displayVars, reinit_sent, dokill_sent, ctrlc_received>>
connVars == <<connection_opened, sock_open>>
arbVars  == <<neg_active, negotiated, arb_state, telnet_cmd>>
escVars  == <<trap, esc_message>>
netVars  == <<inc, remote, urgent, units, nsent>>
keyVars  == <<typed, eof, nuser>>
screenVars == <<shown, notes, told>>
vars == <<pc, ready, ibuf, mode, flagVars, connVars, arbVars, escVars, netVars,
          keyVars, screenVars, out, clean, nopens>>

InTerminal == pc \in {"select", "turn"}

(* Type invariant: the values the variables may take. *)
TypeOK ==
  /\ pc \in {"start", "select", "turn", "command", "exited", "killed"}
  /\ ready \subseteq {"stdin", "sock"}
  /\ ibuf \in Seq(Bytes) /\ Len(ibuf) <= SockRead
  /\ ibuf # <<>> => pc = "killed" \/ (pc = "turn" /\ ready = {"sock"})
  /\ mode \in {"cooked", "select"}
  /\ {connection_opened, in_snoopymode, verbose_flag, reinit_sent, dokill_sent,
      ctrlc_received, sock_open, neg_active, urgent, eof, clean} \subseteq BOOLEAN
  /\ negotiated \in [Options -> -1 .. 1]
  /\ arb_state \in 0 .. 6
  /\ telnet_cmd \in Commands \cup {"junk"}
  /\ trap \subseteq {"esc", "brack", "info"}
  /\ esc_message \in Seq(Bytes) /\ Len(esc_message) <= MaxEscSeq
  /\ inc \in Seq(Bytes)
  /\ remote \in {"none", "open", "closed", "reset"}
  /\ typed \in Seq(Keys)
  /\ units \in Seq(Units)
  /\ nuser \in 0 .. MaxUser /\ nsent \in 0 .. MaxUnits /\ nopens \in 0 .. MaxOpens

NoOption == [o \in Options |-> 0]

Init ==
  /\ pc = "start" /\ ready = {} /\ ibuf = <<>> /\ mode = "cooked"
  /\ connection_opened = FALSE /\ sock_open = FALSE
  /\ in_snoopymode \in Snoopy /\ verbose_flag \in Verbose
  /\ reinit_sent = FALSE /\ dokill_sent = FALSE /\ ctrlc_received = FALSE
  /\ neg_active = FALSE /\ negotiated = NoOption
  /\ arb_state = 0 /\ telnet_cmd = "junk"
  /\ trap = {} /\ esc_message = <<>>
  /\ inc = <<>> /\ remote = "none" /\ urgent = FALSE /\ units = <<>>
  /\ typed = <<>> /\ eof = FALSE
  /\ shown = <<>> /\ notes = <<>> /\ told = {} /\ out = <<>> /\ clean = TRUE
  /\ nuser = 0 /\ nsent = 0 /\ nopens = 0

First(s, n) == SubSeq(s, 1, IF Len(s) < n THEN Len(s) ELSE n)
After(s, n) == SubSeq(s, n + 1, Len(s))
Has(s, b)   == \E k \in 1 .. Len(s) : s[k] = b
As(kind, s) == [k \in 1 .. Len(s) |-> <<kind, s[k]>>]

-----------------------------------------------------------------------------
(* Between the modes                                                        *)

NoScreen == shown' = <<>> /\ notes' = <<>> /\ told' = {}

(* The label terminalmode.  *)
\* mutant: the flags of the connection before are kept
KeepsSent    == UNCHANGED <<reinit_sent, dokill_sent>>
ResetSent    == reinit_sent' = FALSE /\ dokill_sent' = FALSE
TerminalMode ==
  /\ pc' = "select" /\ mode' = "select" /\ ready' = {} /\ ibuf' = <<>>
  /\ ResetSent

(* The label newterminalmode, after a successful telnet_open().  arb_state  *)
(* and the flags of the ESCape trap are not reset.                          *)
NewTerminalMode ==
  /\ TerminalMode
  /\ connection_opened' = TRUE /\ sock_open' = TRUE
  /\ neg_active' = FALSE /\ negotiated' = NoOption
  /\ inc' = <<>> /\ remote' = "open" /\ urgent' = FALSE /\ units' = <<>>
  /\ NoScreen /\ out' = <<>>
  /\ clean' = (arb_state = 0 /\ trap = {})
  /\ nopens' = nopens + 1
  /\ UNCHANGED <<displayVars, ctrlc_received, arb_state, telnet_cmd, escVars,
                 nsent, keyVars>>

(* echo_noraw() *)
EchoNoraw == mode' = "cooked"

(* The label commandmode. *)
CommandMode == pc' = "command" /\ EchoNoraw /\ ready' = {} /\ ibuf' = <<>>

(* CLOSE_SOCKET(), and the flag that goes with it.  The remote end and the  *)
(* history of the connection go with it.                                    *)
Forget ==
  /\ inc' = <<>> /\ remote' = "none" /\ urgent' = FALSE
  /\ NoScreen /\ units' = <<>> /\ out' = <<>> /\ UNCHANGED nsent
CloseConnection == connection_opened' = FALSE /\ sock_open' = FALSE /\ Forget

(* main() called with a host that cannot be reached, without one, with one. *)
StartFails ==
  /\ pc = "start"
  /\ pc' = "exited"
  /\ UNCHANGED <<ready, ibuf, mode, flagVars, connVars, arbVars, escVars, netVars,
                 keyVars, screenVars, out, clean, nopens>>

StartCommand ==
  /\ pc = "start"
  /\ CommandMode
  /\ UNCHANGED <<flagVars, connVars, arbVars, escVars, netVars, keyVars, screenVars, out,
                 clean, nopens>>

StartOpen == pc = "start" /\ nopens < MaxOpens /\ NewTerminalMode

-----------------------------------------------------------------------------
(* One more thing the user does. *)
UserActs == nuser < MaxUser /\ nuser' = nuser + 1

(* What a send() does to the connection, and what becomes of the client:    *)
(* a connection closed at the other end answers with a reset; on a reset    *)
(* one the send fails, or SIGPIPE, which keeps its default action, ends     *)
(* the client.                                                              *)
SendResults ==
  {r \in [remote : {"open", "closed", "reset"}, fate : {"sent", "failed", "killed"}] :
     \/ remote = "open"   /\ r.remote = "open" /\ r.fate = "sent"
     \/ remote = "closed" /\ r.remote # "open" /\ r.fate = "sent"
     \/ remote = "reset"  /\ r.remote = "reset" /\ r.fate # "sent"}

(* select() *)
\* mutant: the end of the stream is not a reason to read
DataReady ==
  {x \in {"stdin", "sock"} : \/ x = "stdin" /\ (typed # <<>> \/ eof)
                             \/ x = "sock" /\ inc # <<>>}

SelectReady ==
  {x \in {"stdin", "sock"} : \/ x = "stdin" /\ (typed # <<>> \/ eof)
                             \/ x = "sock" /\ (inc # <<>> \/ remote # "open")}

Select ==
  /\ pc = "select" /\ ~urgent /\ SelectReady # {}
  /\ pc' = "turn" /\ ready' = SelectReady
  /\ UNCHANGED <<ibuf, mode, flagVars, connVars, arbVars, escVars, netVars, keyVars,
                 screenVars, out, clean, nopens>>

(* SELECT_TIMEOUT seconds without a byte, and no negotiation active. *)
SelectTimeout ==
  /\ pc = "select" /\ ~urgent /\ SelectReady = {} /\ ~neg_active
  /\ CloseConnection /\ CommandMode
  /\ UNCHANGED <<flagVars, arbVars, escVars, keyVars, clean, nopens>>

SelectException ==
  /\ pc = "select" /\ urgent
  /\ CloseConnection /\ CommandMode
  /\ UNCHANGED <<flagVars, arbVars, escVars, keyVars, clean, nopens>>

(* CTRL-C.  disp_ctrlc() sets ctrlc_received; only a select() it interrupts *)
(* looks at the flag, and passes the character on.  In command mode SIGINT  *)
(* has its default action.                                                  *)
CtrlC ==
  /\ pc \in {"select", "turn", "command"} /\ UserActs
  /\ \/ /\ pc = "select" /\ ctrlc_received' = FALSE
        /\ \E r \in SendResults :
             /\ remote' = r.remote
             /\ out' = IF r.fate = "sent" THEN Append(out, <<"key", "^C">>) ELSE out
             /\ pc' = IF r.fate = "killed" THEN "killed" ELSE pc
     \/ pc = "turn" /\ ctrlc_received' = TRUE /\ UNCHANGED <<pc, remote, out>>
     \/ pc = "command" /\ pc' = "killed" /\ UNCHANGED <<ctrlc_received, remote, out>>
  /\ UNCHANGED <<ready, ibuf, mode, displayVars, reinit_sent, dokill_sent, connVars,
                 arbVars, escVars, inc, urgent, units, nsent, typed, eof, screenVars,
                 clean, nopens>>

-----------------------------------------------------------------------------
(* stdin(read) --> socket(write)                                            *)

StdinEnds ==
  /\ pc = "turn" /\ "stdin" \in ready /\ typed = <<>>
  /\ CloseConnection /\ CommandMode
  /\ UNCHANGED <<flagVars, arbVars, escVars, keyVars, clean, nopens>>

(* TEL_BREAK: none of what this read returned is sent. *)
StdinBreak ==
  LET pbuf == First(typed, KeyRead)
      upto(k) == \A e \in 1 .. k : pbuf[e] # "BREAK"
  IN /\ pc = "turn" /\ "stdin" \in ready /\ Has(pbuf, "BREAK")
     /\ typed' = After(typed, KeyRead)
     /\ reinit_sent' = (reinit_sent \/ \E k \in 1 .. Len(pbuf) :
                                         upto(k) /\ pbuf[k] = "REINIT")
     /\ dokill_sent' = (dokill_sent \/ \E k \in 1 .. Len(pbuf) :
                                         upto(k) /\ pbuf[k] = "DOKILL")
     /\ CommandMode
     /\ UNCHANGED <<displayVars, ctrlc_received, connVars, arbVars, escVars, netVars,
                    eof, nuser, screenVars, out, clean, nopens>>

StdinSend ==
  LET pbuf == First(typed, KeyRead)
  IN /\ pc = "turn" /\ "stdin" \in ready /\ pbuf # <<>> /\ ~Has(pbuf, "BREAK")
     /\ typed' = After(typed, KeyRead)
     /\ reinit_sent' = (reinit_sent \/ Has(pbuf, "REINIT"))
     /\ dokill_sent' = (dokill_sent \/ Has(pbuf, "DOKILL"))
     /\ \E r \in SendResults :
          \/ /\ r.fate = "sent"
             /\ remote' = r.remote /\ out' = out \o As("key", pbuf)
             /\ ready' = ready \ {"stdin"}
             /\ pc' = IF ready = {"stdin"} THEN "select" ELSE pc
             /\ UNCHANGED <<ibuf, mode, connVars, inc, urgent, units, nsent, screenVars>>
          \/ r.fate = "failed" /\ CloseConnection /\ CommandMode
          \/ /\ r.fate = "killed" /\ pc' = "killed"
             /\ UNCHANGED <<ready, ibuf, mode, connVars, netVars, screenVars, out>>
     /\ UNCHANGED <<displayVars, ctrlc_received, arbVars, escVars, eof, nuser,
                    clean, nopens>>

-----------------------------------------------------------------------------
(* socket(recv) --> stdout(write)                                           *)

(* A call of telnet_arb() begins: its local telnet_cmd has no value yet.    *)
Recv ==
  /\ pc = "turn" /\ ready = {"sock"} /\ ibuf = <<>> /\ inc # <<>>
  /\ \E n \in 1 .. Len(inc) :
       /\ n <= SockRead
       /\ ibuf' = First(inc, n) /\ inc' = After(inc, n)
  /\ telnet_cmd' = "junk"
  /\ UNCHANGED <<pc, ready, mode, flagVars, connVars, neg_active, negotiated, arb_state,
                 escVars, remote, urgent, units, nsent, keyVars, screenVars, out, clean, nopens>>

(* Null recv: "Connection closed by foreign host".  After a GET_REINIT the  *)
(* socket is not closed.                                                    *)
RecvEnd ==
  /\ pc = "turn" /\ ready = {"sock"} /\ ibuf = <<>> /\ inc = <<>>
  /\ connection_opened' = FALSE /\ Forget
  /\ IF reinit_sent
     THEN /\ reinit_sent' = FALSE
          /\ CommandMode
          /\ UNCHANGED <<dokill_sent, sock_open>>
     ELSE /\ dokill_sent' = FALSE
          /\ pc' = "exited" /\ EchoNoraw /\ sock_open' = FALSE
          /\ ready' = {}
          /\ UNCHANGED <<reinit_sent, ibuf>>
  /\ UNCHANGED <<displayVars, ctrlc_received, arbVars, escVars, keyVars, clean,
                 nopens>>

(* The for loop over ibuf goes on to its next byte, or ends. *)
NextByte ==
  /\ ibuf' = Tail(ibuf)
  /\ IF Len(ibuf) = 1 THEN pc' = "select" /\ ready' = {} ELSE UNCHANGED <<pc, ready>>

AtByte(b) == pc = "turn" /\ ready = {"sock"} /\ ibuf # <<>> /\ b = Head(ibuf)
\* mutant: only the eighth bit is looked at, not arb_state
EighthBit(b) == b \notin Low
ForArb(b) == arb_state # 0 \/ b \notin Low

(* The next state of telnet_arb() for byte b. *)
NextArb(b) ==
  CASE arb_state = 0 -> IF b = "IAC" THEN 1 ELSE 0
    [] arb_state = 1 -> IF b \in {"DO", "DONT"} THEN 2
                        ELSE IF b \in {"WILL", "WONT"} THEN 3
                        ELSE IF b = "SB" THEN 4 ELSE 0
    [] arb_state \in {2, 3} -> 0
    [] arb_state = 4 -> 5
    [] arb_state = 5 -> IF b = "IAC" THEN 6 ELSE 5
    [] arb_state = 6 -> 0

(* It returns less than 0: the caller shows the byte in hexadecimal. *)
Handback(b) == \/ arb_state = 0 /\ b # "IAC"
               \/ arb_state = 1 /\ b \notin Negotiations
               \/ arb_state = 6 /\ b # "SE"

(* What is sent in answer to command cmd with option opt, and what is noted *)
(* about the option, when neg has been noted.                               *)
Nackable == {"ECHO", "BINARY", "LFLOW"}
Reply(neg, cmd, opt) ==
  IF cmd = "DO" /\ opt \in {"TTYPE", "SGA"} THEN <<<<"WILL", opt>>>>
  ELSE IF \/ cmd = "DO"
          \/ cmd = "DONT" /\ ~(opt \in Nackable /\ neg[opt] = -1)
       THEN <<<<"WONT", opt>>>>
  ELSE IF cmd = "WILL" /\ opt = "SGA" THEN <<<<"DO", opt>>>> ELSE <<>>

Noted(neg, cmd, opt) ==
  IF \/ cmd = "DO" /\ (opt = "SGA" \/ (opt = "TTYPE" /\ HasTerm))
     \/ cmd = "WILL" /\ opt = "SGA" THEN [neg EXCEPT ![opt] = 1]
  ELSE IF cmd \in {"DO", "DONT"} /\ opt \in Nackable THEN [neg EXCEPT ![opt] = -1]
  ELSE neg

(* The command the variable telnet_cmd is read as.  Uninitialised, it may   *)
(* be anything; "NOP" stands for a value that is no command of the switch.  *)
ReadCmd == IF telnet_cmd # "junk" THEN {telnet_cmd}
           ELSE IF arb_state = 2 THEN {"DO", "DONT", "NOP"} ELSE {"WILL", "WONT", "NOP"}

(* show: telnet_arb() writes what it parses, "[them:IAC,...", what it       *)
(* answers, and every byte of a subnegotiation.                             *)
Show == in_snoopymode \/ verbose_flag
Tells(b) == \/ arb_state = 1 /\ b \in Commands \ Negotiations
            \/ arb_state \in {2, 3, 4, 5}
            \/ arb_state = 6 /\ b = "SE"

ArbByte ==
  \E b \in Bytes :
    /\ AtByte(b) /\ ForArb(b)
    /\ arb_state' = NextArb(b)
    /\ neg_active' = (neg_active \/ (arb_state = 0 /\ b = "IAC"))
    /\ telnet_cmd' = IF arb_state' = 0 THEN "junk"
                     ELSE IF arb_state = 1 THEN b ELSE telnet_cmd
    /\ IF arb_state \in {2, 3}
       THEN \E cmd \in ReadCmd :
              /\ negotiated' = Noted(negotiated, cmd, b)
              /\ IF Reply(negotiated, cmd, b) = <<>>
                 THEN NextByte /\ UNCHANGED <<remote, out>>
                 ELSE \E r \in SendResults :
                        /\ remote' = r.remote
                        /\ out' = IF r.fate = "sent" THEN out \o Reply(negotiated, cmd, b) ELSE out
                        /\ IF r.fate = "killed"
                           THEN pc' = "killed" /\ UNCHANGED <<ready, ibuf>>
                           ELSE NextByte
       ELSE NextByte /\ UNCHANGED <<negotiated, remote, out>>
    /\ shown' = IF Handback(b) THEN Append(shown, <<"hex", b>>) ELSE shown
    /\ notes' = IF Show /\ Tells(b) THEN Append(notes, <<Len(shown), b>>) ELSE notes
    /\ told' = told \cup {Show}
    /\ UNCHANGED <<mode, flagVars, connVars, escVars, inc, urgent, units, nsent, keyVars,
                   clean, nopens>>

(* The ESCape trap: its flags, its message and what is shown after byte b.  *)
(* process_esc() writes the ESCape and the message.  An ESCape that none of *)
(* the sequences follows is dropped.                                        *)
Room == Len(esc_message) < MaxEscSeq
Trapped(b) ==
  LET keep(t) == [trap |-> t, message |-> Append(esc_message, b), show |-> <<>>]
      done(t) == [trap |-> t, message |-> <<>>,
                  show |-> <<"ESC">> \o esc_message \o <<b>>]
  IN CASE b = "ESC" ->
            [trap |-> trap \cup {"esc"}, message |-> <<>>, show |-> <<>>]
       [] b # "ESC" /\ Room /\ "esc" \in trap /\ b \in Finals -> done(trap \ {"esc"})
       [] b # "ESC" /\ Room /\ "esc" \in trap /\ b = "[" ->
            keep((trap \ {"esc"}) \cup {"brack"})
       [] OTHER ->
            IF Room /\ "brack" \in trap /\ b \in Params
            THEN keep((trap \ {"brack"}) \cup {"info"})
            ELSE IF Room /\ "brack" \in trap THEN done(trap \ {"brack"})
            ELSE IF Room /\ "info" \in trap /\ b \in Params THEN keep(trap)
            ELSE IF Room /\ "info" \in trap THEN done(trap \ {"info"})
            ELSE IF ~Room
            THEN [trap |-> trap \ {"info"}, message |-> <<>>, show |-> <<>>]
            ELSE [trap |-> trap \ {"esc"}, message |-> esc_message, show |-> <<b>>]

(* The text written on the way looks names up in telcmds[] and telopts[]    *)
(* without a test of the index: an uninitialised command or an option of no *)
(* name may end the client here.                                            *)
ArbCrash ==
  \E b \in Bytes :
    /\ AtByte(b) /\ ForArb(b) /\ arb_state \in {2, 3, 4}
    /\ telnet_cmd = "junk" \/ b \notin Options \cup {"ESC"}
    /\ pc' = "killed"
    /\ UNCHANGED <<ready, ibuf, mode, flagVars, connVars, arbVars, escVars, netVars,
                   keyVars, screenVars, out, clean, nopens>>

TextByte ==
  \E b \in Bytes :
    /\ AtByte(b) /\ ~ForArb(b)
    /\ IF in_snoopymode
       THEN shown' = Append(shown, <<"text", b>>) /\ UNCHANGED escVars
       ELSE /\ trap' = Trapped(b).trap /\ esc_message' = Trapped(b).message
            /\ shown' = shown \o As("text", Trapped(b).show)
    /\ NextByte
    /\ UNCHANGED <<mode, flagVars, connVars, arbVars, netVars, keyVars, notes, told, out,
                   clean, nopens>>

-----------------------------------------------------------------------------
(* Command mode.  getcmd() takes what was typed ahead for the beginning of  *)
(* a command, which main() then does not know.  At the end of the file it   *)
(* finds its buffer as the command before left it: that one comes again, or *)
(* the help text.                                                           *)
Commanded == pc = "command" /\ typed = <<>>

CmdHelp ==
  /\ pc = "command" /\ typed # <<>>
  /\ typed' = <<>>
  /\ UNCHANGED <<pc, ready, ibuf, mode, flagVars, connVars, arbVars, escVars, netVars,
                 eof, nuser, screenVars, out, clean, nopens>>

(* quit, exit: the end of the process closes what is still open. *)
CmdQuit ==
  /\ Commanded /\ ~eof
  /\ pc' = "exited" /\ CloseConnection
  /\ UNCHANGED <<ready, ibuf, mode, flagVars, arbVars, escVars, keyVars, clean, nopens>>

CmdReturn ==
  /\ Commanded /\ connection_opened
  /\ TerminalMode
  /\ UNCHANGED <<displayVars, ctrlc_received, connVars, arbVars, escVars, netVars,
                 keyVars, screenVars, out, clean, nopens>>

CmdOpen == Commanded /\ ~eof /\ ~connection_opened /\ nopens < MaxOpens /\ NewTerminalMode

CmdClose ==
  /\ Commanded /\ connection_opened
  /\ CloseConnection
  /\ neg_active' = FALSE /\ negotiated' = NoOption
  /\ UNCHANGED <<pc, ready, ibuf, mode, flagVars, arb_state, telnet_cmd, escVars,
                 keyVars, clean, nopens>>

CmdCtrlC ==
  /\ Commanded /\ connection_opened /\ UserActs
  /\ \E r \in SendResults :
       /\ remote' = r.remote
       /\ out' = IF r.fate = "sent" THEN Append(out, <<"key", "^C">>) ELSE out
       /\ pc' = IF r.fate = "killed" THEN "killed" ELSE pc
  /\ UNCHANGED <<ready, ibuf, mode, flagVars, connVars, arbVars, escVars, inc, urgent,
                 units, nsent, typed, eof, screenVars, clean, nopens>>

(* snoopy, nosnoopy *)
CmdSnoopy ==
  /\ Commanded /\ ~eof /\ UserActs
  /\ in_snoopymode' = ~in_snoopymode
  /\ clean' = (clean /\ trap = {})
  /\ UNCHANGED <<pc, ready, ibuf, mode, verbose_flag, reinit_sent, dokill_sent,
                 ctrlc_received, connVars, arbVars, escVars, netVars, typed, eof,
                 screenVars, out, nopens>>

(* verbose, noverbose *)
CmdVerbose ==
  /\ Commanded /\ ~eof /\ UserActs
  /\ verbose_flag' = ~verbose_flag
  /\ UNCHANGED <<pc, ready, ibuf, mode, in_snoopymode, reinit_sent, dokill_sent,
                 ctrlc_received, connVars, arbVars, escVars, netVars, typed, eof,
                 screenVars, out, clean, nopens>>

-----------------------------------------------------------------------------
(* The keyboard and the remote end                                          *)

Type(k) ==
  /\ InTerminal /\ ~eof /\ UserActs
  /\ typed' = Append(typed, k)
  /\ UNCHANGED <<pc, ready, ibuf, mode, flagVars, connVars, arbVars, escVars, netVars,
                 eof, screenVars, out, clean, nopens>>

TypeEof ==
  /\ InTerminal /\ ~eof /\ UserActs
  /\ eof' = TRUE
  /\ UNCHANGED <<pc, ready, ibuf, mode, flagVars, connVars, arbVars, escVars, netVars,
                 typed, screenVars, out, clean, nopens>>

SendsMore == nsent < MaxUnits /\ nsent' = nsent + 1

RemoteSends(u) ==
  /\ remote = "open" /\ pc # "killed" /\ SendsMore
  /\ inc' = inc \o u /\ units' = Append(units, u)
  /\ UNCHANGED <<pc, ready, ibuf, mode, flagVars, connVars, arbVars, escVars, remote,
                 urgent, keyVars, screenVars, out, clean, nopens>>

RemoteUrgent ==
  /\ remote = "open" /\ pc # "killed" /\ ~urgent /\ SendsMore
  /\ urgent' = TRUE
  /\ UNCHANGED <<pc, ready, ibuf, mode, flagVars, connVars, arbVars, escVars, inc,
                 remote, units, keyVars, screenVars, out, clean, nopens>>

RemoteCloses ==
  /\ remote = "open" /\ pc # "killed"
  /\ remote' \in {"closed", "reset"}
  /\ UNCHANGED <<pc, ready, ibuf, mode, flagVars, connVars, arbVars, escVars, inc,
                 urgent, units, nsent, keyVars, screenVars, out, clean, nopens>>

-----------------------------------------------------------------------------
StartStep    == StartFails \/ StartCommand \/ StartOpen
TerminalStep == \/ Select \/ SelectTimeout \/ SelectException
                \/ StdinEnds \/ StdinBreak \/ StdinSend
                \/ Recv \/ RecvEnd \/ ArbByte \/ ArbCrash \/ TextByte
CommandStep  == \/ CmdHelp \/ CmdQuit \/ CmdReturn \/ CmdOpen \/ CmdClose
                \/ CmdCtrlC \/ CmdSnoopy \/ CmdVerbose
UserStep     == CtrlC \/ TypeEof \/ \E k \in Keys : Type(k)
RemoteStep   == RemoteUrgent \/ RemoteCloses \/ \E u \in Units : RemoteSends(u)

Next == StartStep \/ TerminalStep \/ CommandStep \/ UserStep \/ RemoteStep

Spec == Init /\ [][Next]_vars

(* In terminal mode the client keeps running.  Nothing is asked of the user *)
(* or of the remote end.                                                    *)
FairSpec == Spec /\ WF_vars(TerminalStep)

-----------------------------------------------------------------------------
(* What the units sent on this connection say, to whoever looks at the      *)
(* units and not at the bytes: the text of the first n units, a byte that   *)
(* has no place in a text in hexadecimal, as what is left of a telnet       *)
(* command of two bytes.                                                    *)
TextOf(u) == IF u[1] \in Low THEN As("text", u)
             ELSE IF Len(u) <= 2 THEN <<<<"hex", u[Len(u)]>>>> ELSE <<>>
SaidTo(us, n) == FlattenSeq([k \in 1 .. n |-> TextOf(us[k])])

(* The notes on the first i bytes of a unit: the first is on the command of *)
(* two bytes, or on the option, and each byte of a subnegotiation has one.  *)
Unnoted(u) == IF Len(u) = 2 THEN 1 ELSE 2
NotesIn(u, shownbefore, i) ==
  IF u[1] = "IAC" THEN [k \in 1 .. i - Unnoted(u) |-> <<shownbefore, u[k + Unnoted(u)]>>]
  ELSE <<>>
NotesOf(us, k) == NotesIn(us[k], Len(SaidTo(us, k - 1)), Len(us[k]))
NotesTo(us, n) == FlattenSeq([k \in 1 .. n |-> NotesOf(us, k)])

AllReceived == connection_opened /\ inc = <<>> /\ ibuf = <<>> /\ pc # "killed"

(* However recv() cuts the stream, and however often the user goes to       *)
(* command mode and back: once all is received, telnet_arb() and the ESCape *)
(* trap wait for a new unit, and the screen shows the text of the units,    *)
(* each byte once and in order.  The negotiation is told in snoopy or       *)
(* verbose mode, every piece of it, once and in its place in the text, and  *)
(* otherwise not at all (lines 8-12, 1112); in whatever mode the two-byte   *)
(* commands leave a byte in hexadecimal, which telnet_arb() hands back      *)
(* (1173-1179).                                                             *)
TextShown ==
  AllReceived /\ clean =>
    /\ arb_state = 0 /\ trap = {}
    /\ shown = SaidTo(units, Len(units))
    /\ told \subseteq {TRUE} => notes = NotesTo(units, Len(units))
    /\ told \subseteq {FALSE} => notes = <<>>

(* The terminal is given back to the user's line editing whenever main()    *)
(* leaves terminal mode, by whichever of its ways out.                      *)
TerminalRestored == pc \in {"command", "exited"} => mode = "cooked"

(* Terminal mode is entered, and re-entered with "return", only with a      *)
(* connection whose descriptor is open: no select(), recv() or send() uses  *)
(* a closed one.                                                            *)
TalksToOpenSocket == InTerminal => connection_opened /\ sock_open

(* What decides between going back to the prompt and exiting when the other *)
(* end closes: the flags say that CTRL-^ or CTRL-K went out on this very    *)
(* connection.                                                              *)
FlagsTell ==
  InTerminal => /\ reinit_sent => Has(out, <<"key", "REINIT">>)
                /\ dokill_sent => Has(out, <<"key", "DOKILL">>)

(* What main() relies on each time it enters, re-enters and leaves terminal *)
(* mode (s_tlnt.c:486-745).                                                 *)
ModesKept == TypeOK /\ TerminalRestored /\ TalksToOpenSocket /\ FlagsTell

(* A client in terminal mode never stays there once the other end has gone. *)
GoneEnds == remote \in {"closed", "reset"} /\ InTerminal ~> ~InTerminal
=============================================================================
