------------------------------ MODULE TlntProofs ------------------------------
(***************************************************************************)
(* What main() of s_tlnt.c relies on between its modes, for any units,     *)
(* keys, buffer sizes and number of connections; and that the screen shows *)
(* what the remote end said, however recv() cuts the stream.               *)
(***************************************************************************)
EXTENDS Tlnt, SequenceTheorems, FiniteSetTheorems, WellFoundedInduction, TLAPS

(* Where main() is, what it has before it, and the terminal's mode. *)
ControlOK ==
  /\ pc \in {"start", "select", "turn", "command", "exited", "killed"}
  /\ ready \subseteq {"stdin", "sock"}
  /\ ibuf \in Seq(Bytes) /\ Len(ibuf) <= SockRead
  /\ ibuf # <<>> => pc = "killed" \/ (pc = "turn" /\ ready = {"sock"})
  /\ mode \in {"cooked", "select"}
  /\ pc \in {"start", "command", "exited"} => mode = "cooked"

BooleansOK ==
  {connection_opened, in_snoopymode, verbose_flag, reinit_sent, dokill_sent,
   ctrlc_received, sock_open, neg_active, urgent, eof, clean} \subseteq BOOLEAN

(* A connection that counts as opened has its descriptor, in command mode   *)
(* too: "return" only looks at the flag.                                    *)
SocketOK ==
  /\ InTerminal => connection_opened
  /\ connection_opened => sock_open

ArbOK ==
  /\ negotiated \in [Options -> -1 .. 1]
  /\ arb_state \in 0 .. 6
  /\ telnet_cmd \in Commands \cup {"junk"}

EscOK ==
  /\ trap \subseteq {"esc", "brack", "info"}
  /\ esc_message \in Seq(Bytes) /\ Len(esc_message) <= MaxEscSeq

NetOK ==
  /\ inc \in Seq(Bytes)
  /\ remote \in {"none", "open", "closed", "reset"}
  /\ typed \in Seq(Keys)
  /\ units \in Seq(Units)
  /\ nuser \in 0 .. MaxUser /\ nsent \in 0 .. MaxUnits /\ nopens \in 0 .. MaxOpens

(* What the client sends: keys, CTRL-C and answers. *)
OutBytes == ({"key"} \X (Keys \cup {"^C"})) \cup ({"WILL", "WONT", "DO"} \X Bytes)

SentOK == out \in Seq(OutBytes) /\ FlagsTell

IInv == /\ ControlOK /\ BooleansOK /\ SocketOK /\ ArbOK /\ EscOK /\ NetOK /\ SentOK

(* The invariant says what ModesKept does: the terminal is restored when it *)
(* should be, what is typed goes to an open socket, and the flags tell what *)
(* has been sent.                                                           *)
THEOREM IInvImplies == IInv => ModesKept
<1> SUFFICES ASSUME IInv PROVE ModesKept
  OBVIOUS
<1>1. TypeOK
  BY DEF IInv, ControlOK, BooleansOK, ArbOK, EscOK, NetOK, TypeOK
<1>2. TerminalRestored /\ TalksToOpenSocket /\ FlagsTell
  BY DEF IInv, ControlOK, SocketOK, SentOK, TerminalRestored, TalksToOpenSocket
<1>3. QED
  BY <1>1, <1>2 DEF ModesKept

-----------------------------------------------------------------------------
(* The constants. *)
LEMMA Sizes ==
  /\ MaxEscSeq \in Nat /\ MaxEscSeq > 0 /\ KeyRead \in Nat /\ KeyRead > 0
  /\ SockRead \in Nat /\ SockRead > 0
  /\ MaxUnits \in Nat /\ MaxUser \in Nat /\ MaxOpens \in Nat
  /\ Units \subseteq Seq(Bytes) /\ Snoopy \subseteq BOOLEAN /\ Verbose \subseteq BOOLEAN
BY ConstantsAssumption

(* The empty sequence. *)
LEMMA NoBytes ==
  /\ \A S : <<>> \in Seq(S)
  /\ Len(<<>>) = 0
BY EmptySeq

USE DEF displayVars, screenVars, NoScreen, flagVars, connVars, arbVars, escVars, netVars, keyVars, InTerminal

(* At the start there is no connection and nothing has been read. *)
THEOREM InitIInv == Init => IInv
<1> SUFFICES ASSUME Init PROVE IInv
  OBVIOUS
<1>1. ControlOK
  <2>1. pc = "start" /\ ready = {} /\ ibuf = <<>> /\ mode = "cooked"
    BY DEF Init
  <2>2. QED
    BY <2>1, NoBytes, Sizes DEF ControlOK
<1>2. BooleansOK
  <2>1. /\ connection_opened = FALSE /\ sock_open = FALSE /\ in_snoopymode \in BOOLEAN
        /\ verbose_flag \in BOOLEAN
        /\ reinit_sent = FALSE /\ dokill_sent = FALSE /\ ctrlc_received = FALSE
        /\ neg_active = FALSE /\ urgent = FALSE /\ eof = FALSE /\ clean = TRUE
    BY Sizes DEF Init
  <2>2. QED
    BY <2>1 DEF BooleansOK
<1>3. SocketOK
  BY DEF Init, SocketOK
<1>4. ArbOK
  BY DEF Init, ArbOK, NoOption
<1>5. EscOK
  <2>1. trap = {} /\ esc_message = <<>>
    BY DEF Init
  <2>2. QED
    BY <2>1, NoBytes, Sizes DEF EscOK
<1>6. NetOK
  <2>1. inc = <<>> /\ remote = "none" /\ typed = <<>> /\ units = <<>>
    BY DEF Init
  <2>2. nuser = 0 /\ nsent = 0 /\ nopens = 0
    BY DEF Init
  <2>3. nuser \in 0 .. MaxUser /\ nsent \in 0 .. MaxUnits /\ nopens \in 0 .. MaxOpens
    BY <2>2, Sizes
  <2>4. QED
    BY <2>1, <2>3, NoBytes DEF NetOK
<1>7. SentOK
  <2>1. out = <<>> /\ pc = "start"
    BY DEF Init
  <2>2. QED
    BY <2>1, NoBytes DEF SentOK, FlagsTell
<1>8. QED
  BY <1>1, <1>2, <1>3, <1>4, <1>5, <1>6, <1>7 DEF IInv

-----------------------------------------------------------------------------
(* The two parts of a sequence that is cut. *)
LEMMA FirstAfter ==
  ASSUME NEW S, NEW s \in Seq(S), NEW n \in Nat
  PROVE  /\ First(s, n) \in Seq(S) /\ Len(First(s, n)) <= n
         /\ After(s, n) \in Seq(S)
<1>1. \A i \in 1 .. Len(s) : s[i] \in S
  BY ElementOfSeq
<1>2. Len(s) \in Nat
  BY LenProperties
<1>3. First(s, n) \in Seq(S) /\ Len(First(s, n)) <= n
  <2> DEFINE at == IF Len(s) < n THEN Len(s) ELSE n
  <2>1. at \in Nat /\ at <= n /\ at <= Len(s)
    BY <1>2
  <2> HIDE DEF at
  <2>2. SubSeq(s, 1, at) \in Seq(S) /\ Len(SubSeq(s, 1, at)) = at
    BY <1>1, <1>2, <2>1, SubSeqProperties
  <2>3. QED
    BY <2>1, <2>2 DEF First, at
<1>4. After(s, n) \in Seq(S)
  <2>1. \A i \in n + 1 .. Len(s) : s[i] \in S
    BY <1>1
  <2>2. QED
    BY <1>2, <2>1, SubSeqProperties DEF After
<1>5. QED
  BY <1>3, <1>4

(* The loop over ibuf goes on, or back to select(). *)
LEMMA NextByteControl ==
  ASSUME ControlOK, NextByte, ibuf # <<>>, pc = "turn", ready = {"sock"}, mode' = mode
  PROVE  ControlOK'
<1>1. /\ ibuf' = Tail(ibuf) /\ Tail(ibuf) \in Seq(Bytes) /\ Len(Tail(ibuf)) = Len(ibuf) - 1
      /\ Len(ibuf) \in Nat /\ Len(ibuf) <= SockRead
  BY HeadTailProperties, LenProperties DEF NextByte, ControlOK
<1>2. Len(ibuf') <= SockRead
  BY <1>1, Sizes
<1>3. CASE Len(ibuf) = 1
  <2>1. ibuf' = <<>>
    BY <1>1, <1>3, EmptySeq
  <2>2. QED
    BY <1>1, <1>2, <1>3, <2>1 DEF NextByte, ControlOK
<1>4. CASE Len(ibuf) # 1
  BY <1>1, <1>2, <1>4 DEF NextByte, ControlOK
<1>5. QED
  BY <1>3, <1>4

-----------------------------------------------------------------------------
(* Every way out of terminal mode gives the terminal back, and no step has  *)
(* bytes in ibuf but where the loop over them stands.                       *)
LEMMA NextControl ==
  ASSUME ControlOK, NetOK, [Next]_vars PROVE ControlOK'
<1>e. <<>> \in Seq(Bytes) /\ Len(<<>>) <= SockRead
  BY NoBytes, Sizes
<1>1. CASE UNCHANGED <<pc, ready, ibuf, mode>>
  BY <1>1 DEF ControlOK
<1>2. CASE pc' = "killed" /\ UNCHANGED <<ready, ibuf, mode>>
  BY <1>2 DEF ControlOK
<1>3. CASE CommandMode \/ TerminalMode
  BY <1>e, <1>3 DEF CommandMode, EchoNoraw, TerminalMode, ControlOK
<1>4. CASE StartStep
  <2>1. CASE StartFails
    BY <2>1 DEF StartFails, ControlOK
  <2>2. QED
    BY <1>3, <1>4, <2>1 DEF StartStep, StartCommand, StartOpen, NewTerminalMode
<1>5. CASE Select
  <2>1. SelectReady \subseteq {"stdin", "sock"}
    BY DEF SelectReady
  <2>2. QED
    BY <1>5, <2>1 DEF Select, ControlOK
<1>6. CASE SelectTimeout \/ SelectException \/ StdinEnds \/ StdinBreak
  BY <1>3, <1>6 DEF SelectTimeout, SelectException, StdinEnds, StdinBreak
<1>7. CASE StdinSend
  <2>1. \/ CommandMode
        \/ pc' = "killed" /\ UNCHANGED <<ready, ibuf, mode>>
        \/ /\ pc = "turn" /\ "stdin" \in ready /\ ready' = ready \ {"stdin"}
           /\ pc' = IF ready = {"stdin"} THEN "select" ELSE pc
           /\ UNCHANGED <<ibuf, mode>>
    BY <1>7 DEF StdinSend
  <2>2. QED
    BY <1>2, <1>3, <2>1 DEF ControlOK
<1>8. CASE Recv
  <2>1. PICK n \in 1 .. Len(inc) : n <= SockRead /\ ibuf' = First(inc, n)
    BY <1>8 DEF Recv
  <2>2. inc \in Seq(Bytes) /\ Len(inc) \in Nat /\ n \in Nat
    BY LenProperties DEF NetOK
  <2>3. ibuf' \in Seq(Bytes) /\ Len(ibuf') <= n /\ Len(ibuf') \in Nat
    BY <2>1, <2>2, FirstAfter, LenProperties
  <2>4. Len(ibuf') <= SockRead
    BY <2>1, <2>2, <2>3, Sizes
  <2>5. QED
    BY <1>8, <2>3, <2>4 DEF Recv, ControlOK
<1>9. CASE RecvEnd
  BY <1>3, <1>9 DEF RecvEnd, EchoNoraw, ControlOK
<1>10. CASE ArbByte \/ TextByte
  <2>1. /\ ibuf # <<>> /\ pc = "turn" /\ ready = {"sock"} /\ mode' = mode
        /\ \/ NextByte
           \/ pc' = "killed" /\ UNCHANGED <<ready, ibuf>>
    BY <1>10 DEF ArbByte, TextByte, AtByte
  <2>2. QED
    BY <1>2, <2>1, NextByteControl
<1>11. CASE ArbCrash
  BY <1>2, <1>11 DEF ArbCrash
<1>12. CASE CommandStep
  <2>1. \/ UNCHANGED <<pc, ready, ibuf, mode>>
        \/ pc' = "killed" /\ UNCHANGED <<ready, ibuf, mode>>
        \/ TerminalMode
        \/ pc = "command" /\ pc' = "exited" /\ UNCHANGED <<ready, ibuf, mode>>
    BY <1>12 DEF CommandStep, CmdHelp, CmdQuit, CmdReturn, CmdOpen, CmdClose, CmdCtrlC,
                 CmdSnoopy, CmdVerbose, NewTerminalMode, Commanded
  <2>2. QED
    BY <1>1, <1>2, <1>3, <2>1 DEF ControlOK
<1>13. CASE UserStep
  <2>1. \/ UNCHANGED <<pc, ready, ibuf, mode>>
        \/ pc' = "killed" /\ UNCHANGED <<ready, ibuf, mode>>
    BY <1>13 DEF UserStep, CtrlC, TypeEof, Type
  <2>2. QED
    BY <1>1, <1>2, <2>1
<1>14. CASE RemoteStep \/ UNCHANGED vars
  BY <1>1, <1>14 DEF RemoteStep, RemoteUrgent, RemoteCloses, RemoteSends, vars
<1>15. QED
  BY <1>4, <1>5, <1>6, <1>7, <1>8, <1>9, <1>10, <1>11, <1>12, <1>13, <1>14
  DEF Next, TerminalStep

(* Terminal mode begins only with an open connection, and the descriptor    *)
(* and its flag are given up together, or the descriptor after the flag.    *)
LEMMA NextSocket ==
  ASSUME SocketOK, [Next]_vars PROVE SocketOK'
<1>1. CASE UNCHANGED connVars /\ (InTerminal' => InTerminal)
  BY <1>1 DEF SocketOK
<1>2. CASE connection_opened' = FALSE /\ pc' \in {"command", "exited"}
  BY <1>2 DEF SocketOK
<1>3. CASE StartStep
  BY <1>1, <1>3 DEF StartStep, StartFails, StartCommand, StartOpen, NewTerminalMode,
                    CommandMode, SocketOK
<1>4. CASE Select \/ StdinBreak \/ Recv \/ ArbCrash
  BY <1>1, <1>4 DEF Select, StdinBreak, CommandMode, Recv, ArbCrash
<1>5. CASE SelectTimeout \/ SelectException \/ StdinEnds \/ RecvEnd
  BY <1>2, <1>5 DEF SelectTimeout, SelectException, StdinEnds, RecvEnd, CloseConnection,
                    CommandMode
<1>6. CASE StdinSend
  BY <1>1, <1>2, <1>6 DEF StdinSend, CloseConnection, CommandMode
<1>7. CASE ArbByte \/ TextByte
  <2>1. UNCHANGED connVars /\ InTerminal
    BY <1>7 DEF ArbByte, TextByte, AtByte
  <2>2. QED
    BY <1>1, <2>1
<1>8. CASE CommandStep
  <2>1. \/ UNCHANGED connVars /\ (InTerminal' => InTerminal)
        \/ UNCHANGED connVars /\ connection_opened
        \/ connection_opened' = FALSE /\ pc' \in {"command", "exited"}
        \/ connection_opened' = TRUE /\ sock_open' = TRUE
    BY <1>8 DEF CommandStep, CmdHelp, CmdQuit, CmdReturn, CmdOpen, CmdClose, CmdCtrlC,
                CmdSnoopy, CmdVerbose, NewTerminalMode, CloseConnection, Commanded
  <2>2. QED
    BY <2>1 DEF SocketOK
<1>9. CASE UserStep \/ RemoteStep \/ UNCHANGED vars
  BY <1>1, <1>9 DEF UserStep, CtrlC, TypeEof, Type, RemoteStep, RemoteUrgent,
                    RemoteCloses, RemoteSends, vars
<1>10. QED
  BY <1>3, <1>4, <1>5, <1>6, <1>7, <1>8, <1>9 DEF Next, TerminalStep

(* The flags stay flags. *)
LEMMA NextBooleans ==
  ASSUME BooleansOK, [Next]_vars PROVE BooleansOK'
<1> DEFINE Flags == <<connection_opened, displayVars, reinit_sent, dokill_sent,
                      ctrlc_received, sock_open, neg_active, urgent, eof, clean>>
<1>0. /\ connection_opened \in BOOLEAN /\ in_snoopymode \in BOOLEAN
      /\ verbose_flag \in BOOLEAN
      /\ reinit_sent \in BOOLEAN /\ dokill_sent \in BOOLEAN
      /\ ctrlc_received \in BOOLEAN /\ sock_open \in BOOLEAN
      /\ neg_active \in BOOLEAN /\ urgent \in BOOLEAN
      /\ eof \in BOOLEAN /\ clean \in BOOLEAN
  BY DEF BooleansOK
<1>1. SUFFICES /\ connection_opened' \in BOOLEAN /\ in_snoopymode' \in BOOLEAN
               /\ verbose_flag' \in BOOLEAN
               /\ reinit_sent' \in BOOLEAN /\ dokill_sent' \in BOOLEAN
               /\ ctrlc_received' \in BOOLEAN /\ sock_open' \in BOOLEAN
               /\ neg_active' \in BOOLEAN /\ urgent' \in BOOLEAN
               /\ eof' \in BOOLEAN /\ clean' \in BOOLEAN
  BY DEF BooleansOK
<1>2. CASE UNCHANGED Flags
  BY <1>0, <1>2
<1>3. CASE NewTerminalMode
  BY <1>0, <1>3, Zenon DEF NewTerminalMode, TerminalMode, ResetSent
<1>4. CASE StartStep
  BY <1>2, <1>3, <1>4 DEF StartStep, StartFails, StartCommand, StartOpen
<1>5. CASE Select \/ Recv \/ ArbCrash \/ TextByte
  BY <1>2, <1>5 DEF Select, Recv, ArbCrash, TextByte
<1>6. CASE SelectTimeout \/ SelectException \/ StdinEnds
  <2>1. CloseConnection /\ UNCHANGED <<flagVars, arbVars, keyVars, clean>>
    BY <1>6 DEF SelectTimeout, SelectException, StdinEnds
  <2>2. QED
    BY <1>0, <2>1, Zenon DEF CloseConnection, Forget
<1>7. CASE StdinBreak
  BY <1>0, <1>7, Zenon DEF StdinBreak
<1>8. CASE StdinSend
  <2>1. /\ reinit_sent' \in BOOLEAN /\ dokill_sent' \in BOOLEAN
        /\ UNCHANGED <<displayVars, ctrlc_received, arbVars, eof, clean>>
        /\ \/ UNCHANGED <<connVars, urgent>>
           \/ CloseConnection
    BY <1>8, Zenon DEF StdinSend
  <2>2. QED
    BY <1>0, <2>1, Zenon DEF CloseConnection, Forget
<1>9. CASE RecvEnd
  BY <1>0, <1>9, Zenon DEF RecvEnd, Forget
<1>10. CASE ArbByte
  BY <1>0, <1>10, Zenon DEF ArbByte
<1>11. CASE CommandStep
  <2>1. CASE CmdHelp \/ CmdCtrlC
    BY <1>2, <2>1 DEF CmdHelp, CmdCtrlC
  <2>2. CASE CmdQuit
    BY <1>0, <2>2, Zenon DEF CmdQuit, CloseConnection, Forget
  <2>3. CASE CmdReturn
    BY <1>0, <2>3, Zenon DEF CmdReturn, TerminalMode, ResetSent
  <2>4. CASE CmdOpen
    BY <1>3, <2>4 DEF CmdOpen
  <2>5. CASE CmdClose
    BY <1>0, <2>5, Zenon DEF CmdClose, CloseConnection, Forget
  <2>6. CASE CmdSnoopy \/ CmdVerbose
    BY <1>0, <2>6, Zenon DEF CmdSnoopy, CmdVerbose
  <2>7. QED
    BY <1>11, <2>1, <2>2, <2>3, <2>4, <2>5, <2>6 DEF CommandStep
<1>12. CASE UserStep
  <2>1. CASE CtrlC
    BY <1>0, <2>1, Zenon DEF CtrlC
  <2>2. CASE TypeEof
    BY <1>0, <2>2, Zenon DEF TypeEof
  <2>3. CASE \E key \in Keys : Type(key)
    BY <1>2, <2>3, Zenon DEF Type
  <2>4. QED
    BY <1>12, <2>1, <2>2, <2>3 DEF UserStep
<1>13. CASE RemoteStep
  <2>1. CASE RemoteUrgent
    BY <1>0, <2>1, Zenon DEF RemoteUrgent
  <2>2. QED
    BY <1>2, <1>13, <2>1 DEF RemoteStep, RemoteCloses, RemoteSends
<1>14. CASE UNCHANGED vars
  BY <1>2, <1>14 DEF vars
<1>15. QED
  BY <1>4, <1>5, <1>6, <1>7, <1>8, <1>9, <1>10, <1>11, <1>12, <1>13, <1>14
  DEF Next, TerminalStep

(* telnet_arb() stays in its states, and notes only options it has a place  *)
(* for.                                                                     *)
LEMMA NextArbOK ==
  ASSUME ArbOK, [Next]_vars PROVE ArbOK'
<1>1. CASE UNCHANGED <<negotiated, arb_state, telnet_cmd>>
  BY <1>1 DEF ArbOK
<1>2. CASE negotiated' = NoOption /\ UNCHANGED <<arb_state, telnet_cmd>>
  BY <1>2 DEF ArbOK, NoOption
<1>3. CASE ArbByte
  <2>1. PICK b \in Bytes :
          /\ arb_state' = NextArb(b)
          /\ telnet_cmd' = IF arb_state' = 0 THEN "junk"
                           ELSE IF arb_state = 1 THEN b ELSE telnet_cmd
          /\ \/ \E cmd \in ReadCmd : negotiated' = Noted(negotiated, cmd, b)
             \/ negotiated' = negotiated
    BY <1>3, Zenon DEF ArbByte
  <2>2. arb_state' \in 0 .. 6 /\ (arb_state = 1 /\ arb_state' # 0 => b \in Commands)
    BY <2>1 DEF ArbOK, NextArb, Commands
  <2>3. negotiated' \in [Options -> -1 .. 1]
    BY <2>1 DEF ArbOK, Noted
  <2>4. QED
    BY <2>1, <2>2, <2>3 DEF ArbOK
<1>4. CASE StartStep
  BY <1>1, <1>2, <1>4 DEF StartStep, StartFails, StartCommand, StartOpen, NewTerminalMode
<1>5. CASE Recv
  BY <1>5 DEF Recv, ArbOK
<1>6. CASE TerminalStep /\ ~ArbByte /\ ~Recv
  <2>1. \/ Select \/ SelectTimeout \/ SelectException \/ StdinEnds \/ StdinBreak
        \/ StdinSend \/ RecvEnd \/ ArbCrash \/ TextByte
    BY <1>6 DEF TerminalStep
  <2>2. QED
    BY <1>1, <2>1, Zenon DEF Select, SelectTimeout, SelectException, StdinEnds,
       StdinBreak, StdinSend, RecvEnd, ArbCrash, TextByte
<1>7. CASE CommandStep
  BY <1>1, <1>2, <1>7 DEF CommandStep, CmdHelp, CmdQuit, CmdReturn, CmdOpen, CmdClose,
     CmdCtrlC, CmdSnoopy, CmdVerbose, NewTerminalMode
<1>8. CASE UserStep \/ RemoteStep \/ UNCHANGED vars
  BY <1>1, <1>8 DEF UserStep, CtrlC, TypeEof, Type, RemoteStep, RemoteUrgent,
                    RemoteCloses, RemoteSends, vars
<1>9. QED
  BY <1>3, <1>4, <1>5, <1>6, <1>7, <1>8 DEF Next

(* The ESCape trap keeps no more than fits esc_message.  *)
LEMMA TrappedFits ==
  ASSUME EscOK, NEW b \in Bytes
  PROVE  /\ Trapped(b).trap \subseteq {"esc", "brack", "info"}
         /\ Trapped(b).message \in Seq(Bytes) /\ Len(Trapped(b).message) <= MaxEscSeq
<1>1. /\ Append(esc_message, b) \in Seq(Bytes)
      /\ Len(Append(esc_message, b)) = Len(esc_message) + 1
      /\ Len(esc_message) \in Nat
  BY AppendProperties, LenProperties DEF EscOK
<1>2. Room => Len(Append(esc_message, b)) <= MaxEscSeq
  BY <1>1, Sizes DEF Room
<1>3. <<>> \in Seq(Bytes) /\ Len(<<>>) <= MaxEscSeq
  BY NoBytes, Sizes
<1>4. /\ Trapped(b).trap \in {trap \cup {"esc"}, trap \ {"esc"}, (trap \ {"esc"}) \cup {"brack"},
                              (trap \ {"brack"}) \cup {"info"}, trap \ {"brack"}, trap,
                              trap \ {"info"}}
      /\ \/ Trapped(b).message = <<>>
         \/ Trapped(b).message = esc_message
         \/ Room /\ Trapped(b).message = Append(esc_message, b)
  BY DEF Trapped
<1>5. QED
  BY <1>1, <1>2, <1>3, <1>4 DEF EscOK

(* Every step keeps the escape sequence within its buffer. *)
LEMMA NextEsc ==
  ASSUME EscOK, [Next]_vars PROVE EscOK'
<1>1. CASE UNCHANGED escVars
  BY <1>1 DEF EscOK
<1>2. CASE TextByte
  <2>1. PICK b \in Bytes : \/ UNCHANGED escVars
                           \/ trap' = Trapped(b).trap /\ esc_message' = Trapped(b).message
    BY <1>2 DEF TextByte
  <2>2. QED
    BY <1>1, <2>1, TrappedFits DEF EscOK
<1>3. CASE StartStep
  BY <1>1, <1>3 DEF StartStep, StartFails, StartCommand, StartOpen, NewTerminalMode
<1>4. CASE TerminalStep /\ ~TextByte
  <2>1. \/ Select \/ SelectTimeout \/ SelectException \/ StdinEnds \/ StdinBreak
        \/ StdinSend \/ Recv \/ RecvEnd \/ ArbByte \/ ArbCrash
    BY <1>4 DEF TerminalStep
  <2>2. QED
    BY <1>1, <2>1, Zenon DEF Select, SelectTimeout, SelectException, StdinEnds,
       StdinBreak, StdinSend, Recv, RecvEnd, ArbByte, ArbCrash
<1>5. CASE CommandStep
  BY <1>1, <1>5 DEF CommandStep, CmdHelp, CmdQuit, CmdReturn, CmdOpen, CmdClose,
     CmdCtrlC, CmdSnoopy, CmdVerbose, NewTerminalMode
<1>6. CASE UserStep \/ RemoteStep \/ UNCHANGED vars
  BY <1>1, <1>6 DEF UserStep, CtrlC, TypeEof, Type, RemoteStep, RemoteUrgent,
                    RemoteCloses, RemoteSends, vars
<1>7. QED
  BY <1>2, <1>3, <1>4, <1>5, <1>6 DEF Next

(* What is on its way, and the bounds. *)
LEMMA NextNet ==
  ASSUME NetOK, [Next]_vars PROVE NetOK'
<1>e. \A S : <<>> \in Seq(S)
  BY NoBytes
<1>1. CASE UNCHANGED <<inc, remote, typed, units, nuser, nsent, nopens>>
  BY <1>1 DEF NetOK
<1>2. CASE NewTerminalMode /\ nopens < MaxOpens
  <2>1. nopens' \in 0 .. MaxOpens
    BY <1>2, Sizes DEF NewTerminalMode, NetOK
  <2>2. inc' = <<>> /\ remote' = "open" /\ units' = <<>> /\ UNCHANGED <<typed, nuser, nsent>>
    BY <1>2 DEF NewTerminalMode
  <2>3. QED
    BY <1>e, <2>1, <2>2 DEF NetOK
<1>3. CASE Forget /\ UNCHANGED <<typed, nuser, nopens>>
  BY <1>e, <1>3 DEF Forget, NetOK
<1>4. CASE StartStep
  BY <1>1, <1>2, <1>4 DEF StartStep, StartFails, StartCommand, StartOpen
<1>5. CASE Select \/ ArbCrash \/ TextByte
  BY <1>1, <1>5 DEF Select, ArbCrash, TextByte
<1>6. CASE SelectTimeout \/ SelectException \/ StdinEnds \/ RecvEnd \/ CmdQuit \/ CmdClose
  BY <1>3, <1>6 DEF SelectTimeout, SelectException, StdinEnds, RecvEnd, CmdQuit, CmdClose,
     CloseConnection
<1>7. CASE StdinBreak \/ StdinSend
  <2>1. typed' = After(typed, KeyRead)
    BY <1>7, Zenon DEF StdinBreak, StdinSend
  <2>2. typed' \in Seq(Keys)
    BY <2>1, FirstAfter, Sizes DEF NetOK
  <2>3. /\ nuser' = nuser /\ nopens' = nopens
        /\ \/ UNCHANGED netVars
           \/ Forget
           \/ \E r \in SendResults : remote' = r.remote /\ UNCHANGED <<inc, units, nsent>>
    BY <1>7, Zenon DEF StdinBreak, StdinSend, CloseConnection
  <2>4. \A r \in SendResults : r.remote \in {"open", "closed", "reset"}
    BY DEF SendResults
  <2>5. QED
    BY <1>e, <2>2, <2>3, <2>4 DEF NetOK, Forget
<1>8. CASE Recv
  <2>1. PICK n \in 1 .. Len(inc) : inc' = After(inc, n)
    BY <1>8 DEF Recv
  <2>2. inc' \in Seq(Bytes)
    BY <2>1, FirstAfter, LenProperties DEF NetOK
  <2>3. QED
    BY <1>8, <2>2 DEF Recv, NetOK
<1>9. CASE ArbByte \/ CtrlC \/ CmdCtrlC
  <2>1. remote' = remote \/ \E r \in SendResults : remote' = r.remote
    BY <1>9, Zenon DEF ArbByte, CtrlC, CmdCtrlC
  <2>2. remote' \in {"none", "open", "closed", "reset"}
    BY <2>1 DEF SendResults, NetOK
  <2>3. /\ UNCHANGED <<inc, typed, units, nsent, nopens>>
        /\ nuser' = nuser \/ UserActs
    BY <1>9, Zenon DEF ArbByte, CtrlC, CmdCtrlC
  <2>4. nuser' \in 0 .. MaxUser
    BY <2>3, Sizes DEF UserActs, NetOK
  <2>5. QED
    BY <2>2, <2>3, <2>4 DEF NetOK
<1>10. CASE CmdHelp
  BY <1>e, <1>10 DEF CmdHelp, NetOK
<1>11. CASE CmdReturn \/ CmdOpen
  BY <1>1, <1>2, <1>11 DEF CmdReturn, CmdOpen
<1>12. CASE CmdSnoopy \/ CmdVerbose \/ TypeEof \/ \E key \in Keys : Type(key)
  <2>1. /\ UserActs /\ UNCHANGED <<inc, remote, units, nsent, nopens>>
        /\ typed' = typed \/ \E key \in Keys : typed' = Append(typed, key)
    BY <1>12, Zenon DEF CmdSnoopy, CmdVerbose, TypeEof, Type
  <2>2. typed' \in Seq(Keys)
    <3>1. typed \in Seq(Keys)
      BY DEF NetOK
    <3>2. QED
      BY <2>1, <3>1, AppendProperties
  <2>3. nuser' \in 0 .. MaxUser
    BY <2>1, Sizes DEF UserActs, NetOK
  <2>4. QED
    BY <2>1, <2>2, <2>3 DEF NetOK
<1>13. CASE RemoteStep
  <2>1. CASE RemoteUrgent
    <3>1. nsent' \in 0 .. MaxUnits
      BY <2>1, Sizes DEF RemoteUrgent, SendsMore, NetOK
    <3>2. QED
      BY <2>1, <3>1 DEF RemoteUrgent, NetOK
  <2>2. CASE RemoteCloses
    BY <2>2 DEF RemoteCloses, NetOK
  <2>3. CASE \E u \in Units : RemoteSends(u)
    <3>1. PICK u \in Units : /\ inc' = inc \o u /\ units' = Append(units, u) /\ SendsMore
                             /\ UNCHANGED <<remote, keyVars, nopens>>
      BY <2>3 DEF RemoteSends
    <3>2. inc' \in Seq(Bytes) /\ units' \in Seq(Units)
      <4>1. u \in Seq(Bytes) /\ inc \in Seq(Bytes) /\ units \in Seq(Units)
        BY Sizes DEF NetOK
      <4>2. QED
        BY <3>1, <4>1, ConcatProperties, AppendProperties
    <3>3. nsent' \in 0 .. MaxUnits
      BY <3>1, Sizes DEF SendsMore, NetOK
    <3>4. QED
      BY <3>1, <3>2, <3>3 DEF NetOK
  <2>4. QED
    BY <1>13, <2>1, <2>2, <2>3 DEF RemoteStep
<1>14. CASE UNCHANGED vars
  BY <1>1, <1>14 DEF vars
<1>15. QED
  BY <1>4, <1>5, <1>6, <1>7, <1>8, <1>9, <1>10, <1>11, <1>12, <1>13, <1>14
  DEF Next, TerminalStep, CommandStep, UserStep

-----------------------------------------------------------------------------
(* What has been sent stays sent. *)
LEMMA HasGrows ==
  ASSUME NEW S, NEW s \in Seq(S), NEW t \in Seq(S), NEW b, Has(s, b) \/ Has(t, b)
  PROVE  Has(s \o t, b)
<1>1. /\ Len(s) \in Nat /\ Len(t) \in Nat /\ Len(s \o t) = Len(s) + Len(t)
      /\ \A i \in 1 .. Len(s) + Len(t) :
           (s \o t)[i] = IF i <= Len(s) THEN s[i] ELSE t[i - Len(s)]
  BY ConcatProperties, LenProperties
<1>2. CASE Has(s, b)
  <2>1. PICK at \in 1 .. Len(s) : s[at] = b
    BY <1>2 DEF Has
  <2>2. at \in 1 .. Len(s) + Len(t) /\ at <= Len(s)
    BY <1>1
  <2>3. QED
    BY <1>1, <2>1, <2>2 DEF Has
<1>3. CASE Has(t, b)
  <2>1. PICK at \in 1 .. Len(t) : t[at] = b
    BY <1>3 DEF Has
  <2>2. /\ Len(s) + at \in 1 .. Len(s) + Len(t) /\ ~(Len(s) + at <= Len(s))
        /\ (Len(s) + at) - Len(s) = at
    BY <1>1
  <2>3. (s \o t)[Len(s) + at] = b
    BY <1>1, <2>1, <2>2
  <2>4. QED
    BY <1>1, <2>2, <2>3 DEF Has
<1>4. QED
  BY <1>2, <1>3

(* The keys of one read, as they are sent. *)
LEMMA KeysSent ==
  ASSUME NEW q \in Seq(Keys)
  PROVE  /\ As("key", q) \in Seq(OutBytes)
         /\ \A key : Has(q, key) => Has(As("key", q), <<"key", key>>)
<1>1. Len(q) \in Nat /\ \A i \in 1 .. Len(q) : q[i] \in Keys
  BY ElementOfSeq, LenProperties
<1>2. As("key", q) \in [1 .. Len(q) -> OutBytes]
  BY <1>1 DEF As, OutBytes
<1>3. As("key", q) \in Seq(OutBytes)
  BY <1>1, <1>2, SeqDef
<1>4. Len(As("key", q)) = Len(q)
  BY <1>1, <1>2, <1>3, LenProperties DEF As
<1>5. QED
  BY <1>3, <1>4 DEF Has, As

(* A reply to an option is a sequence of bytes. *)
LEMMA RepliesAreBytes ==
  ASSUME NEW neg, NEW cmd, NEW b \in Bytes
  PROVE  Reply(neg, cmd, b) \in Seq(OutBytes)
<1>1. \A w \in {"WILL", "WONT", "DO"} : <<w, b>> \in OutBytes
  BY DEF OutBytes
<1>2. Reply(neg, cmd, b) = <<>> \/ \E w \in {"WILL", "WONT", "DO"} :
                                     Reply(neg, cmd, b) = <<<<w, b>>>>
  BY DEF Reply
<1>3. ASSUME NEW x \in OutBytes PROVE <<x>> \in Seq(OutBytes)
  OBVIOUS
<1>4. QED
  BY <1>1, <1>2, <1>3, NoBytes

(* More is sent, by the same connection, and nothing is noted as sent. *)
LEMMA SendsMoreOut ==
  ASSUME SentOK, NEW more \in Seq(OutBytes), out' = out \/ out' = out \o more,
         UNCHANGED <<reinit_sent, dokill_sent>>, InTerminal' => InTerminal
  PROVE  SentOK'
<1>1. out \in Seq(OutBytes) /\ out' \in Seq(OutBytes)
  BY ConcatProperties DEF SentOK
<1>2. \A b : Has(out, b) => Has(out', b)
  BY <1>1, HasGrows
<1>3. InTerminal => /\ reinit_sent => Has(out, <<"key", "REINIT">>)
                    /\ dokill_sent => Has(out, <<"key", "DOKILL">>)
  BY DEF SentOK, FlagsTell
<1>4. InTerminal' => /\ reinit_sent' => Has(out', <<"key", "REINIT">>)
                     /\ dokill_sent' => Has(out', <<"key", "DOKILL">>)
  BY <1>2, <1>3
<1>5. QED
  BY <1>1, <1>4 DEF SentOK, FlagsTell

(* The flags are set with the keys that are sent, and forgotten with the    *)
(* connection.                                                              *)
LEMMA NextSent ==
  ASSUME SentOK, NetOK, [Next]_vars PROVE SentOK'
<1>0. out \in Seq(OutBytes) /\ <<>> \in Seq(OutBytes)
  BY NoBytes DEF SentOK
<1>1. CASE UNCHANGED <<out, reinit_sent, dokill_sent>> /\ (InTerminal' => InTerminal)
  BY <1>0, <1>1, SendsMoreOut
<1>2. CASE ~InTerminal' /\ out' \in {out, <<>>}
  BY <1>0, <1>2 DEF SentOK, FlagsTell
<1>3. CASE TerminalMode /\ out' \in {out, <<>>}
  BY <1>0, <1>3 DEF TerminalMode, ResetSent, SentOK, FlagsTell
<1>4. CASE StartStep
  BY <1>1, <1>3, <1>4 DEF StartStep, StartFails, StartCommand, StartOpen, NewTerminalMode,
                          CommandMode
<1>5. CASE Select \/ Recv \/ ArbCrash
  BY <1>1, <1>5 DEF Select, Recv, ArbCrash
<1>6. CASE SelectTimeout \/ SelectException \/ StdinEnds \/ StdinBreak \/ RecvEnd
  BY <1>2, <1>6, Zenon DEF SelectTimeout, SelectException, StdinEnds, StdinBreak, RecvEnd,
     CommandMode, CloseConnection, Forget
<1>7. CASE StdinSend
  <2> DEFINE pbuf == First(typed, KeyRead)
  <2>1. pbuf \in Seq(Keys) /\ As("key", pbuf) \in Seq(OutBytes)
    BY FirstAfter, KeysSent, Sizes DEF NetOK
  <2>2. /\ reinit_sent' = (reinit_sent \/ Has(pbuf, "REINIT"))
        /\ dokill_sent' = (dokill_sent \/ Has(pbuf, "DOKILL"))
        /\ \/ InTerminal /\ out' = out \o As("key", pbuf)
           \/ ~InTerminal' /\ out' \in {out, <<>>}
    BY <1>7, Zenon DEF StdinSend, CommandMode, CloseConnection, Forget
  <2>3. CASE InTerminal /\ out' = out \o As("key", pbuf)
    <3>1. out' \in Seq(OutBytes)
      BY <1>0, <2>1, <2>3, ConcatProperties
    <3>2. \A b : Has(out, b) \/ Has(As("key", pbuf), b) => Has(out', b)
      BY <1>0, <2>1, <2>3, HasGrows
    <3>3. \A key : Has(pbuf, key) => Has(out', <<"key", key>>)
      BY <2>1, <3>2, KeysSent
    <3>4. /\ reinit_sent => Has(out, <<"key", "REINIT">>)
          /\ dokill_sent => Has(out, <<"key", "DOKILL">>)
      BY <2>3 DEF SentOK, FlagsTell
    <3>5. /\ reinit_sent' => Has(out', <<"key", "REINIT">>)
          /\ dokill_sent' => Has(out', <<"key", "DOKILL">>)
      BY <2>2, <3>2, <3>3, <3>4
    <3>6. QED
      BY <3>1, <3>5 DEF SentOK, FlagsTell
  <2>4. QED
    BY <1>2, <2>2, <2>3
<1>8. CASE ArbByte \/ TextByte
  <2>1. InTerminal /\ UNCHANGED <<reinit_sent, dokill_sent>>
    BY <1>8 DEF ArbByte, TextByte, AtByte
  <2>2. out' = out \/ \E b \in Bytes : \E cmd \in ReadCmd :
                        out' = out \o Reply(negotiated, cmd, b)
    BY <1>8, Zenon DEF ArbByte, TextByte
  <2>3. QED
    BY <1>0, <2>1, <2>2, RepliesAreBytes, SendsMoreOut
<1>9. CASE CtrlC \/ CmdCtrlC
  <2>1. /\ UNCHANGED <<reinit_sent, dokill_sent>> /\ (InTerminal' => InTerminal)
        /\ out' = out \/ out' = Append(out, <<"key", "^C">>)
    BY <1>9, Zenon DEF CtrlC, CmdCtrlC, Commanded
  <2>2. <<"key", "^C">> \in OutBytes
    BY DEF OutBytes
  <2>3. /\ <<<<"key", "^C">>>> \in Seq(OutBytes)
        /\ Append(out, <<"key", "^C">>) = out \o <<<<"key", "^C">>>>
    BY <1>0, <2>2, AppendIsConcat
  <2>4. QED
    BY <1>0, <2>1, <2>3, SendsMoreOut
<1>10. CASE CommandStep /\ ~CmdCtrlC
  <2>1. \/ CmdHelp \/ CmdQuit \/ CmdReturn \/ CmdOpen \/ CmdClose \/ CmdSnoopy \/ CmdVerbose
    BY <1>10 DEF CommandStep
  <2>2. CASE CmdReturn \/ CmdOpen
    BY <1>3, <2>2 DEF CmdReturn, CmdOpen, NewTerminalMode
  <2>3. CASE CmdHelp \/ CmdSnoopy \/ CmdVerbose
    BY <1>1, <2>3 DEF CmdHelp, CmdSnoopy, CmdVerbose
  <2>4. CASE CmdQuit \/ CmdClose
    BY <1>2, <2>4 DEF CmdQuit, CmdClose, CloseConnection, Forget, Commanded
  <2>5. QED
    BY <2>1, <2>2, <2>3, <2>4
<1>11. CASE TypeEof \/ (\E key \in Keys : Type(key)) \/ RemoteStep \/ UNCHANGED vars
  BY <1>1, <1>11 DEF TypeEof, Type, RemoteStep, RemoteUrgent, RemoteCloses, RemoteSends,
                     vars
<1>12. QED
  BY <1>4, <1>5, <1>6, <1>7, <1>8, <1>9, <1>10, <1>11 DEF Next, TerminalStep, CommandStep,
     UserStep

-----------------------------------------------------------------------------
(* ModesKept, for every set of units and keys and any bounds: whichever way *)
(* main() leaves terminal mode the terminal is given back; select(), recv() *)
(* and send() never use a closed descriptor; and the flags that decide what *)
(* a closed connection means speak of this connection (s_tlnt.c:486-745).   *)
THEOREM ModesAreKept == Spec => []ModesKept
<1>1. IInv /\ [Next]_vars => IInv'
  BY NextControl, NextBooleans, NextSocket, NextArbOK, NextEsc, NextNet, NextSent DEF IInv
<1>2. QED
  BY InitIInv, IInvImplies, <1>1, PTL DEF Spec

-----------------------------------------------------------------------------
(* Sequences of sequences, put together. *)

(* Induction over the natural numbers, for a set of them. *)
LEMMA Induction ==
  ASSUME NEW T, 0 \in T, \A n \in Nat : n \in T => n + 1 \in T
  PROVE  Nat \subseteq T
<1> DEFINE Rest == {n \in Nat : n \notin T}
<1>1. ASSUME NEW n \in Rest, \A m \in Rest : <<m, n>> \notin OpToRel(<, Nat) PROVE FALSE
  <2>1. n \in Nat /\ n \notin T
    OBVIOUS
  <2>2. n # 0
    BY <2>1
  <2>3. n - 1 \in Nat /\ n - 1 < n /\ (n - 1) + 1 = n
    BY <2>1, <2>2
  <2>4. n - 1 \notin T
    BY <2>1, <2>3
  <2>5. <<n - 1, n>> \in OpToRel(<, Nat)
    BY <2>1, <2>3 DEF OpToRel
  <2>6. QED
    BY <1>1, <2>3, <2>4, <2>5
<1>2. Rest \subseteq Nat
  OBVIOUS
<1> HIDE DEF Rest
<1>3. Rest = {}
  BY <1>1, <1>2, WFMin, NatLessThanWellFounded
<1>4. QED
  BY <1>3 DEF Rest

(* The function that FlattenSeq() computes: the first i of the sequences,   *)
(* put together.                                                            *)
Sums(s, n, f) ==
  f = [i \in 1 .. n |-> IF i = 1 THEN s[i] ELSE f[i - 1] \o s[i]]

(* There is such a function, whatever the sequences are. *)
LEMMA SumsExist ==
  ASSUME NEW s, NEW n \in Nat
  PROVE  \E f : Sums(s, n, f)
<1> DEFINE T == {m \in Nat : \E f : Sums(s, m, f)}
<1>1. 0 \in T
  <2>1. Sums(s, 0, [i \in 1 .. 0 |-> <<>>])
    BY DEF Sums
  <2>2. QED
    BY <2>1
<1>2. ASSUME NEW m \in Nat, m \in T PROVE m + 1 \in T
  <2>1. PICK f : Sums(s, m, f)
    BY <1>2
  <2> DEFINE g == [i \in 1 .. m + 1 |-> IF i = 1 THEN s[i] ELSE f[i - 1] \o s[i]]
  <2>2. ASSUME NEW i \in 1 .. m PROVE g[i] = f[i]
    <3>1. f[i] = IF i = 1 THEN s[i] ELSE f[i - 1] \o s[i]
      BY <2>1 DEF Sums
    <3>2. i \in 1 .. m + 1
      OBVIOUS
    <3>3. QED
      BY <3>1, <3>2
  <2>3. ASSUME NEW i \in 1 .. m + 1, i # 1 PROVE g[i] = g[i - 1] \o s[i]
    <3>1. i - 1 \in 1 .. m
      BY <2>3
    <3>2. g[i - 1] = f[i - 1]
      BY <2>2, <3>1
    <3>3. QED
      BY <2>3, <3>2
  <2>4. g = [i \in 1 .. m + 1 |-> IF i = 1 THEN s[i] ELSE g[i - 1] \o s[i]]
    BY <2>3
  <2> HIDE DEF g
  <2>5. Sums(s, m + 1, g)
    BY <2>4 DEF Sums
  <2>6. QED
    BY <2>5
<1> HIDE DEF T
<1>3. Nat \subseteq T
  BY <1>1, <1>2, Induction
<1>4. QED
  BY <1>3 DEF T

(* The same up to n. *)
Agree(s, t, n) == \A i \in 1 .. n : s[i] = t[i]

(* It only looks at the sequences it puts together. *)
LEMMA SumsAgree ==
  ASSUME NEW s, NEW t, NEW n \in Nat, NEW m \in Nat, NEW f, NEW g,
         Sums(s, n, f), Sums(t, m, g),
         n <= m, Agree(s, t, n)
  PROVE  Agree(f, g, n)
<1> USE DEF Agree
<1> DEFINE T == {i \in Nat : i \in 1 .. n => f[i] = g[i]}
<1>0. /\ \A i \in 1 .. n : f[i] = IF i = 1 THEN s[i] ELSE f[i - 1] \o s[i]
      /\ \A i \in 1 .. m : g[i] = IF i = 1 THEN t[i] ELSE g[i - 1] \o t[i]
  BY DEF Sums
<1>1. 0 \in T
  OBVIOUS
<1>2. ASSUME NEW i \in Nat, i \in T PROVE i + 1 \in T
  <2> SUFFICES ASSUME i + 1 \in 1 .. n PROVE f[i + 1] = g[i + 1]
    OBVIOUS
  <2>1. i + 1 \in 1 .. n /\ i + 1 \in 1 .. m /\ s[i + 1] = t[i + 1]
    OBVIOUS
  <2>2. CASE i = 0
    BY <1>0, <2>1, <2>2
  <2>3. CASE i # 0
    <3>1. f[i] = g[i]
      BY <1>2, <2>3
    <3>2. f[i + 1] = f[i] \o s[i + 1] /\ g[i + 1] = g[i] \o t[i + 1]
      <4>1. i + 1 # 1 /\ (i + 1) - 1 = i
        BY <2>3
      <4>2. /\ f[i + 1] = IF i + 1 = 1 THEN s[i + 1] ELSE f[(i + 1) - 1] \o s[i + 1]
            /\ g[i + 1] = IF i + 1 = 1 THEN t[i + 1] ELSE g[(i + 1) - 1] \o t[i + 1]
        BY <1>0, <2>1, Zenon
      <4>3. QED
        BY <4>1, <4>2
    <3>3. QED
      BY <2>1, <3>1, <3>2
  <2>4. QED
    BY <2>2, <2>3
<1> HIDE DEF T
<1>3. Nat \subseteq T
  BY <1>1, <1>2, Induction
<1>4. QED
  BY <1>3 DEF T

(* FlattenSeq() is its last value. *)
LEMMA FlattenIs ==
  ASSUME NEW S, NEW s \in Seq(S)
  PROVE  /\ Len(s) = 0 => FlattenSeq(s) = <<>>
         /\ Len(s) # 0 => \E f : Sums(s, Len(s), f) /\ FlattenSeq(s) = f[Len(s)]
<1>1. Len(s) \in Nat
  BY LenProperties
<1>2. Len(s) = 0 => FlattenSeq(s) = <<>>
  BY EmptySeq DEF FlattenSeq
<1>3. ASSUME Len(s) # 0 PROVE \E f : Sums(s, Len(s), f) /\ FlattenSeq(s) = f[Len(s)]
  <2> DEFINE F == CHOOSE f : Sums(s, Len(s), f)
  <2>1. Sums(s, Len(s), F)
    BY <1>1, SumsExist
  <2>2. FlattenSeq(s) = F[Len(s)]
    BY <1>3 DEF FlattenSeq, Sums
  <2>3. QED
    BY <2>1, <2>2
<1>4. QED
  BY <1>2, <1>3

(* One sequence more at the end. *)
LEMMA FlattenAppend ==
  ASSUME NEW S, NEW s \in Seq(Seq(S)), NEW u \in Seq(S)
  PROVE  /\ FlattenSeq(<<>>) = <<>>
         /\ FlattenSeq(s) \in Seq(S)
         /\ FlattenSeq(Append(s, u)) = FlattenSeq(s) \o u
<1> DEFINE n == Len(s)  t == Append(s, u)
<1>1. n \in Nat /\ t \in Seq(Seq(S)) /\ Len(t) = n + 1
      /\ t[n + 1] = u /\ \A i \in 1 .. n : t[i] = s[i] /\ s[i] \in Seq(S)
  BY AppendProperties, LenProperties, ElementOfSeq
<1>2. FlattenSeq(<<>>) = <<>>
  BY FlattenIs, EmptySeq
<1> HIDE DEF n, t
<1>3. PICK g : Sums(t, n + 1, g) /\ FlattenSeq(t) = g[n + 1]
  BY <1>1, FlattenIs
<1>4. \A i \in 1 .. n + 1 : g[i] = IF i = 1 THEN t[i] ELSE g[i - 1] \o t[i]
  BY <1>3 DEF Sums
<1>5. CASE n = 0
  <2>1. s = <<>>
    BY <1>1, <1>5, EmptySeq DEF n
  <2>2. FlattenSeq(t) = u
    BY <1>1, <1>3, <1>4, <1>5
  <2>3. QED
    BY <1>2, <2>1, <2>2, ConcatEmptySeq, EmptySeq DEF t
<1>6. CASE n # 0
  <2>1. PICK f : Sums(s, n, f) /\ FlattenSeq(s) = f[n]
    BY <1>1, <1>6, FlattenIs DEF n
  <2>2. Agree(f, g, n)
    <3>1. /\ n \in Nat /\ n + 1 \in Nat /\ n <= n + 1
          /\ Agree(s, t, n)
      BY <1>1 DEF Agree
    <3>2. PICK m \in Nat : m = n + 1
      BY <3>1
    <3>3. Sums(t, m, g) /\ n <= m
      BY <1>3, <3>1, <3>2
    <3>4. QED
      BY <2>1, <3>1, <3>3, SumsAgree
  <2>3. FlattenSeq(t) = FlattenSeq(s) \o u
    <3>1. n \in 1 .. n /\ n + 1 \in 1 .. n + 1 /\ n + 1 # 1 /\ (n + 1) - 1 = n
      BY <1>1, <1>6
    <3>2. g[n + 1] = IF n + 1 = 1 THEN t[n + 1] ELSE g[(n + 1) - 1] \o t[n + 1]
      BY <1>4, <3>1, Zenon
    <3>3. g[n + 1] = g[n] \o t[n + 1]
      BY <3>1, <3>2
    <3>4. g[n] = f[n]
      BY <2>2, <3>1 DEF Agree
    <3>5. QED
      BY <1>1, <1>3, <2>1, <3>3, <3>4
  <2> DEFINE T == {i \in Nat : i \in 1 .. n => f[i] \in Seq(S)}
  <2>4. 0 \in T
    OBVIOUS
  <2>5. ASSUME NEW i \in Nat, i \in T PROVE i + 1 \in T
    <3> SUFFICES ASSUME i + 1 \in 1 .. n PROVE f[i + 1] \in Seq(S)
      OBVIOUS
    <3>1. f[i + 1] = IF i + 1 = 1 THEN s[i + 1] ELSE f[(i + 1) - 1] \o s[i + 1]
      BY <2>1 DEF Sums
    <3>2. s[i + 1] \in Seq(S)
      BY <1>1
    <3>3. CASE i = 0
      BY <3>1, <3>2, <3>3
    <3>4. CASE i # 0
      <4>1. f[i] \in Seq(S) /\ f[i + 1] = f[i] \o s[i + 1]
        <5>1. i \in 1 .. n /\ i + 1 # 1 /\ (i + 1) - 1 = i
          BY <1>1, <3>4
        <5>2. f[i] \in Seq(S)
          BY <2>5, <5>1
        <5>3. QED
          BY <3>1, <5>1, <5>2
      <4>2. QED
        BY <3>2, <4>1, ConcatProperties
    <3>5. QED
      BY <3>3, <3>4
  <2> HIDE DEF T
  <2>6. Nat \subseteq T
    BY <2>4, <2>5, Induction
  <2>7. f[n] \in Seq(S)
    BY <1>1, <1>6, <2>6 DEF T
  <2>8. QED
    BY <1>2, <2>1, <2>3, <2>7 DEF t
<1>7. QED
  BY <1>5, <1>6

(* x is a and then b; q is p and one element more. *)
Joined(x, a, b) == x = a \o b
Longer(q, p, m) == q = Append(p, m)

(* How a sum is put together does not matter. *)
LEMMA Regroup ==
  ASSUME NEW S, NEW h \in Seq(S), NEW r \in Seq(S), NEW u \in Seq(S),
         NEW x, NEW y, NEW z, Joined(x, h, r), Joined(y, r, u), Joined(z, x, u)
  PROVE  Joined(z, h, y)
BY SMTT(60), ConcatAssociative DEF Joined

(* The same, taken apart the other way. *)
LEMMA Regroup2 ==
  ASSUME NEW S, NEW h \in Seq(S), NEW r \in Seq(S), NEW u \in Seq(S),
         NEW x, NEW y, NEW z, Joined(x, h, r), Joined(y, r, u), Joined(z, h, y)
  PROVE  Joined(z, x, u)
<1>1. (h \o r) \o u = h \o (r \o u)
  BY ConcatAssociative
<1>2. QED
  BY <1>1 DEF Joined

(* One element more in the second part. *)
LEMMA JoinAppend ==
  ASSUME NEW S, NEW s \in Seq(S), NEW p \in Seq(S), NEW m \in S,
         NEW h, NEW q, NEW g, Joined(h, s, p), Longer(q, p, m), Joined(g, s, q)
  PROVE  Longer(g, h, m)
<1>1. <<m>> \in Seq(S) /\ q = p \o <<m>>
  BY AppendIsConcat DEF Longer
<1>2. h \in Seq(S)
  BY ConcatProperties DEF Joined
<1>3. Append(h, m) = h \o <<m>>
  BY <1>2, AppendIsConcat
<1>4. (s \o p) \o <<m>> = s \o (p \o <<m>>)
  BY <1>1, ConcatAssociative
<1>5. QED
  BY <1>1, <1>3, <1>4 DEF Joined, Longer

(* One sequence more at the front. *)
LEMMA FlattenFront ==
  ASSUME NEW S, NEW s \in Seq(Seq(S)), s # <<>>
  PROVE  /\ FlattenSeq(s) = Head(s) \o FlattenSeq(Tail(s))
         /\ Head(s) \in Seq(S) /\ Tail(s) \in Seq(Seq(S))
<1> DEFINE Claim(v) == v # <<>> => FlattenSeq(v) = Head(v) \o FlattenSeq(Tail(v))
           T == {n \in Nat : \A v \in Seq(Seq(S)) : Len(v) = n => Claim(v)}
<1>1. 0 \in T
  BY EmptySeq
<1>2. ASSUME NEW n \in Nat, n \in T PROVE n + 1 \in T
  <2> SUFFICES ASSUME NEW v \in Seq(Seq(S)), Len(v) = n + 1 PROVE Claim(v)
    OBVIOUS
  <2> DEFINE w == SubSeq(v, 1, n)  u == v[n + 1]
  <2>1. /\ w \in Seq(Seq(S)) /\ Len(w) = n /\ u \in Seq(S)
        /\ \A i \in 1 .. n : w[i] = v[i]
    <3>1. \A i \in 1 .. n : v[i] \in Seq(S)
      BY ElementOfSeq
    <3>2. u \in Seq(S)
      BY ElementOfSeq
    <3>3. QED
      BY <3>1, <3>2, SubSeqProperties
  <2>2. v = Append(w, u)
    <3>1. /\ Append(w, u) \in Seq(Seq(S)) /\ Len(Append(w, u)) = n + 1
          /\ \A i \in 1 .. n + 1 : Append(w, u)[i] = v[i]
      BY <2>1, AppendProperties
    <3>2. QED
      BY <3>1, SeqEqual
  <2> HIDE DEF w, u
  <2>3. FlattenSeq(v) = FlattenSeq(w) \o u /\ FlattenSeq(w) \in Seq(S)
    BY <2>1, <2>2, FlattenAppend
  <2>4. CASE n = 0
    <3>1. w = <<>>
      BY <2>1, <2>4, EmptySeq
    <3>2. v = <<u>> /\ Head(v) = u /\ Tail(v) = <<>>
      BY <2>1, <2>2, <3>1
    <3>3. FlattenSeq(v) = u
      BY <2>1, <2>3, <3>1, FlattenAppend, ConcatEmptySeq
    <3>4. QED
      BY <2>1, <3>2, <3>3, FlattenAppend, ConcatEmptySeq
  <2>5. CASE n # 0
    <3>1. w # <<>>
      BY <2>1, <2>5
    <3>2. FlattenSeq(w) = Head(w) \o FlattenSeq(Tail(w))
      BY <1>2, <2>1, <3>1
    <3>3. /\ Head(w) \in Seq(S) /\ Tail(w) \in Seq(Seq(S))
          /\ Head(v) = Head(w) /\ Tail(v) = Append(Tail(w), u)
      <4>1. /\ Head(w) \in Seq(S) /\ Tail(w) \in Seq(Seq(S))
            /\ Len(Tail(w)) = n - 1 /\ \A i \in 1 .. n - 1 : Tail(w)[i] = v[i + 1]
        BY <2>1, <3>1, HeadTailProperties
      <4>2. v # <<>> /\ Head(v) = v[1] /\ Head(w) = w[1]
        BY <2>1, <2>5
      <4>3. /\ Tail(v) \in Seq(Seq(S)) /\ Len(Tail(v)) = n
            /\ \A i \in 1 .. n : Tail(v)[i] = v[i + 1]
        BY <4>2, HeadTailProperties
      <4>4. /\ Append(Tail(w), u) \in Seq(Seq(S)) /\ Len(Append(Tail(w), u)) = n
            /\ \A i \in 1 .. n : Append(Tail(w), u)[i] = v[i + 1]
        BY <2>1, <2>5, <4>1, AppendProperties DEF u
      <4>5. Tail(v) = Append(Tail(w), u)
        BY <4>3, <4>4, SeqEqual
      <4>6. QED
        BY <2>1, <2>5, <4>1, <4>2, <4>5
    <3>4. FlattenSeq(Tail(v)) = FlattenSeq(Tail(w)) \o u /\ FlattenSeq(Tail(w)) \in Seq(S)
      BY <2>1, <3>3, FlattenAppend
    <3>5. QED
      <4>1. FlattenSeq(v) = Head(w) \o FlattenSeq(Tail(v))
        <5>1. /\ Joined(FlattenSeq(w), Head(w), FlattenSeq(Tail(w)))
              /\ Joined(FlattenSeq(Tail(v)), FlattenSeq(Tail(w)), u)
              /\ Joined(FlattenSeq(v), FlattenSeq(w), u)
          BY <2>3, <3>2, <3>4 DEF Joined
        <5>2. Head(w) \in Seq(S) /\ FlattenSeq(Tail(w)) \in Seq(S) /\ u \in Seq(S)
          BY <2>1, <3>3, <3>4
        <5>3. Joined(FlattenSeq(v), Head(w), FlattenSeq(Tail(v)))
          BY <5>1, <5>2, Regroup
        <5>4. QED
          BY <5>3 DEF Joined
      <4>2. QED
        BY <3>3, <4>1
  <2>6. QED
    BY <2>4, <2>5
<1> HIDE DEF T
<1>3. Nat \subseteq T
  BY <1>1, <1>2, Induction
<1>4. QED
  BY <1>3, HeadTailProperties, LenProperties DEF T

-----------------------------------------------------------------------------
(* The units from number n + 1 on, and the bytes to come when i of the unit *)
(* with that number have been seen.                                         *)
Ahead(us, n) == SubSeq(us, n + 1, Len(us))
Remaining(us, n, i) ==
  IF i = 0 THEN FlattenSeq(Ahead(us, n))
           ELSE SubSeq(us[n + 1], i + 1, Len(us[n + 1])) \o FlattenSeq(Ahead(us, n + 1))
Position(us, n, i) ==
  /\ n \in 0 .. Len(us) /\ i \in Nat
  /\ i = 0 \/ (n < Len(us) /\ i < Len(us[n + 1]))

(* The text of the first i bytes of a unit; a byte that telnet_arb() hands  *)
(* back is the last one of its unit.                                        *)
HandsBack(u, i) == i = Len(u) /\ Len(u) <= 2
Spoken(u, i) == IF u[1] \in Low THEN As("text", SubSeq(u, 1, i))
                ELSE IF HandsBack(u, i) THEN <<<<"hex", u[Len(u)]>>>> ELSE <<>>

(* What has been said, and what there is to note, when i bytes of unit      *)
(* n + 1 have been seen.                                                    *)
Heard(us, n, i) == IF i = 0 THEN SaidTo(us, n) ELSE SaidTo(us, n) \o Spoken(us[n + 1], i)
Noticed(us, n, i) ==
  IF i = 0 THEN NotesTo(us, n)
  ELSE NotesTo(us, n) \o NotesIn(us[n + 1], Len(SaidTo(us, n)), i)
HasNote(u, i) == u[1] = "IAC" /\ i > Unnoted(u)

(* Where telnet_arb() and the ESCape trap are when they have seen i bytes   *)
(* of u; the trap may have been switched on in the middle of a sequence.    *)
ArbAt(u, i) ==
  IF i = 0 \/ i = Len(u) \/ u[1] # "IAC" THEN 0
  ELSE IF i = 1 THEN 1
  ELSE IF i = 2 THEN IF u[2] \in {"DO", "DONT"} THEN 2 ELSE IF u[2] = "SB" THEN 4 ELSE 3
  ELSE IF i = Len(u) - 1 THEN 6 ELSE 5
Stage(i) == IF i = 1 THEN {"esc"} ELSE IF i = 2 THEN {"brack"} ELSE {"info"}
TrapAt(t, m, u, i) ==
  \/ t = {}
  \/ i >= 1 /\ i < Len(u) /\ u[1] = "ESC" /\ t = Stage(i) /\ m = SubSeq(u, 2, i)
Caught(t, m) == IF t = {} THEN <<>> ELSE <<"ESC">> \o m

(* What may be on the screen; what holds of the trap at any time; and, of a *)
(* connection that began afresh, a position in the stream at which          *)
(* everything is.                                                           *)
Marks == {"text", "hex"} \X Bytes
NoteMarks == Nat \X Bytes
Quiet ==
  /\ shown \in Seq(Marks)
  /\ told \subseteq {FALSE} => notes = <<>>
  /\ trap \subseteq {"esc"} => esc_message = <<>>
  /\ clean /\ in_snoopymode => trap = {}
Watched == clean /\ connection_opened /\ pc # "killed"
At(n, i) ==
  /\ Position(units, n, i)
  /\ Joined(Remaining(units, n, i), ibuf, inc)
  /\ arb_state = ArbAt(units[n + 1], i)
  /\ TrapAt(trap, esc_message, units[n + 1], i)
  /\ Joined(Heard(units, n, i), shown, As("text", Caught(trap, esc_message)))
  /\ told \subseteq {TRUE} => notes = Noticed(units, n, i)
InStep == Watched => \E n, i \in Nat : At(n, i)

(* A unit is a sequence of bytes, and not an empty one. *)
LEMMA UnitIs ==
  /\ Units \subseteq Seq(Bytes)
  /\ \A u \in Units : /\ u \in Seq(Bytes) /\ u # <<>> /\ Len(u) \in Nat /\ Len(u) >= 1
                      /\ \A at \in 1 .. Len(u) : u[at] \in Bytes
  /\ \A us \in Seq(Units) : us \in Seq(Seq(Bytes))
<1>1. Units \subseteq Seq(Bytes)
  BY ConstantsAssumption
<1>2. ASSUME NEW u \in Units
      PROVE  /\ u \in Seq(Bytes) /\ u # <<>> /\ Len(u) \in Nat /\ Len(u) >= 1
             /\ \A at \in 1 .. Len(u) : u[at] \in Bytes
  <2>1. u \in Seq(Bytes) /\ u # <<>>
    BY ConstantsAssumption
  <2>2. QED
    BY <2>1, EmptySeq, LenProperties, ElementOfSeq
<1>3. \A us \in Seq(Units) : us \in Seq(Seq(Bytes))
  BY <1>1, SeqMonotonic
<1>4. QED
  BY <1>1, <1>2, <1>3

(* The first of two sequences put together. *)
LEMMA TailOfConcat ==
  ASSUME NEW S, NEW a \in Seq(S), a # <<>>, NEW b \in Seq(S)
  PROVE  /\ a \o b # <<>> /\ Head(a \o b) = Head(a) /\ Tail(a \o b) = Tail(a) \o b
<1>1. Len(a) \in Nat /\ Len(a) >= 1 /\ Len(b) \in Nat
  BY EmptySeq, LenProperties
<1>2. /\ a \o b \in Seq(S) /\ Len(a \o b) = Len(a) + Len(b)
      /\ \A at \in 1 .. Len(a) + Len(b) :
           (a \o b)[at] = IF at <= Len(a) THEN a[at] ELSE b[at - Len(a)]
  BY ConcatProperties
<1>3. a \o b # <<>>
  BY <1>1, <1>2, EmptySeq
<1>4. Head(a \o b) = Head(a)
  BY <1>1, <1>2
<1>5. /\ Tail(a \o b) \in Seq(S) /\ Len(Tail(a \o b)) = Len(a) + Len(b) - 1
      /\ \A at \in 1 .. Len(a) + Len(b) - 1 : Tail(a \o b)[at] = (a \o b)[at + 1]
  BY <1>2, <1>3, HeadTailProperties
<1>6. /\ Tail(a) \in Seq(S) /\ Len(Tail(a)) = Len(a) - 1
      /\ \A at \in 1 .. Len(a) - 1 : Tail(a)[at] = a[at + 1]
  BY HeadTailProperties
<1>7. /\ Tail(a) \o b \in Seq(S) /\ Len(Tail(a) \o b) = Len(a) - 1 + Len(b)
      /\ \A at \in 1 .. Len(a) - 1 + Len(b) :
           (Tail(a) \o b)[at] = IF at <= Len(a) - 1 THEN Tail(a)[at] ELSE b[at - (Len(a) - 1)]
  BY <1>6, ConcatProperties
<1>8. \A at \in 1 .. Len(a) + Len(b) - 1 : Tail(a \o b)[at] = (Tail(a) \o b)[at]
  BY <1>1, <1>2, <1>5, <1>6, <1>7
<1>9. QED
  BY <1>3, <1>4, <1>5, <1>7, <1>8, SeqEqual

(* The units that follow. *)
LEMMA AheadIs ==
  ASSUME NEW us \in Seq(Units), NEW n \in 0 .. Len(us)
  PROVE  /\ Ahead(us, n) \in Seq(Seq(Bytes)) /\ FlattenSeq(Ahead(us, n)) \in Seq(Bytes)
         /\ n = Len(us) => Ahead(us, n) = <<>> /\ FlattenSeq(Ahead(us, n)) = <<>>
         /\ n < Len(us) => /\ us[n + 1] \in Units
                           /\ FlattenSeq(Ahead(us, n)) = us[n + 1] \o FlattenSeq(Ahead(us, n + 1))
<1>1. Len(us) \in Nat /\ \A at \in 1 .. Len(us) : us[at] \in Units /\ us[at] \in Seq(Bytes)
  BY LenProperties, ElementOfSeq, UnitIs
<1>2. /\ Ahead(us, n) \in Seq(Seq(Bytes))
      /\ Len(Ahead(us, n)) = IF n + 1 <= Len(us) THEN Len(us) - n ELSE 0
  <2>1. \A at \in n + 1 .. Len(us) : us[at] \in Seq(Bytes)
    BY <1>1
  <2>2. QED
    BY <1>1, <2>1, SubSeqProperties DEF Ahead
<1>3. FlattenSeq(Ahead(us, n)) \in Seq(Bytes)
  <2>1. <<>> \in Seq(Bytes)
    BY EmptySeq
  <2>2. QED
    BY <1>2, <2>1, FlattenAppend
<1>4. ASSUME n = Len(us) PROVE Ahead(us, n) = <<>> /\ FlattenSeq(Ahead(us, n)) = <<>>
  <2>1. Ahead(us, n) = <<>>
    BY <1>1, <1>2, <1>4, EmptySeq
  <2>2. QED
    BY <2>1, <1>2, EmptySeq, FlattenAppend
<1>5. ASSUME n < Len(us)
      PROVE  /\ us[n + 1] \in Units
             /\ FlattenSeq(Ahead(us, n)) = us[n + 1] \o FlattenSeq(Ahead(us, n + 1))
  <2>1. n + 1 \in 1 .. Len(us) /\ Len(us) \in n + 1 .. Len(us)
    BY <1>1, <1>5
  <2>2. /\ Head(Ahead(us, n)) = us[n + 1]
        /\ Tail(Ahead(us, n)) = Ahead(us, n + 1)
    BY <2>1, HeadTailOfSubSeq DEF Ahead
  <2>3. Ahead(us, n) # <<>>
    BY <1>1, <1>2, <1>5, EmptySeq
  <2>4. FlattenSeq(Ahead(us, n)) = Head(Ahead(us, n)) \o FlattenSeq(Tail(Ahead(us, n)))
    BY <1>2, <2>3, FlattenFront
  <2>5. QED
    BY <1>1, <2>1, <2>2, <2>4
<1>6. QED
  BY <1>2, <1>3, <1>4, <1>5

(* What remains of the unit, and the units behind it. *)
Rest(us, n, i) == SubSeq(us[n + 1], i + 1, Len(us[n + 1]))
Later(us, n) == FlattenSeq(Ahead(us, n + 1))

(* What remains is what remains of this unit and the units behind it. *)
LEMMA RemainingIs ==
  ASSUME NEW us \in Seq(Units), NEW n, NEW i, Position(us, n, i)
  PROVE  /\ n \in Nat /\ i \in Nat /\ Remaining(us, n, i) \in Seq(Bytes)
         /\ n = Len(us) => i = 0 /\ Remaining(us, n, i) = <<>>
         /\ n < Len(us) =>
              /\ us[n + 1] \in Units /\ i < Len(us[n + 1])
              /\ Rest(us, n, i) \in Seq(Bytes) /\ Rest(us, n, i) # <<>>
              /\ Later(us, n) \in Seq(Bytes)
              /\ Joined(Remaining(us, n, i), Rest(us, n, i), Later(us, n))
<1>1. n \in 0 .. Len(us) /\ n \in Nat /\ i \in Nat /\ Len(us) \in Nat
  BY LenProperties DEF Position
<1>2. CASE n = Len(us)
  <2>1. i = 0
    BY <1>1, <1>2 DEF Position
  <2>2. Remaining(us, n, i) = <<>>
    BY <1>1, <1>2, <2>1, AheadIs DEF Remaining
  <2>3. Remaining(us, n, i) \in Seq(Bytes)
    BY <2>2, EmptySeq
  <2>4. ~(n < Len(us))
    BY <1>1, <1>2
  <2>5. QED
    BY <1>1, <1>2, <2>1, <2>2, <2>3, <2>4
<1>3. CASE n < Len(us)
  <2> DEFINE u == us[n + 1]  p == SubSeq(u, i + 1, Len(u))
  <2>1. n + 1 \in 0 .. Len(us)
    BY <1>1, <1>3
  <2>2. /\ u \in Units /\ FlattenSeq(Ahead(us, n)) = u \o FlattenSeq(Ahead(us, n + 1))
        /\ FlattenSeq(Ahead(us, n + 1)) \in Seq(Bytes)
    BY <1>1, <1>3, <2>1, AheadIs
  <2>3. /\ u \in Seq(Bytes) /\ Len(u) \in Nat /\ Len(u) >= 1
        /\ \A at \in 1 .. Len(u) : u[at] \in Bytes
    BY <2>2, UnitIs
  <2>4. i < Len(u)
    BY <2>3 DEF Position
  <2> HIDE DEF u
  <2>5. p \in Seq(Bytes) /\ Len(p) = Len(u) - i
    <3>1. \A at \in i + 1 .. Len(u) : u[at] \in Bytes
      BY <1>1, <2>3
    <3>2. QED
      BY <1>1, <2>3, <2>4, <3>1, SubSeqProperties
  <2>7. i = 0 => p = u
    BY <2>3, SubSeqFull
  <2> HIDE DEF p
  <2>6. p # <<>>
    BY <1>1, <2>3, <2>4, <2>5, EmptySeq
  <2>8. Remaining(us, n, i) = p \o FlattenSeq(Ahead(us, n + 1))
    BY <2>2, <2>7 DEF Remaining, u, p
  <2>9. Remaining(us, n, i) \in Seq(Bytes)
    BY <2>2, <2>5, <2>8, ConcatProperties
  <2>10. QED
    BY <1>1, <1>3, <2>2, <2>4, <2>5, <2>6, <2>8, <2>9 DEF u, p, Rest, Later, Joined
<1>4. QED
  BY <1>1, <1>2, <1>3

(* The position behind one byte more. *)
NextUnit(us, n, i) == IF i + 1 = Len(us[n + 1]) THEN n + 1 ELSE n
NextSeen(us, n, i) == IF i + 1 = Len(us[n + 1]) THEN 0 ELSE i + 1

(* The next byte that remains is the next byte of the unit. *)
LEMMA RemainingStep ==
  ASSUME NEW us \in Seq(Units), NEW n, NEW i, Position(us, n, i),
         Remaining(us, n, i) # <<>>
  PROVE  /\ n < Len(us) /\ us[n + 1] \in Units /\ i < Len(us[n + 1])
         /\ Head(Remaining(us, n, i)) = us[n + 1][i + 1]
         /\ Position(us, NextUnit(us, n, i), NextSeen(us, n, i))
         /\ Tail(Remaining(us, n, i)) = Remaining(us, NextUnit(us, n, i), NextSeen(us, n, i))
<1> DEFINE u == us[n + 1]  p == SubSeq(u, i + 1, Len(u))  r == Later(us, n)
<1>1. n \in 0 .. Len(us) /\ n \in Nat /\ i \in Nat /\ Len(us) \in Nat
  BY LenProperties DEF Position
<1>2. n < Len(us)
  BY <1>1, RemainingIs
<1>3. /\ u \in Units /\ i < Len(u) /\ p \in Seq(Bytes) /\ p # <<>> /\ r \in Seq(Bytes)
      /\ Joined(Remaining(us, n, i), p, r)
  BY <1>2, RemainingIs DEF Rest
<1>4. u \in Seq(Bytes) /\ Len(u) \in Nat
  BY <1>3, UnitIs
<1>5. Head(p) = u[i + 1] /\ Tail(p) = SubSeq(u, i + 2, Len(u))
  <2>1. i + 1 \in 1 .. Len(u) /\ Len(u) \in i + 1 .. Len(u) /\ (i + 1) + 1 = i + 2
    BY <1>1, <1>3, <1>4
  <2>2. QED
    BY <1>4, <2>1, HeadTailOfSubSeq
<1> HIDE DEF u, p, r
<1>6. /\ Head(Remaining(us, n, i)) = u[i + 1]
      /\ Joined(Tail(Remaining(us, n, i)), SubSeq(u, i + 2, Len(u)), r)
  <2>1. p \o r # <<>> /\ Head(p \o r) = Head(p) /\ Tail(p \o r) = Tail(p) \o r
    BY <1>3, TailOfConcat
  <2>2. QED
    BY <1>3, <1>5, <2>1 DEF Joined
<1>7. CASE i + 1 = Len(u)
  <2>1. SubSeq(u, i + 2, Len(u)) = <<>>
    BY <1>1, <1>4, <1>7, SubSeqEmpty
  <2>2. Tail(Remaining(us, n, i)) = r
    BY <1>3, <1>6, <2>1, ConcatEmptySeq DEF Joined
  <2>3. Position(us, n + 1, 0) /\ Remaining(us, n + 1, 0) = r
    BY <1>1, <1>2 DEF Position, Remaining, Later, r
  <2>4. QED
    BY <1>2, <1>3, <1>6, <1>7, <2>2, <2>3 DEF NextUnit, NextSeen, u
<1>8. CASE i + 1 # Len(u)
  <2>1. Position(us, n, i + 1)
    BY <1>1, <1>2, <1>3, <1>4, <1>8 DEF Position, u
  <2>2. Joined(Remaining(us, n, i + 1), SubSeq(u, i + 2, Len(u)), r)
    <3>1. i + 1 # 0 /\ (i + 1) + 1 = i + 2
      BY <1>1
    <3>2. QED
      BY <3>1 DEF Remaining, Joined, Later, u, r
  <2>3. Tail(Remaining(us, n, i)) = Remaining(us, n, i + 1)
    BY <1>6, <2>2 DEF Joined
  <2>4. QED
    BY <1>2, <1>3, <1>6, <1>8, <2>1, <2>3 DEF NextUnit, NextSeen, u
<1>9. QED
  BY <1>7, <1>8

(* Another unit is sent. *)
LEMMA RemainingGrows ==
  ASSUME NEW us \in Seq(Units), NEW n, NEW i, Position(us, n, i), NEW v \in Units
  PROVE  /\ Position(Append(us, v), n, i)
         /\ Joined(Remaining(Append(us, v), n, i), Remaining(us, n, i), v)
<1> DEFINE vs == Append(us, v)
<1>1. /\ n \in 0 .. Len(us) /\ n \in Nat /\ i \in Nat /\ Len(us) \in Nat
      /\ v \in Seq(Bytes)
  BY LenProperties, UnitIs DEF Position
<1>2. /\ vs \in Seq(Units) /\ Len(vs) = Len(us) + 1 /\ vs[Len(us) + 1] = v
      /\ \A at \in 1 .. Len(us) : vs[at] = us[at]
  BY AppendProperties
<1> HIDE DEF vs
<1>3. ASSUME NEW m \in 0 .. Len(us)
      PROVE  Joined(FlattenSeq(Ahead(vs, m)), FlattenSeq(Ahead(us, m)), v)
  <2>1. Ahead(us, m) \in Seq(Seq(Bytes)) /\ Len(Ahead(us, m)) = Len(us) - m
        /\ \A at \in 1 .. Len(us) - m : Ahead(us, m)[at] = us[m + at]
    <3>1. \A at \in m + 1 .. Len(us) : us[at] \in Seq(Bytes)
      BY UnitIs, ElementOfSeq
    <3>2. QED
      BY <1>1, <3>1, SubSeqProperties DEF Ahead
  <2>2. Ahead(vs, m) \in Seq(Seq(Bytes)) /\ Len(Ahead(vs, m)) = Len(us) + 1 - m
        /\ \A at \in 1 .. Len(us) + 1 - m : Ahead(vs, m)[at] = vs[m + at]
    <3>1. \A at \in m + 1 .. Len(vs) : vs[at] \in Seq(Bytes)
      BY <1>2, UnitIs, ElementOfSeq
    <3>2. QED
      BY <1>1, <1>2, <3>1, SubSeqProperties DEF Ahead
  <2>3. Ahead(vs, m) = Append(Ahead(us, m), v)
    <3>1. /\ Append(Ahead(us, m), v) \in Seq(Seq(Bytes))
          /\ Len(Append(Ahead(us, m), v)) = Len(us) - m + 1
          /\ Append(Ahead(us, m), v)[Len(us) - m + 1] = v
          /\ \A at \in 1 .. Len(us) - m : Append(Ahead(us, m), v)[at] = Ahead(us, m)[at]
      BY <1>1, <2>1, AppendProperties
    <3> DEFINE a == Ahead(vs, m)  b == Append(Ahead(us, m), v)  c == Ahead(us, m)
    <3> HIDE DEF a, b, c
    <3>2. ASSUME NEW at \in 1 .. Len(us) + 1 - m PROVE a[at] = b[at]
      <4>1. a[at] = vs[m + at]
        BY <2>2 DEF a
      <4>2. CASE at = Len(us) + 1 - m
        <5>1. b[at] = v /\ m + at = Len(us) + 1
          BY <1>1, <3>1, <4>2 DEF b
        <5>2. QED
          BY <1>2, <4>1, <5>1
      <4>3. CASE at # Len(us) + 1 - m
        <5>1. at \in 1 .. Len(us) - m /\ m + at \in 1 .. Len(us)
          BY <1>1, <4>3
        <5>2. b[at] = c[at] /\ c[at] = us[m + at]
          BY <2>1, <3>1, <5>1 DEF b, c
        <5>3. QED
          BY <1>2, <4>1, <5>1, <5>2
      <4>4. QED
        BY <4>2, <4>3
    <3>3. a \in Seq(Seq(Bytes)) /\ b \in Seq(Seq(Bytes)) /\ Len(a) = Len(us) + 1 - m /\ Len(b) = Len(a)
      BY <1>1, <2>2, <3>1 DEF a, b
    <3>4. a = b
      BY <3>2, <3>3, SeqEqual
    <3>5. QED
      BY <3>4 DEF a, b
  <2>4. QED
    BY <1>1, <2>1, <2>3, FlattenAppend DEF Joined
<1>4. Position(vs, n, i)
  BY SMTT(60), <1>1, <1>2 DEF Position
<1>5. CASE i = 0
  BY <1>1, <1>3, <1>4, <1>5 DEF Remaining, vs
<1>6. CASE i # 0
  <2> DEFINE u == us[n + 1]  p == SubSeq(u, i + 1, Len(u))
  <2>1. n < Len(us) /\ n + 1 \in 0 .. Len(us) /\ vs[n + 1] = u
    BY <1>1, <1>2, <1>6 DEF Position
  <2>2. /\ p \in Seq(Bytes) /\ FlattenSeq(Ahead(us, n + 1)) \in Seq(Bytes)
        /\ Joined(Remaining(us, n, i), p, FlattenSeq(Ahead(us, n + 1)))
    BY <2>1, RemainingIs DEF Rest, Later
  <2>3. Joined(Remaining(vs, n, i), p, FlattenSeq(Ahead(vs, n + 1)))
    BY <1>6, <2>1 DEF Remaining, Joined
  <2>4. Joined(FlattenSeq(Ahead(vs, n + 1)), FlattenSeq(Ahead(us, n + 1)), v)
    BY <1>3, <2>1
  <2> HIDE DEF u, p
  <2> DEFINE x == Remaining(us, n, i)  y == FlattenSeq(Ahead(vs, n + 1))
             r == FlattenSeq(Ahead(us, n + 1))
  <2> HIDE DEF x, y, r
  <2>5. Joined(x, p, r) /\ Joined(y, r, v) /\ p \in Seq(Bytes) /\ r \in Seq(Bytes)
    BY <2>2, <2>4 DEF x, y, r
  <2> DEFINE z == Remaining(vs, n, i)
  <2> HIDE DEF z
  <2>6. Joined(z, p, y)
    BY <2>3 DEF y, z
  <2>7. Joined(z, x, v)
    BY <1>1, <2>5, <2>6, Regroup2
  <2>8. QED
    BY <1>4, <2>7 DEF x, z, vs
<1>7. QED
  BY <1>5, <1>6

(* Bytes shown as text. *)
LEMMA AsIs ==
  ASSUME NEW s \in Seq(Bytes)
  PROVE  /\ As("text", s) \in Seq(Marks) /\ Len(As("text", s)) = Len(s)
         /\ \A at \in 1 .. Len(s) : As("text", s)[at] = <<"text", s[at]>>
         /\ \A b \in Bytes : /\ <<"text", b>> \in Marks
                             /\ As("text", Append(s, b)) = Append(As("text", s), <<"text", b>>)
<1>1. Len(s) \in Nat /\ \A at \in 1 .. Len(s) : s[at] \in Bytes
  BY LenProperties, ElementOfSeq
<1>2. \A b \in Bytes : <<"text", b>> \in Marks
  BY DEF Marks
<1>3. ASSUME NEW t \in Seq(Bytes)
      PROVE  /\ As("text", t) \in Seq(Marks) /\ Len(As("text", t)) = Len(t)
             /\ \A at \in 1 .. Len(t) : As("text", t)[at] = <<"text", t[at]>>
  <2>1. Len(t) \in Nat /\ \A at \in 1 .. Len(t) : t[at] \in Bytes
    BY LenProperties, ElementOfSeq
  <2>2. As("text", t) = [at \in 1 .. Len(t) |-> <<"text", t[at]>>]
    BY DEF As
  <2>3. As("text", t) \in [1 .. Len(t) -> Marks]
    BY <1>2, <2>1, <2>2
  <2>4. QED
    BY <2>1, <2>2, <2>3, SeqDef, LenProperties
<1>4. ASSUME NEW b \in Bytes
      PROVE  As("text", Append(s, b)) = Append(As("text", s), <<"text", b>>)
  <2> DEFINE t == Append(s, b)  x == As("text", t)  y == Append(As("text", s), <<"text", b>>)
  <2>1. /\ t \in Seq(Bytes) /\ Len(t) = Len(s) + 1 /\ t[Len(s) + 1] = b
        /\ \A at \in 1 .. Len(s) : t[at] = s[at]
    BY <1>1, AppendProperties
  <2>2. /\ x \in Seq(Marks) /\ Len(x) = Len(s) + 1
        /\ \A at \in 1 .. Len(s) + 1 : x[at] = <<"text", t[at]>>
    BY <1>3, <2>1
  <2>3. /\ y \in Seq(Marks) /\ Len(y) = Len(s) + 1 /\ y[Len(s) + 1] = <<"text", b>>
        /\ \A at \in 1 .. Len(s) : y[at] = <<"text", s[at]>>
    BY <1>1, <1>2, <1>3, AppendProperties
  <2> HIDE DEF t, x, y
  <2>4. ASSUME NEW at \in 1 .. Len(s) + 1 PROVE x[at] = y[at]
    <3>1. CASE at = Len(s) + 1
      BY <1>1, <2>1, <2>2, <2>3, <3>1
    <3>2. CASE at # Len(s) + 1
      <4>1. at \in 1 .. Len(s)
        BY <1>1, <3>2
      <4>2. x[at] = <<"text", s[at]>>
        <5>1. x[at] = <<"text", t[at]>>
          BY <2>2
        <5>2. t[at] = s[at]
          BY <2>1, <4>1
        <5>3. QED
          BY <5>1, <5>2
      <4>3. QED
        BY <2>3, <4>1, <4>2
    <3>3. QED
      BY <3>1, <3>2
  <2>5. x = y
    BY <2>2, <2>3, <2>4, SeqEqual
  <2>6. QED
    BY <2>5 DEF t, x, y
<1>5. QED
  BY <1>2, <1>3, <1>4

(* Sequences put together, up to one of them and up to the next. *)
LEMMA UpTo ==
  ASSUME NEW S, NEW l \in Nat, NEW f \in [1 .. l -> Seq(S)], NEW n \in 0 .. l
  PROVE  /\ FlattenSeq([at \in 1 .. n |-> f[at]]) \in Seq(S)
         /\ n = 0 => FlattenSeq([at \in 1 .. n |-> f[at]]) = <<>>
         /\ n < l => Joined(FlattenSeq([at \in 1 .. n + 1 |-> f[at]]),
                            FlattenSeq([at \in 1 .. n |-> f[at]]), f[n + 1])
<1> DEFINE F(m) == [at \in 1 .. m |-> f[at]]
<1>3. ASSUME NEW m \in 0 .. l
      PROVE  F(m) \in Seq(Seq(S)) /\ Len(F(m)) = m /\ \A at \in 1 .. m : F(m)[at] = f[at]
  <2>1. F(m) \in [1 .. m -> Seq(S)] /\ m \in Nat
    OBVIOUS
  <2>2. QED
    BY <2>1, SeqDef, LenProperties
<1>4. FlattenSeq(F(n)) \in Seq(S)
  BY <1>3, FlattenAppend, EmptySeq
<1>5. n = 0 => FlattenSeq(F(n)) = <<>>
  <2>1. F(0) = <<>>
    BY <1>3, EmptySeq
  <2>2. FlattenSeq(<<>>) = <<>>
    BY <1>3, EmptySeq, FlattenAppend
  <2>3. QED
    BY <2>1, <2>2
<1>6. ASSUME n < l PROVE Joined(FlattenSeq(F(n + 1)), FlattenSeq(F(n)), f[n + 1])
  <2> DEFINE a == F(n)  b == F(n + 1)  t == f[n + 1]  c == Append(a, t)
  <2>1. n + 1 \in 0 .. l /\ n \in Nat /\ t \in Seq(S)
    BY <1>6
  <2>2. /\ a \in Seq(Seq(S)) /\ Len(a) = n /\ b \in Seq(Seq(S)) /\ Len(b) = n + 1
        /\ \A at \in 1 .. n : a[at] = f[at]
        /\ \A at \in 1 .. n + 1 : b[at] = f[at]
    BY <1>3, <2>1
  <2>3. /\ c \in Seq(Seq(S)) /\ Len(c) = n + 1 /\ c[n + 1] = t
        /\ \A at \in 1 .. n : c[at] = a[at]
    <3> HIDE DEF a, t
    <3>1. QED
      BY <2>1, <2>2, AppendProperties
  <2>4. \A at \in 1 .. n + 1 : b[at] = c[at]
    <3> SUFFICES ASSUME NEW at \in 1 .. n + 1 PROVE b[at] = c[at]
      OBVIOUS
    <3> HIDE DEF a, b, c
    <3>1. at = n + 1 \/ at \in 1 .. n
      BY <2>1
    <3>2. QED
      BY <2>2, <2>3, <3>1
  <2> HIDE DEF a, b, c
  <2>5. b = c
    BY <2>2, <2>3, <2>4, SeqEqual
  <2> HIDE DEF t
  <2>6. FlattenSeq(b) = FlattenSeq(a) \o t
    BY <2>1, <2>2, <2>5, FlattenAppend DEF c
  <2>7. QED
    BY <2>6 DEF Joined, a, b, t
<1> HIDE DEF F
<1>8. QED
  BY <1>4, <1>5, <1>6 DEF F

(* The text of one unit more. *)
LEMMA SaidIs ==
  ASSUME NEW us \in Seq(Units), NEW n \in 0 .. Len(us)
  PROVE  /\ SaidTo(us, n) \in Seq(Marks)
         /\ n = 0 => SaidTo(us, n) = <<>>
         /\ n < Len(us) => Joined(SaidTo(us, n + 1), SaidTo(us, n), TextOf(us[n + 1]))
         /\ \A v \in Units : SaidTo(Append(us, v), n) = SaidTo(us, n)
<1>1. Len(us) \in Nat /\ \A at \in 1 .. Len(us) : us[at] \in Units
  BY LenProperties, ElementOfSeq
<1>2. \A u \in Units : TextOf(u) \in Seq(Marks)
  <2> SUFFICES ASSUME NEW u \in Units PROVE TextOf(u) \in Seq(Marks)
    OBVIOUS
  <2>1. u \in Seq(Bytes) /\ u[Len(u)] \in Bytes
    BY UnitIs
  <2>2. As("text", u) \in Seq(Marks) /\ <<>> \in Seq(Marks)
    BY <2>1, AsIs, EmptySeq
  <2>3. <<<<"hex", u[Len(u)]>>>> \in Seq(Marks)
    BY <2>1 DEF Marks
  <2>4. QED
    BY <2>2, <2>3 DEF TextOf
<1> DEFINE f == [at \in 1 .. Len(us) |-> TextOf(us[at])]
<1>3. f \in [1 .. Len(us) -> Seq(Marks)]
  BY <1>1, <1>2
<1>4. ASSUME NEW m \in 0 .. Len(us) PROVE SaidTo(us, m) = FlattenSeq([at \in 1 .. m |-> f[at]])
  <2>1. [at \in 1 .. m |-> f[at]] = [at \in 1 .. m |-> TextOf(us[at])]
    BY <1>1
  <2>2. QED
    BY <2>1 DEF SaidTo
<1>5. n < Len(us) => n + 1 \in 0 .. Len(us) /\ f[n + 1] = TextOf(us[n + 1])
  BY <1>1
<1> HIDE DEF f
<1>6. /\ SaidTo(us, n) \in Seq(Marks)
      /\ n = 0 => SaidTo(us, n) = <<>>
      /\ n < Len(us) => Joined(SaidTo(us, n + 1), SaidTo(us, n), TextOf(us[n + 1]))
  <2>1. /\ FlattenSeq([at \in 1 .. n |-> f[at]]) \in Seq(Marks)
        /\ n = 0 => FlattenSeq([at \in 1 .. n |-> f[at]]) = <<>>
        /\ n < Len(us) => Joined(FlattenSeq([at \in 1 .. n + 1 |-> f[at]]),
                                 FlattenSeq([at \in 1 .. n |-> f[at]]), f[n + 1])
    BY <1>1, <1>3, UpTo, Zenon
  <2>2. /\ SaidTo(us, n) = FlattenSeq([at \in 1 .. n |-> f[at]])
        /\ n < Len(us) => SaidTo(us, n + 1) = FlattenSeq([at \in 1 .. n + 1 |-> f[at]])
    BY <1>4, <1>5, Zenon
  <2>3. QED
    BY <1>5, <2>1, <2>2, Zenon
<1>7. ASSUME NEW v \in Units PROVE SaidTo(Append(us, v), n) = SaidTo(us, n)
  <2>1. \A at \in 1 .. n : Append(us, v)[at] = us[at]
    BY <1>1, AppendProperties
  <2>2. [at \in 1 .. n |-> TextOf(Append(us, v)[at])] = [at \in 1 .. n |-> TextOf(us[at])]
    BY <2>1
  <2>3. QED
    BY <2>2 DEF SaidTo
<1>8. QED
  BY <1>6, <1>7

(* The notes on one byte more of a unit. *)
LEMMA NotesAre ==
  ASSUME NEW u \in Units, NEW p \in Nat, NEW i \in 0 .. Len(u)
  PROVE  /\ NotesIn(u, p, i) \in Seq(NoteMarks)
         /\ ~HasNote(u, i) => NotesIn(u, p, i) = <<>>
         /\ i < Len(u) /\ HasNote(u, i + 1) =>
              /\ <<p, u[i + 1]>> \in NoteMarks
              /\ NotesIn(u, p, i + 1) = Append(NotesIn(u, p, i), <<p, u[i + 1]>>)
<1> DEFINE h == Unnoted(u)  N(j) == [at \in 1 .. j |-> <<p, u[at + h]>>]
<1>1. /\ Len(u) \in Nat /\ i \in Nat /\ h \in Nat
      /\ \A at \in 1 .. Len(u) : u[at] \in Bytes
  BY UnitIs DEF Unnoted
<1> HIDE DEF h
<1>2. ASSUME NEW j \in Nat, j + h <= Len(u)
      PROVE  /\ N(j) \in Seq(NoteMarks) /\ Len(N(j)) = j
             /\ \A at \in 1 .. j : N(j)[at] = <<p, u[at + h]>>
  <2>1. \A at \in 1 .. j : <<p, u[at + h]>> \in NoteMarks
    <3> SUFFICES ASSUME NEW at \in 1 .. j PROVE <<p, u[at + h]>> \in NoteMarks
      OBVIOUS
    <3>1. at + h \in 1 .. Len(u)
      BY <1>1, <1>2
    <3>2. QED
      BY <1>1, <3>1 DEF NoteMarks
  <2>2. N(j) \in [1 .. j -> NoteMarks]
    BY <2>1
  <2>3. QED
    BY <2>2, SeqDef, LenProperties
<1>3. ~HasNote(u, i) => NotesIn(u, p, i) = <<>>
  <2>1. CASE u[1] # "IAC"
    BY <2>1 DEF NotesIn
  <2>2. CASE u[1] = "IAC" /\ ~(i > h)
    <3>1. NotesIn(u, p, i) = N(i - h)
      BY <2>2 DEF NotesIn, h
    <3>2. 1 .. (i - h) = 1 .. 0
      BY <1>1, <2>2
    <3>3. N(i - h) \in [1 .. 0 -> NoteMarks]
      BY <3>2
    <3>4. N(i - h) \in Seq(NoteMarks) /\ Len(N(i - h)) = 0
      <4> HIDE DEF N
      <4>1. QED
        BY <3>3, SeqDef, LenProperties
    <3>5. QED
      <4> HIDE DEF N
      <4>1. QED
        BY <3>1, <3>4, EmptySeq
  <2>3. QED
    BY <2>1, <2>2 DEF HasNote, h
<1>4. HasNote(u, i) => NotesIn(u, p, i) = N(i - h) /\ i - h \in Nat /\ (i - h) + h = i
  BY <1>1 DEF NotesIn, HasNote, h
<1> HIDE DEF N
<1>5. NotesIn(u, p, i) \in Seq(NoteMarks)
  <2>1. CASE HasNote(u, i)
    BY <1>1, <1>2, <1>4, <2>1
  <2>2. QED
    BY <1>3, <2>1, EmptySeq
<1>6. ASSUME i < Len(u), HasNote(u, i + 1)
      PROVE  /\ <<p, u[i + 1]>> \in NoteMarks
             /\ NotesIn(u, p, i + 1) = Append(NotesIn(u, p, i), <<p, u[i + 1]>>)
  <2> DEFINE j == i - h  m == <<p, u[i + 1]>>
  <2>1. /\ u[1] = "IAC" /\ j \in Nat /\ j + h = i /\ j + 1 \in Nat /\ (j + 1) + h = i + 1
        /\ (i + 1) - h = j + 1
    BY <1>1, <1>6 DEF HasNote, h
  <2>2. NotesIn(u, p, i + 1) = N(j + 1) /\ NotesIn(u, p, i) = N(j)
    BY <2>1 DEF NotesIn, N, h
  <2>3. m \in NoteMarks
    BY <1>1, <1>6 DEF NoteMarks
  <2> HIDE DEF j, m
  <2>4. /\ N(j + 1) \in Seq(NoteMarks) /\ Len(N(j + 1)) = j + 1
        /\ \A at \in 1 .. j + 1 : N(j + 1)[at] = <<p, u[at + h]>>
    BY <1>1, <1>2, <1>6, <2>1
  <2>5. /\ N(j) \in Seq(NoteMarks) /\ Len(N(j)) = j
        /\ \A at \in 1 .. j : N(j)[at] = <<p, u[at + h]>>
    BY <1>1, <1>2, <2>1
  <2> DEFINE y == Append(N(j), m)
  <2>6. /\ y \in Seq(NoteMarks) /\ Len(y) = j + 1 /\ y[j + 1] = m
        /\ \A at \in 1 .. j : y[at] = N(j)[at]
    BY <2>1, <2>3, <2>5, AppendProperties
  <2> HIDE DEF y
  <2>7. ASSUME NEW at \in 1 .. j + 1 PROVE N(j + 1)[at] = y[at]
    <3>1. at = j + 1 \/ at \in 1 .. j
      BY <2>1
    <3>2. CASE at = j + 1
      <4>1. at + h = i + 1
        BY <2>1, <3>2
      <4>2. N(j + 1)[at] = <<p, u[i + 1]>>
        BY <2>4, <4>1
      <4>3. QED
        BY <2>6, <3>2, <4>2 DEF m
    <3>3. CASE at \in 1 .. j
      <4>1. N(j + 1)[at] = <<p, u[at + h]>>
        BY <2>4
      <4>2. y[at] = <<p, u[at + h]>>
        BY <2>5, <2>6, <3>3
      <4>3. QED
        BY <4>1, <4>2
    <3>4. QED
      BY <3>1, <3>2, <3>3
  <2>8. N(j + 1) = y
    BY <2>4, <2>6, <2>7, SeqEqual
  <2>9. QED
    BY <2>2, <2>3, <2>8 DEF y, m
<1>7. QED
  BY <1>3, <1>5, <1>6

(* The notes on one unit more. *)
LEMMA NotesSum ==
  ASSUME NEW us \in Seq(Units), NEW n \in 0 .. Len(us)
  PROVE  /\ NotesTo(us, n) \in Seq(NoteMarks)
         /\ n = 0 => NotesTo(us, n) = <<>>
         /\ n < Len(us) => Joined(NotesTo(us, n + 1), NotesTo(us, n),
                                  NotesIn(us[n + 1], Len(SaidTo(us, n)), Len(us[n + 1])))
         /\ \A v \in Units : NotesTo(Append(us, v), n) = NotesTo(us, n)
<1>1. Len(us) \in Nat /\ \A at \in 1 .. Len(us) : us[at] \in Units
  BY LenProperties, ElementOfSeq
<1>2. ASSUME NEW at \in 1 .. Len(us) PROVE NotesOf(us, at) \in Seq(NoteMarks)
  <2>1. at - 1 \in 0 .. Len(us)
    BY <1>1
  <2>2. Len(SaidTo(us, at - 1)) \in Nat
    BY <2>1, SaidIs, LenProperties
  <2>3. us[at] \in Units /\ Len(us[at]) \in 0 .. Len(us[at])
    <3>1. us[at] \in Units
      BY <1>1
    <3>2. Len(us[at]) \in Nat
      BY <3>1, UnitIs
    <3>3. QED
      BY <3>1, <3>2
  <2>4. QED
    BY <2>2, <2>3, NotesAre DEF NotesOf
<1> DEFINE f == [at \in 1 .. Len(us) |-> NotesOf(us, at)]
<1>3. f \in [1 .. Len(us) -> Seq(NoteMarks)]
  BY <1>2
<1>4. ASSUME NEW m \in 0 .. Len(us) PROVE NotesTo(us, m) = FlattenSeq([at \in 1 .. m |-> f[at]])
  <2>1. [at \in 1 .. m |-> f[at]] = [at \in 1 .. m |-> NotesOf(us, at)]
    BY <1>1
  <2>2. QED
    BY <2>1 DEF NotesTo
<1>5. n < Len(us) => /\ n + 1 \in 0 .. Len(us)
                     /\ f[n + 1] = NotesIn(us[n + 1], Len(SaidTo(us, n)), Len(us[n + 1]))
  <2>1. (n + 1) - 1 = n
    BY <1>1
  <2>2. n < Len(us) => n + 1 \in 1 .. Len(us) /\ f[n + 1] = NotesOf(us, n + 1)
    BY <1>1
  <2>3. QED
    BY <1>1, <2>1, <2>2 DEF NotesOf
<1> HIDE DEF f
<1>6. /\ NotesTo(us, n) \in Seq(NoteMarks)
      /\ n = 0 => NotesTo(us, n) = <<>>
      /\ n < Len(us) => Joined(NotesTo(us, n + 1), NotesTo(us, n), f[n + 1])
  <2>1. /\ FlattenSeq([at \in 1 .. n |-> f[at]]) \in Seq(NoteMarks)
        /\ n = 0 => FlattenSeq([at \in 1 .. n |-> f[at]]) = <<>>
        /\ n < Len(us) => Joined(FlattenSeq([at \in 1 .. n + 1 |-> f[at]]),
                                 FlattenSeq([at \in 1 .. n |-> f[at]]), f[n + 1])
    BY <1>1, <1>3, UpTo, Zenon
  <2>2. /\ NotesTo(us, n) = FlattenSeq([at \in 1 .. n |-> f[at]])
        /\ n < Len(us) => NotesTo(us, n + 1) = FlattenSeq([at \in 1 .. n + 1 |-> f[at]])
    BY <1>4, <1>5, Zenon
  <2>3. QED
    BY <1>5, <2>1, <2>2, Zenon
<1>7. ASSUME NEW v \in Units PROVE NotesTo(Append(us, v), n) = NotesTo(us, n)
  <2>1. ASSUME NEW at \in 1 .. n PROVE NotesOf(Append(us, v), at) = NotesOf(us, at)
    <3>1. Append(us, v)[at] = us[at]
      BY <1>1, AppendProperties
    <3>2. at - 1 \in 0 .. Len(us)
      BY <1>1
    <3>3. SaidTo(Append(us, v), at - 1) = SaidTo(us, at - 1)
      BY <3>2, SaidIs
    <3>4. QED
      BY <3>1, <3>3 DEF NotesOf
  <2>2. [at \in 1 .. n |-> NotesOf(Append(us, v), at)] = [at \in 1 .. n |-> NotesOf(us, at)]
    BY <2>1
  <2>3. QED
    BY <2>2 DEF NotesTo
<1>8. QED
  BY <1>5, <1>6, <1>7

(* The text of one byte more: in a unit that is text or an escape sequence  *)
(* the byte, in another one the byte in hexadecimal if it is handed back.   *)
LEMMA HeardStep ==
  ASSUME NEW us \in Seq(Units), NEW n, NEW i, Position(us, n, i), n < Len(us),
         i < Len(us[n + 1]), NEW u \in Units, u = us[n + 1]
  PROVE  /\ Heard(us, n, i) \in Seq(Marks) /\ u[i + 1] \in Bytes
         /\ u[1] \in Low => Heard(us, NextUnit(us, n, i), NextSeen(us, n, i))
                               = Append(Heard(us, n, i), <<"text", u[i + 1]>>)
         /\ u[1] \notin Low =>
              /\ Heard(us, n, i) = SaidTo(us, n)
              /\ Heard(us, NextUnit(us, n, i), NextSeen(us, n, i))
                   = IF HandsBack(u, i + 1) THEN Append(Heard(us, n, i), <<"hex", u[i + 1]>>)
                     ELSE Heard(us, n, i)
<1> DEFINE b == u[i + 1]  m == <<"text", b>>  s == SaidTo(us, n)
<1>1. /\ n \in 0 .. Len(us) /\ n \in Nat /\ i \in Nat /\ Len(us) \in Nat
      /\ u \in Seq(Bytes) /\ Len(u) \in Nat /\ \A at \in 1 .. Len(u) : u[at] \in Bytes
  BY UnitIs, LenProperties DEF Position
<1>2. b \in Bytes
  BY <1>1
<1>3. /\ s \in Seq(Marks) /\ Joined(SaidTo(us, n + 1), s, TextOf(u))
  BY <1>1, SaidIs
<1>4. ASSUME NEW j \in 0 .. Len(u)
      PROVE SubSeq(u, 1, j) \in Seq(Bytes) /\ Len(SubSeq(u, 1, j)) = j
  <2>1. \A at \in 1 .. j : u[at] \in Bytes
    BY <1>1
  <2>2. QED
    BY <1>1, <2>1, SubSeqProperties
<1>5. SubSeq(u, 1, i + 1) = Append(SubSeq(u, 1, i), b)
  <2> DEFINE x == SubSeq(u, 1, i + 1)  p == SubSeq(u, 1, i)  y == Append(p, b)
  <2>1. /\ x \in Seq(Bytes) /\ p \in Seq(Bytes) /\ Len(x) = i + 1 /\ Len(p) = i
        /\ \A at \in 1 .. i + 1 : x[at] = u[at]
        /\ \A at \in 1 .. i : p[at] = u[at]
    BY <1>1, SubSeqProperties
  <2> HIDE DEF x, p
  <2>2. /\ y \in Seq(Bytes) /\ Len(y) = i + 1 /\ y[i + 1] = b
        /\ \A at \in 1 .. i : y[at] = p[at]
    BY <1>2, <2>1, AppendProperties
  <2>3. \A at \in 1 .. i + 1 : x[at] = y[at]
    <3> SUFFICES ASSUME NEW at \in 1 .. i + 1 PROVE x[at] = y[at]
      OBVIOUS
    <3>1. at = i + 1 \/ at \in 1 .. i
      BY <1>1
    <3>2. QED
      BY <2>1, <2>2, <3>1
  <2> HIDE DEF y
  <2>4. x = y
    BY <2>1, <2>2, <2>3, SeqEqual
  <2>5. QED
    BY <2>4 DEF x, y, p
<1> HIDE DEF b, m, s
<1>6. u[1] \in Low => /\ Spoken(u, i) \in Seq(Marks) /\ m \in Marks
                       /\ Spoken(u, i + 1) = Append(Spoken(u, i), m)
  <2>1. i \in 0 .. Len(u)
    BY <1>1
  <2>2. As("text", SubSeq(u, 1, i + 1)) = Append(As("text", SubSeq(u, 1, i)), m)
    BY <1>2, <1>4, <1>5, <2>1, AsIs DEF m
  <2>3. QED
    BY <1>2, <1>4, <2>1, <2>2, AsIs DEF Spoken, m
<1>7. /\ Spoken(u, Len(u)) = TextOf(u)
      /\ Spoken(u, 0) = <<>>
      /\ u[1] \notin Low => Spoken(u, i) = <<>>
  <2>1. SubSeq(u, 1, Len(u)) = u
    BY <1>1, SubSeqFull
  <2>2. SubSeq(u, 1, 0) = <<>>
    BY SubSeqEmpty
  <2>3. As("text", <<>>) = <<>>
    <3>1. <<>> \in Seq(Bytes) /\ Len(<<>>) = 0
      BY EmptySeq
    <3>2. As("text", <<>>) \in Seq(Marks) /\ Len(As("text", <<>>)) = 0
      BY <3>1, AsIs
    <3>3. QED
      BY <3>2, EmptySeq
  <2>4. /\ ~HandsBack(u, 0) /\ ~HandsBack(u, i)
        /\ HandsBack(u, Len(u)) <=> Len(u) <= 2
    BY <1>1, UnitIs DEF HandsBack
  <2>5. QED
    BY <2>1, <2>2, <2>3, <2>4 DEF Spoken, TextOf
<1>8. Joined(Heard(us, n, i), s, Spoken(u, i))
  <2>1. i = 0 => Spoken(u, i) = <<>>
    BY <1>7
  <2>2. s \o <<>> = s
    BY <1>3, ConcatEmptySeq
  <2>3. QED
    BY <2>1, <2>2 DEF Heard, Joined, s
<1>9. Joined(Heard(us, NextUnit(us, n, i), NextSeen(us, n, i)), s, Spoken(u, i + 1))
  <2>1. CASE i + 1 = Len(u)
    <3>1. Heard(us, NextUnit(us, n, i), NextSeen(us, n, i)) = SaidTo(us, n + 1)
      BY <2>1 DEF Heard, NextUnit, NextSeen
    <3>2. Spoken(u, i + 1) = TextOf(u)
      BY <1>7, <2>1
    <3>3. QED
      BY <1>3, <3>1, <3>2
  <2>2. CASE i + 1 # Len(u)
    BY <1>1, <2>2 DEF Heard, NextUnit, NextSeen, Joined, s
  <2>3. QED
    BY <2>1, <2>2
<1>10. CASE u[1] \notin Low
  <2> DEFINE g == Heard(us, NextUnit(us, n, i), NextSeen(us, n, i))
  <2>1. Spoken(u, i) = <<>> /\ s \o <<>> = s
    BY <1>3, <1>7, <1>10, ConcatEmptySeq
  <2>2. Heard(us, n, i) = s
    BY <1>8, <2>1 DEF Joined
  <2>3. Joined(g, s, Spoken(u, i + 1))
    BY <1>9
  <2> HIDE DEF g
  <2>4. CASE HandsBack(u, i + 1)
    <3>1. Spoken(u, i + 1) = <<<<"hex", b>>>> /\ <<"hex", b>> \in Marks
      BY <1>2, <1>10, <2>4 DEF Spoken, HandsBack, Marks, b
    <3>2. Append(s, <<"hex", b>>) = s \o <<<<"hex", b>>>>
      BY <1>3, <3>1, AppendIsConcat
    <3>3. g = Append(s, <<"hex", b>>)
      BY <2>3, <3>1, <3>2 DEF Joined
    <3>4. QED
      BY <1>2, <1>3, <1>10, <2>2, <2>4, <3>3 DEF b, g, s
  <2>5. CASE ~HandsBack(u, i + 1)
    <3>1. Spoken(u, i + 1) = <<>>
      BY <1>10, <2>5 DEF Spoken
    <3>2. g = s
      BY <2>1, <2>3, <3>1 DEF Joined
    <3>3. QED
      BY <1>2, <1>3, <1>10, <2>2, <2>5, <3>2 DEF b, g, s
  <2>6. QED
    BY <2>4, <2>5
<1>11. CASE u[1] \in Low
  <2> DEFINE h == Heard(us, n, i)  g == Heard(us, NextUnit(us, n, i), NextSeen(us, n, i))
             p == Spoken(u, i)  q == Spoken(u, i + 1)
  <2>1. /\ Joined(h, s, p) /\ Joined(g, s, q) /\ Longer(q, p, m)
        /\ s \in Seq(Marks) /\ p \in Seq(Marks) /\ m \in Marks
    BY <1>3, <1>6, <1>8, <1>9, <1>11 DEF Longer
  <2> HIDE DEF h, g, p, q
  <2>2. h \in Seq(Marks)
    BY <2>1, ConcatProperties DEF Joined
  <2>3. Longer(g, h, m)
    BY <2>1, JoinAppend
  <2>4. QED
    BY <1>2, <1>11, <2>2, <2>3 DEF h, g, m, b, Longer
<1>12. QED
  BY <1>10, <1>11

(* The notes on one byte more. *)
LEMMA NotesStep ==
  ASSUME NEW us \in Seq(Units), NEW n, NEW i, Position(us, n, i), n < Len(us),
         i < Len(us[n + 1]), NEW u \in Units, u = us[n + 1]
  PROVE  Noticed(us, NextUnit(us, n, i), NextSeen(us, n, i))
           = IF HasNote(u, i + 1)
             THEN Append(Noticed(us, n, i), <<Len(SaidTo(us, n)), u[i + 1]>>)
             ELSE Noticed(us, n, i)
<1> DEFINE p == Len(SaidTo(us, n))  r == NotesTo(us, n)  m == <<p, u[i + 1]>>
           x == NotesIn(u, p, i)  y == NotesIn(u, p, i + 1)
           g == Noticed(us, NextUnit(us, n, i), NextSeen(us, n, i))
<1>1. n \in 0 .. Len(us) /\ n \in Nat /\ i \in Nat /\ Len(us) \in Nat /\ Len(u) \in Nat
  BY UnitIs, LenProperties DEF Position
<1>2. p \in Nat
  BY <1>1, SaidIs, LenProperties
<1>3. r \in Seq(NoteMarks) /\ Joined(NotesTo(us, n + 1), r, NotesIn(u, p, Len(u)))
  BY <1>1, NotesSum
<1> HIDE DEF p, m, r
<1>4. /\ x \in Seq(NoteMarks) /\ y \in Seq(NoteMarks)
      /\ ~HasNote(u, 0) /\ ~HasNote(u, i + 1) => x = <<>> /\ y = <<>>
      /\ HasNote(u, i + 1) => m \in NoteMarks /\ y = Append(x, m)
  <2>1. i \in 0 .. Len(u) /\ i + 1 \in 0 .. Len(u)
    BY <1>1
  <2>2. ~HasNote(u, 0) /\ (HasNote(u, i) => HasNote(u, i + 1))
    BY <1>1 DEF HasNote, Unnoted
  <2>3. QED
    BY <1>2, <2>1, <2>2, NotesAre DEF m
<1>5. ~HasNote(u, 0) /\ NotesIn(u, p, 0) = <<>>
  <2>1. 0 \in 0 .. Len(u) /\ ~HasNote(u, 0)
    BY <1>1 DEF HasNote, Unnoted
  <2>2. QED
    BY <1>2, <2>1, NotesAre
<1>6. Joined(Noticed(us, n, i), r, x)
  <2>1. r \o <<>> = r
    BY <1>3, ConcatEmptySeq
  <2>2. QED
    BY <1>5, <2>1 DEF Noticed, Joined, r, p
<1>7. Joined(g, r, y)
  <2>1. CASE i + 1 = Len(u)
    <3>1. g = NotesTo(us, n + 1)
      BY <2>1 DEF Noticed, NextUnit, NextSeen
    <3>2. QED
      BY <1>3, <2>1, <3>1
  <2>2. CASE i + 1 # Len(u)
    <3>1. NextUnit(us, n, i) = n /\ NextSeen(us, n, i) = i + 1 /\ i + 1 # 0
      BY <1>1, <2>2 DEF NextUnit, NextSeen
    <3>2. QED
      BY <3>1 DEF Noticed, Joined, r, p
  <2>3. QED
    BY <2>1, <2>2
<1> DEFINE h == Noticed(us, n, i)
<1> HIDE DEF g, h, x, y
<1>8. CASE HasNote(u, i + 1)
  <2>1. Longer(y, x, m) /\ Joined(h, r, x) /\ Joined(g, r, y)
    BY <1>4, <1>6, <1>7, <1>8 DEF Longer, h
  <2>2. x \in Seq(NoteMarks) /\ r \in Seq(NoteMarks) /\ m \in NoteMarks
    BY <1>3, <1>4, <1>8
  <2>3. Longer(g, h, m)
    BY <2>1, <2>2, JoinAppend
  <2>4. QED
    BY <1>8, <2>3 DEF Longer, g, h, m, p
<1>9. CASE ~HasNote(u, i + 1)
  <2>1. g = h
    BY <1>4, <1>5, <1>6, <1>7, <1>9 DEF Joined, h
  <2>2. QED
    BY <1>9, <2>1 DEF g, h
<1>10. QED
  BY <1>8, <1>9

-----------------------------------------------------------------------------
(* The bytes of a unit. *)
LEMMA UnitBytes ==
  ASSUME NEW u \in Units
  PROVE  /\ Len(u) \in Nat /\ Len(u) >= 1
         /\ u[1] \in Low => /\ Character(u) \/ Escape(u)
                            /\ \A at \in 1 .. Len(u) : u[at] \in Low
         /\ u[1] \notin Low => \/ Len(u) = 1 /\ u[1] # "IAC"
                               \/ Command(u) \/ Request(u) \/ Subnegotiation(u)
<1>1. u \in Seq(Bytes) /\ Len(u) \in Nat /\ Len(u) >= 1
  BY UnitIs
<1>2. CASE Character(u)
  BY <1>1, <1>2 DEF Character
<1>3. CASE Escape(u)
  <2>1. CASE Len(u) = 2 /\ u[1] = "ESC" /\ u[2] \in Finals
    BY <1>1, <1>3, <2>1 DEF Low, Options, Finals, Params
  <2>2. CASE /\ Len(u) \in 3 .. MaxEscSeq + 1 /\ u[1] = "ESC" /\ u[2] = "["
             /\ \A at \in 3 .. Len(u) - 1 : u[at] \in Params
             /\ u[Len(u)] \in Low \ (Params \cup {"ESC"})
    <3>1. ASSUME NEW at \in 1 .. Len(u) PROVE u[at] \in Low
      <4>1. at = 1 \/ at = 2 \/ at \in 3 .. Len(u) - 1 \/ at = Len(u)
        BY <1>1, <2>2
      <4>2. QED
        BY <2>2, <4>1 DEF Low, Params
    <3>2. QED
      BY <1>1, <1>3, <2>2, <3>1 DEF Low
  <2>3. QED
    BY <1>3, <2>1, <2>2 DEF Escape
<1>4. CASE Command(u) \/ Request(u) \/ Subnegotiation(u)
  <2>1. u[1] \notin Low
    BY <1>4 DEF Command, Request, Subnegotiation, Low, Options, Finals, Params
  <2>2. QED
    BY <1>1, <1>4, <2>1
<1>5. QED
  BY <1>2, <1>3, <1>4, UnitsAssumption

(* telnet_arb() sees the units that begin with IAC, from end to end, and    *)
(* the bytes with the eighth bit set; it hands the last byte back of those  *)
(* of one byte or two, and tells the notes there are.                       *)
LEMMA ArbStep ==
  ASSUME NEW u \in Units, NEW i \in Nat, i < Len(u), arb_state = ArbAt(u, i)
  PROVE  /\ ForArb(u[i + 1]) <=> u[1] \notin Low
         /\ u[1] \notin Low => /\ NextArb(u[i + 1]) = ArbAt(u, i + 1)
                               /\ Handback(u[i + 1]) <=> HandsBack(u, i + 1)
                               /\ Tells(u[i + 1]) <=> HasNote(u, i + 1)
         /\ u[1] \in Low => ArbAt(u, i + 1) = arb_state
<1>1. Len(u) \in Nat /\ Len(u) >= 1 /\ i # Len(u) /\ "IAC" \notin Low
  BY UnitBytes DEF Low, Options, Finals, Params
<1>2. CASE u[1] \in Low
  <2>1. arb_state = 0 /\ ArbAt(u, i + 1) = 0
    BY <1>1, <1>2 DEF ArbAt
  <2>2. u[i + 1] \in Low
    BY <1>1, <1>2, UnitBytes
  <2>3. QED
    BY <1>2, <2>1, <2>2 DEF ForArb
<1>a. CASE u[1] \notin Low /\ u[1] # "IAC"
  <2>1. Len(u) = 1 /\ i = 0
    <3>1. \A l \in Nat : l = 1 /\ i < l => i = 0
      OBVIOUS
    <3>2. Len(u) = 1
      BY <1>a, UnitBytes, Zenon DEF Command, Request, Subnegotiation
    <3>3. QED
      BY <1>1, <3>1, <3>2, Zenon
  <2>2. arb_state = 0 /\ ArbAt(u, i + 1) = 0
    BY <1>a DEF ArbAt
  <2>3. HandsBack(u, i + 1) /\ ~HasNote(u, i + 1)
    BY <1>a, <2>1 DEF HandsBack, HasNote
  <2>4. NextArb(u[i + 1]) = 0 /\ Handback(u[i + 1]) /\ ~Tells(u[i + 1]) /\ ForArb(u[i + 1])
    BY <1>a, <2>1, <2>2 DEF NextArb, Handback, Tells, ForArb
  <2>5. QED
    BY <1>a, <2>2, <2>3, <2>4
<1>3. CASE u[1] = "IAC"
  <2>h. HasNote(u, i + 1) <=> i + 1 > Unnoted(u)
    BY <1>3 DEF HasNote
  <2>1. i = 0 => arb_state = 0
    BY DEF ArbAt
  <2>2. i # 0 => arb_state \in 1 .. 6
    BY <1>1, <1>3 DEF ArbAt
  <2>3. ForArb(u[i + 1])
    BY <1>1, <1>3, <2>1, <2>2 DEF ForArb
  <2>4. CASE i = 0
    <3>1. i + 1 = 1 /\ Len(u) # 1
      BY <1>1, <1>3, <2>4, UnitBytes DEF Command, Request, Subnegotiation
    <3>2. ArbAt(u, i + 1) = 1
      BY <1>1, <1>3, <3>1 DEF ArbAt
    <3>3. NextArb(u[i + 1]) = 1 /\ ~Handback(u[i + 1]) /\ ~Tells(u[i + 1])
      BY <1>3, <2>1, <2>4, <3>1 DEF NextArb, Handback, Tells
    <3>4. ~HandsBack(u, i + 1) /\ ~HasNote(u, i + 1)
      <4>1. \A x \in {1, 2} : ~(1 > x)
        OBVIOUS
      <4>2. Unnoted(u) \in {1, 2}
        BY DEF Unnoted
      <4>3. ~(i + 1 > Unnoted(u))
        BY <3>1, <4>1, <4>2, Zenon
      <4>4. ~HandsBack(u, i + 1)
        BY <3>1, Zenon DEF HandsBack
      <4>5. QED
        BY <2>h, <4>3, <4>4
    <3>5. QED
      BY <1>1, <1>3, <2>3, <3>2, <3>3, <3>4
  <2>c. CASE i = 1 /\ Command(u)
    <3>1. arb_state = 1 /\ i + 1 = 2 /\ Len(u) = 2 /\ u[2] \in Commands \ Negotiations
      BY <1>1, <1>3, <2>c DEF ArbAt, Command
    <3>2. ArbAt(u, 2) = 0
      BY <3>1 DEF ArbAt
    <3>3. NextArb(u[2]) = 0 /\ Handback(u[2]) /\ Tells(u[2])
      BY <3>1 DEF NextArb, Handback, Tells, Negotiations
    <3>4. HandsBack(u, 2) /\ HasNote(u, 2)
      BY <1>3, <3>1 DEF HandsBack, HasNote, Unnoted
    <3>5. QED
      BY <1>1, <1>3, <2>3, <3>1, <3>2, <3>3, <3>4
  <2>5. CASE i = 1 /\ ~Command(u)
    <3>1. arb_state = 1
      BY <1>1, <1>3, <2>5 DEF ArbAt
    <3>2. i + 1 = 2 /\ Len(u) >= 3 /\ u[2] \in {"DO", "DONT", "WILL", "WONT", "SB"}
      BY <1>1, <1>3, <2>5, UnitBytes DEF Request, Subnegotiation
    <3>3. ArbAt(u, 2) = IF u[2] \in {"DO", "DONT"} THEN 2 ELSE IF u[2] = "SB" THEN 4 ELSE 3
      <4>1. Len(u) \in Nat /\ Len(u) >= 3
        <5>1. Len(u) \in Nat
          BY <1>1
        <5>2. Len(u) >= 3
          BY <3>2
        <5>3. QED
          BY <5>1, <5>2
      <4>2. 2 # Len(u)
        <5>1. \A l \in Nat : l >= 3 => 2 # l
          OBVIOUS
        <5>2. QED
          BY <4>1, <5>1, Zenon
      <4>3. QED
        BY <1>3, <4>2 DEF ArbAt
    <3>4. NextArb(u[2]) = IF u[2] \in {"DO", "DONT"} THEN 2
                          ELSE IF u[2] = "SB" THEN 4 ELSE 3
      BY <3>1, <3>2 DEF NextArb
    <3>5. ~Handback(u[2]) /\ ~Tells(u[2])
      BY <3>1, <3>2 DEF Handback, Tells, Negotiations
    <3>6. ~HandsBack(u, 2) /\ ~HasNote(u, 2)
      <4>0. \A l \in Nat : l >= 3 => l # 2
        OBVIOUS
      <4>1. Len(u) # 2
        BY <1>1, <3>2, <4>0, Zenon
      <4>2. Unnoted(u) = 2
        BY <4>1 DEF Unnoted
      <4>3. QED
        BY <2>h, <3>2, <4>1, <4>2 DEF HandsBack
    <3>7. QED
      BY <1>1, <1>3, <2>3, <3>2, <3>3, <3>4, <3>5, <3>6
  <2>n. i >= 2 /\ ~Command(u) => HasNote(u, i + 1) /\ ~HandsBack(u, i + 1)
    <3> SUFFICES ASSUME i >= 2 PROVE HasNote(u, i + 1) /\ ~HandsBack(u, i + 1)
      OBVIOUS
    <3>1. Unnoted(u) \in {1, 2}
      BY DEF Unnoted
    <3>2. QED
      BY <1>1, <2>h, <3>1 DEF HandsBack
  <2>s. ~Command(u) \/ i <= 1
    <3>1. \A l \in Nat : l = 2 /\ i < l => i <= 1
      OBVIOUS
    <3>2. Command(u) => Len(u) = 2
      BY DEF Command
    <3>3. QED
      BY <1>1, <3>1, <3>2, Zenon
  <2>6. CASE i >= 2 /\ Request(u)
    <3>1. i = 2 /\ i + 1 = Len(u) /\ u[2] \in {"DO", "DONT", "WILL", "WONT"}
      BY <1>1, <2>6 DEF Request
    <3>2. arb_state \in {2, 3}
      BY <1>1, <1>3, <3>1 DEF ArbAt
    <3>3. ArbAt(u, i + 1) = 0
      BY <3>1 DEF ArbAt
    <3>4. NextArb(u[i + 1]) = 0 /\ ~Handback(u[i + 1]) /\ Tells(u[i + 1])
      BY <3>2 DEF NextArb, Handback, Tells
    <3>5. QED
      BY <1>1, <1>3, <2>3, <2>6, <2>n, <2>s, <3>1, <3>3, <3>4
  <2>7. CASE i >= 2 /\ Subnegotiation(u)
    <3>1. /\ Len(u) >= 5 /\ u[2] = "SB" /\ u[Len(u) - 1] = "IAC" /\ u[Len(u)] = "SE"
          /\ \A at \in 4 .. Len(u) - 2 : u[at] # "IAC"
      BY <2>7 DEF Subnegotiation
    <3>2. i = 2 \/ i \in 3 .. Len(u) - 3 \/ (i >= 3 /\ i = Len(u) - 2) \/ (i >= 3 /\ i = Len(u) - 1)
      BY <1>1, <2>7, <3>1
    <3>8. HasNote(u, i + 1) /\ ~HandsBack(u, i + 1)
      BY <1>1, <2>7, <2>n, <3>1 DEF Command
    <3>3. CASE i = 2
      <4>1. arb_state = 4
        BY <1>1, <1>3, <3>1, <3>3 DEF ArbAt
      <4>2. ArbAt(u, i + 1) = 5
        BY <1>1, <1>3, <3>1, <3>3 DEF ArbAt
      <4>3. NextArb(u[i + 1]) = 5 /\ ~Handback(u[i + 1]) /\ Tells(u[i + 1])
        BY <4>1 DEF NextArb, Handback, Tells
      <4>4. QED
        BY <1>1, <1>3, <2>3, <3>8, <4>2, <4>3
    <3>4. CASE i \in 3 .. Len(u) - 3
      <4>1. arb_state = 5
        BY <1>1, <1>3, <3>1, <3>4 DEF ArbAt
      <4>2. ArbAt(u, i + 1) = 5
        BY <1>1, <1>3, <3>1, <3>4 DEF ArbAt
      <4>3. u[i + 1] # "IAC"
        <5>1. i + 1 \in 4 .. Len(u) - 2
          BY <1>1, <3>4
        <5>2. QED
          BY <3>1, <5>1
      <4>4. NextArb(u[i + 1]) = 5 /\ ~Handback(u[i + 1]) /\ Tells(u[i + 1])
        BY <4>1, <4>3 DEF NextArb, Handback, Tells
      <4>5. QED
        BY <1>1, <1>3, <2>3, <3>8, <4>2, <4>4
    <3>5. CASE i >= 3 /\ i = Len(u) - 2
      <4>1. arb_state = 5 /\ i + 1 = Len(u) - 1
        BY <1>1, <1>3, <3>1, <3>5 DEF ArbAt
      <4>2. ArbAt(u, i + 1) = 6
        BY <1>1, <1>3, <3>1, <3>5 DEF ArbAt
      <4>3. u[i + 1] = "IAC"
        BY <3>1, <4>1
      <4>4. NextArb(u[i + 1]) = 6 /\ ~Handback(u[i + 1]) /\ Tells(u[i + 1])
        BY <4>1, <4>3 DEF NextArb, Handback, Tells
      <4>5. QED
        BY <1>1, <1>3, <2>3, <3>8, <4>2, <4>4
    <3>6. CASE i >= 3 /\ i = Len(u) - 1
      <4>1. arb_state = 6 /\ i + 1 = Len(u)
        BY <1>1, <1>3, <3>1, <3>6 DEF ArbAt
      <4>2. ArbAt(u, i + 1) = 0
        BY <4>1 DEF ArbAt
      <4>3. u[i + 1] = "SE"
        BY <3>1, <4>1
      <4>4. NextArb(u[i + 1]) = 0 /\ ~Handback(u[i + 1]) /\ Tells(u[i + 1])
        BY <4>1, <4>3 DEF NextArb, Handback, Tells
      <4>5. QED
        BY <1>1, <1>3, <2>3, <3>8, <4>2, <4>4
    <3>7. QED
      BY <3>2, <3>3, <3>4, <3>5, <3>6
  <2>8. i = 0 \/ i = 1 \/ i >= 2
    OBVIOUS
  <2>9. (i >= 2 => ~Command(u)) /\ Len(u) # 1
    BY <1>1, <1>3, <2>s, UnitBytes DEF Command, Request, Subnegotiation
  <2>10. Command(u) \/ Request(u) \/ Subnegotiation(u)
    BY <1>1, <1>3, UnitBytes
  <2>11. QED
    BY <2>4, <2>5, <2>6, <2>7, <2>8, <2>9, <2>10, <2>c
<1>4. QED
  BY <1>2, <1>3, <1>a

(* One byte more of a sequence, and what is in front of it. *)
LEMMA LongerBy ==
  ASSUME NEW S, NEW a \in Seq(S), NEW m \in Seq(S), NEW b \in S
  PROVE  /\ Longer(a \o Append(m, b), a \o m, b)
         /\ Longer((a \o m) \o <<b>>, a \o m, b)
<1>1. <<b>> \in Seq(S) /\ Append(m, b) = m \o <<b>>
  BY AppendIsConcat
<1>2. a \o m \in Seq(S)
  BY ConcatProperties
<1>3. Append(a \o m, b) = (a \o m) \o <<b>>
  BY <1>2, AppendIsConcat
<1>4. (a \o m) \o <<b>> = a \o (m \o <<b>>)
  BY <1>1, ConcatAssociative
<1>5. QED
  BY <1>1, <1>3, <1>4 DEF Longer

(* What the trap does with a byte that it keeps, that ends what it has      *)
(* caught, or that is none of its business.                                 *)
LEMMA TrapDoes ==
  ASSUME NEW b
  PROVE  LET T == Trapped(b)
             D == <<"ESC">> \o esc_message \o <<b>>
         IN /\ b = "ESC" => /\ T.trap = trap \cup {"esc"}
                            /\ T.message = <<>> /\ T.show = <<>>
            /\ b # "ESC" /\ Room /\ trap = {} =>
                 T.trap = {} /\ T.message = esc_message /\ T.show = <<b>>
            /\ b # "ESC" /\ Room /\ trap = {"esc"} /\ b \in Finals =>
                 T.trap = {} /\ T.message = <<>> /\ T.show = D
            /\ Room /\ trap = {"esc"} /\ b = "[" =>
                 T.trap = {"brack"} /\ T.message = Append(esc_message, b) /\ T.show = <<>>
            /\ b # "ESC" /\ Room /\ trap \in {{"brack"}, {"info"}} /\ b \in Params =>
                 T.trap = {"info"} /\ T.message = Append(esc_message, b) /\ T.show = <<>>
            /\ b # "ESC" /\ Room /\ trap \in {{"brack"}, {"info"}} /\ b \notin Params =>
                 T.trap = {} /\ T.message = <<>> /\ T.show = D
<1>1. "[" # "ESC" /\ "[" \notin Finals
  BY DEF Finals
<1>2. ASSUME b = "ESC"
      PROVE  Trapped(b).trap = trap \cup {"esc"} /\ Trapped(b).message = <<>>
             /\ Trapped(b).show = <<>>
  BY <1>2 DEF Trapped
<1>3. ASSUME b # "ESC", Room, trap = {}
      PROVE  Trapped(b).trap = {} /\ Trapped(b).message = esc_message /\ Trapped(b).show = <<b>>
  BY <1>3 DEF Trapped
<1>4. ASSUME b # "ESC", Room, trap = {"esc"}, b \in Finals
      PROVE  /\ Trapped(b).trap = {} /\ Trapped(b).message = <<>>
             /\ Trapped(b).show = <<"ESC">> \o esc_message \o <<b>>
  <2>1. "esc" \in trap /\ trap \ {"esc"} = {}
    BY <1>4
  <2>2. b # "["
    BY <1>1, <1>4
  <2>3. QED
    BY <1>4, <2>1, <2>2 DEF Trapped
<1>5. ASSUME Room, trap = {"esc"}, b = "["
      PROVE  /\ Trapped(b).trap = {"brack"} /\ Trapped(b).message = Append(esc_message, b)
             /\ Trapped(b).show = <<>>
  BY <1>1, <1>5 DEF Trapped
<1>6. ASSUME b # "ESC", Room, trap \in {{"brack"}, {"info"}}, b \in Params
      PROVE  /\ Trapped(b).trap = {"info"} /\ Trapped(b).message = Append(esc_message, b)
             /\ Trapped(b).show = <<>>
  BY <1>6 DEF Trapped
<1>7. ASSUME b # "ESC", Room, trap \in {{"brack"}, {"info"}}, b \notin Params
      PROVE  /\ Trapped(b).trap = {} /\ Trapped(b).message = <<>>
             /\ Trapped(b).show = <<"ESC">> \o esc_message \o <<b>>
  <2>1. CASE trap = {"brack"}
    <3>1. "esc" \notin trap /\ "brack" \in trap /\ trap \ {"brack"} = {}
      BY <2>1
    <3>2. QED
      BY <1>7, <3>1 DEF Trapped
  <2>2. CASE trap = {"info"}
    <3>1. "esc" \notin trap /\ "brack" \notin trap /\ "info" \in trap /\ trap \ {"info"} = {}
      BY <2>2
    <3>2. QED
      BY <1>7, <3>1 DEF Trapped
  <2>3. QED
    BY <1>7, <2>1, <2>2
<1>8. QED
  BY <1>2, <1>3, <1>4, <1>5, <1>6, <1>7

(* The trap and a unit that is text or an escape sequence: it keeps the     *)
(* byte for later or shows it with all it has caught, and when the unit     *)
(* ends nothing is left in it.                                              *)
LEMMA TrapStep ==
  ASSUME NEW u \in Units, NEW i \in Nat, i < Len(u), u[1] \in Low, NEW b, b = u[i + 1],
         TrapAt(trap, esc_message, u, i), trap \subseteq {"esc"} => esc_message = <<>>
  PROVE  LET T == Trapped(b)
         IN /\ i + 1 < Len(u) => TrapAt(T.trap, T.message, u, i + 1)
            /\ i + 1 = Len(u) => T.trap = {}
            /\ \/ /\ T.show = <<>>
                  /\ Longer(Caught(T.trap, T.message), Caught(trap, esc_message), b)
               \/ /\ T.trap = {}
                  /\ Longer(T.show, Caught(trap, esc_message), b)
<1> DEFINE T == Trapped(b)
           Holds == /\ i + 1 < Len(u) => TrapAt(T.trap, T.message, u, i + 1)
                    /\ i + 1 = Len(u) => T.trap = {}
                    /\ \/ /\ T.show = <<>>
                          /\ Longer(Caught(T.trap, T.message), Caught(trap, esc_message), b)
                       \/ /\ T.trap = {}
                          /\ Longer(T.show, Caught(trap, esc_message), b)
<1>1. /\ Len(u) \in Nat /\ Len(u) >= 1 /\ u \in Seq(Bytes) /\ b \in Bytes
      /\ Character(u) \/ Escape(u)
      /\ MaxEscSeq \in Nat /\ MaxEscSeq > 0
  <2>1. Len(u) \in Nat /\ Len(u) >= 1 /\ u \in Seq(Bytes) /\ \A at \in 1 .. Len(u) : u[at] \in Bytes
    BY UnitIs
  <2>2. Character(u) \/ Escape(u)
    BY UnitBytes
  <2>3. i + 1 \in 1 .. Len(u)
    BY <2>1
  <2>4. QED
    BY <2>1, <2>2, <2>3, Sizes
<1>2. b = "ESC" <=> i = 0 /\ Escape(u)
  <2>1. CASE Character(u)
    <3>1. i = 0 /\ b # "ESC" /\ ~Escape(u)
      BY <1>1, <2>1 DEF Character, Escape
    <3>2. QED
      BY <3>1
  <2>2. CASE Escape(u) /\ Len(u) = 2
    <3>1. u[1] = "ESC" /\ u[2] # "ESC"
      BY <2>2 DEF Escape, Finals
    <3>2. i = 0 \/ i = 1
      BY <1>1, <2>2
    <3>3. QED
      BY <2>2, <3>1, <3>2
  <2>3. CASE Escape(u) /\ Len(u) # 2
    <3>1. /\ u[1] = "ESC" /\ u[2] = "["
          /\ \A at \in 3 .. Len(u) - 1 : u[at] \in Params
          /\ u[Len(u)] \in Low \ (Params \cup {"ESC"})
      BY <2>3 DEF Escape
    <3>2. i = 0 \/ i + 1 = 2 \/ i + 1 \in 3 .. Len(u) - 1 \/ (i # 0 /\ i + 1 = Len(u))
      BY <1>1
    <3>3. i # 0 => b # "ESC"
      <4>1. CASE i + 1 \in 3 .. Len(u) - 1
        BY <3>1, <4>1 DEF Params
      <4>2. CASE i + 1 = 2
        BY <3>1, <4>2
      <4>3. CASE i # 0 /\ i + 1 = Len(u)
        <5>1. b = u[Len(u)]
          BY <4>3
        <5>2. QED
          BY <3>1, <5>1
      <4>4. QED
        BY <3>2, <4>1, <4>2, <4>3
    <3>4. i = 0 => b = "ESC"
      BY <3>1
    <3>5. QED
      BY <2>3, <3>3, <3>4
  <2>4. QED
    BY <1>1, <2>1, <2>2, <2>3
<1>3. CASE trap = {}
  <2>1. esc_message = <<>> /\ Caught(trap, esc_message) = <<>>
    BY <1>3 DEF Caught
  <2>2. Room
    BY <1>1, <2>1, NoBytes DEF Room
  <2>3. Longer(<<b>>, <<>>, b)
    BY DEF Longer
  <2>4. CASE b = "ESC"
    <3>1. T.trap = {"esc"} /\ T.message = <<>> /\ T.show = <<>>
      BY <1>3, <2>4, TrapDoes
    <3>2. i = 0 /\ Escape(u)
      BY <1>2, <2>4
    <3>3. i + 1 = 1 /\ Len(u) >= 2 /\ u[1] = "ESC"
      BY <1>1, <3>2 DEF Escape
    <3>4. SubSeq(u, 2, 1) = <<>>
      BY SubSeqEmpty
    <3>5. TrapAt(T.trap, T.message, u, 1)
      BY <1>1, <3>1, <3>3, <3>4 DEF TrapAt, Stage
    <3>6. Caught(T.trap, T.message) = <<b>>
      <4>1. <<"ESC">> \in Seq(Bytes)
        BY <1>1, <2>4
      <4>2. <<"ESC">> \o <<>> = <<"ESC">>
        BY <4>1, ConcatEmptySeq
      <4>3. QED
        BY <2>4, <3>1, <4>2 DEF Caught
    <3>7. Longer(Caught(T.trap, T.message), Caught(trap, esc_message), b)
      BY <2>1, <2>3, <3>6
    <3>8. QED
      BY <1>1, <3>1, <3>3, <3>5, <3>7
  <2>5. CASE b # "ESC"
    <3>1. T.trap = {} /\ T.show = <<b>>
      BY <1>3, <2>2, <2>5, TrapDoes
    <3>2. Longer(T.show, Caught(trap, esc_message), b)
      BY <2>1, <2>3, <3>1
    <3>3. TrapAt(T.trap, T.message, u, i + 1)
      BY <3>1 DEF TrapAt
    <3>4. QED
      BY <3>1, <3>2, <3>3
  <2>6. QED
    BY <2>4, <2>5
<1>4. CASE trap # {}
  <2>1. i >= 1 /\ u[1] = "ESC" /\ trap = Stage(i) /\ esc_message = SubSeq(u, 2, i)
    BY <1>4 DEF TrapAt
  <2>2. Escape(u) /\ b # "ESC"
    <3>1. ~Character(u)
      BY <2>1 DEF Character
    <3>2. QED
      BY <1>1, <1>2, <2>1, <3>1
  <2>3. esc_message \in Seq(Bytes) /\ Len(esc_message) = i - 1
    <3>1. \A at \in 2 .. i : u[at] \in Bytes
      BY <1>1, ElementOfSeq
    <3>2. QED
      BY <1>1, <2>1, <3>1, SubSeqProperties
  <2>4. Len(u) <= MaxEscSeq + 1
    <3>1. \A l \in Nat : l = 2 \/ l \in 3 .. MaxEscSeq + 1 => l <= MaxEscSeq + 1
      BY <1>1
    <3>2. Len(u) = 2 \/ Len(u) \in 3 .. MaxEscSeq + 1
      BY <2>2, Zenon DEF Escape
    <3>3. QED
      BY <1>1, <3>1, <3>2, Zenon
  <2>5. Room
    BY <1>1, <2>1, <2>3, <2>4 DEF Room
  <2>6. <<"ESC">> \in Seq(Bytes)
    BY DEF Bytes, Low
  <2>7. Caught(trap, esc_message) = <<"ESC">> \o esc_message
    BY <1>4 DEF Caught
  <2>8. ASSUME T.trap = {}, T.show = <<"ESC">> \o esc_message \o <<b>> PROVE Holds
    <3>1. Longer(T.show, Caught(trap, esc_message), b)
      <4> DEFINE a == <<"ESC">>  m == esc_message
      <4>1. a \in Seq(Bytes) /\ m \in Seq(Bytes) /\ b \in Bytes
        BY <1>1, <2>3, <2>6
      <4>2. T.show = (a \o m) \o <<b>> /\ Caught(trap, esc_message) = a \o m
        BY <2>7, <2>8
      <4> HIDE DEF a, m
      <4>3. Longer((a \o m) \o <<b>>, a \o m, b)
        BY <4>1, LongerBy
      <4>4. QED
        BY <4>2, <4>3
    <3>2. TrapAt(T.trap, T.message, u, i + 1)
      BY <2>8 DEF TrapAt
    <3>3. QED
      BY <2>8, <3>1, <3>2
  <2>9. ASSUME T.trap = Stage(i + 1), T.message = Append(esc_message, b), T.show = <<>>,
               i + 1 < Len(u)
        PROVE  Holds
    <3>1. T.message = SubSeq(u, 2, i + 1)
      <4>1. 2 \in 1 .. Len(u) /\ i + 1 \in 2 .. Len(u) /\ (i + 1) - 1 = i
        BY <1>1, <2>1, <2>9
      <4>2. SubSeq(u, 2, i + 1) = SubSeq(u, 2, i) \o <<u[i + 1]>>
        BY <1>1, <4>1, SubSeqRecursiveSecond
      <4>3. Append(esc_message, b) = esc_message \o <<b>>
        BY <1>1, <2>3, AppendIsConcat
      <4>4. QED
        BY <2>1, <2>9, <4>2, <4>3
    <3>2. T.trap # {}
      BY <2>9 DEF Stage
    <3>3. TrapAt(T.trap, T.message, u, i + 1)
      BY <2>1, <2>9, <3>1 DEF TrapAt
    <3>4. Caught(T.trap, T.message) = <<"ESC">> \o Append(esc_message, b)
      BY <2>9, <3>2 DEF Caught
    <3>5. Longer(Caught(T.trap, T.message), Caught(trap, esc_message), b)
      BY <1>1, <2>3, <2>6, <2>7, <3>4, LongerBy
    <3>6. QED
      BY <1>1, <2>9, <3>3, <3>5
  <2>10. CASE Len(u) = 2
    <3>1. i = 1 /\ b \in Finals
      BY <1>1, <2>1, <2>2, <2>10 DEF Escape
    <3>2. trap = {"esc"}
      BY <2>1, <3>1 DEF Stage
    <3>3. T.trap = {} /\ T.show = <<"ESC">> \o esc_message \o <<b>>
      BY <2>2, <2>5, <3>1, <3>2, TrapDoes
    <3>4. QED
      BY <2>8, <3>3
  <2>11. CASE Len(u) # 2
    <3>1. /\ u[2] = "[" /\ Len(u) >= 3
          /\ \A at \in 3 .. Len(u) - 1 : u[at] \in Params
          /\ u[Len(u)] \in Low \ (Params \cup {"ESC"})
      BY <2>2, <2>11 DEF Escape
    <3>2. CASE i = 1
      <4>1. trap = {"esc"} /\ b = "[" /\ Stage(i + 1) = {"brack"} /\ i + 1 < Len(u)
        BY <1>1, <2>1, <3>1, <3>2 DEF Stage
      <4>2. T.trap = {"brack"} /\ T.message = Append(esc_message, b) /\ T.show = <<>>
        BY <2>5, <4>1, TrapDoes
      <4>3. QED
        BY <2>9, <4>1, <4>2
    <3>3. CASE i >= 2
      <4>1. trap \in {{"brack"}, {"info"}} /\ Stage(i + 1) = {"info"}
        BY <2>1, <3>3 DEF Stage
      <4>2. CASE i + 1 = Len(u)
        <5>1. b \notin Params
          BY <3>1, <4>2
        <5>2. T.trap = {} /\ T.show = <<"ESC">> \o esc_message \o <<b>>
          BY <2>2, <2>5, <4>1, <5>1, TrapDoes
        <5>3. QED
          BY <2>8, <5>2
      <4>3. CASE i + 1 # Len(u)
        <5>1. i + 1 \in 3 .. Len(u) - 1 /\ i + 1 < Len(u)
          BY <1>1, <3>3, <4>3
        <5>2. b \in Params
          BY <3>1, <5>1
        <5>3. T.trap = {"info"} /\ T.message = Append(esc_message, b) /\ T.show = <<>>
          BY <2>2, <2>5, <4>1, <5>2, TrapDoes
        <5>4. QED
          BY <2>9, <4>1, <5>1, <5>3
      <4>4. QED
        BY <4>2, <4>3
    <3>4. QED
      BY <2>1, <3>2, <3>3
  <2>12. QED
    BY <2>10, <2>11
<1>5. QED
  BY <1>3, <1>4

-----------------------------------------------------------------------------
(* What the trap leaves. *)
LEMMA TrapLeaves ==
  ASSUME EscOK, NEW b \in Bytes, trap \subseteq {"esc"} => esc_message = <<>>
  PROVE  /\ Trapped(b).trap \subseteq {"esc"} => Trapped(b).message = <<>>
         /\ Trapped(b).show \in Seq(Bytes)
<1>1. \/ Trapped(b).message = <<>>
      \/ "brack" \in Trapped(b).trap
      \/ "info" \in Trapped(b).trap
      \/ /\ Trapped(b).message = esc_message
         /\ "brack" \notin trap /\ "info" \notin trap
  BY DEF Trapped
<1>2. <<"ESC">> \o esc_message \o <<b>> \in Seq(Bytes)
  <2>1. "ESC" \in Bytes
    BY DEF Bytes, Low
  <2>2. <<"ESC">> \in Seq(Bytes) /\ <<b>> \in Seq(Bytes) /\ esc_message \in Seq(Bytes)
    BY <2>1 DEF EscOK
  <2>3. <<"ESC">> \o esc_message \in Seq(Bytes)
    BY <2>2, ConcatProperties
  <2>4. QED
    BY <2>2, <2>3, ConcatProperties
<1>3. <<>> \in Seq(Bytes) /\ <<b>> \in Seq(Bytes)
  BY NoBytes
<1> DEFINE d == <<"ESC">> \o esc_message \o <<b>>
<1>4. Trapped(b).show = <<>> \/ Trapped(b).show = <<b>> \/ Trapped(b).show = d
  BY DEF Trapped
<1> HIDE DEF d
<1>5. d \in Seq(Bytes)
  BY <1>2 DEF d
<1>6. Trapped(b).show \in Seq(Bytes)
  BY <1>3, <1>4, <1>5
<1>7. trap \subseteq {"esc", "brack", "info"}
  BY DEF EscOK
<1>8. QED
  BY <1>1, <1>6, <1>7

(* Nothing has been caught when the trap is only waiting, and nothing is in *)
(* it while everything is shown.                                            *)
LEMMA NextQuiet ==
  ASSUME EscOK, EscOK', Quiet, [Next]_vars PROVE Quiet'
<1>0. <<>> \in Seq(Marks)
  BY NoBytes
<1>1. CASE UNCHANGED <<escVars, in_snoopymode>> /\ (clean' => clean)
            /\ (NoScreen \/ UNCHANGED screenVars)
  BY <1>0, <1>1 DEF Quiet
<1>2. CASE NewTerminalMode
  BY <1>0, <1>2 DEF Quiet, NewTerminalMode
<1>3. CASE CmdSnoopy
  <2>1. /\ in_snoopymode' = ~in_snoopymode /\ clean' = (clean /\ trap = {})
        /\ UNCHANGED <<escVars, screenVars>>
    BY <1>3, Zenon DEF CmdSnoopy
  <2>2. clean' => trap' = {}
    BY <2>1, Zenon
  <2>3. QED
    BY <2>1, <2>2 DEF Quiet
<1>v. CASE CmdVerbose
  BY <1>1, <1>v, Zenon DEF CmdVerbose
<1>4. CASE ArbByte
  <2>1. PICK b \in Bytes : shown' = shown \/ shown' = Append(shown, <<"hex", b>>)
    BY <1>4, Zenon DEF ArbByte
  <2>2. <<"hex", b>> \in Marks
    BY DEF Marks
  <2>3. shown' \in Seq(Marks)
    BY <2>1, <2>2, AppendProperties DEF Quiet
  <2>4. UNCHANGED <<escVars, in_snoopymode, clean>>
    BY <1>4, Zenon DEF ArbByte
  <2>5. told' \subseteq {FALSE} => notes' = <<>>
    <3>1. told' = told \cup {Show} /\ (notes' = notes \/ Show)
      BY <1>4, Zenon DEF ArbByte
    <3>2. told' \subseteq {FALSE} => told \subseteq {FALSE} /\ ~Show
      BY <3>1
    <3>3. QED
      BY <3>1, <3>2 DEF Quiet
  <2>6. QED
    BY <2>3, <2>4, <2>5 DEF Quiet
<1>5. CASE TextByte
  <2>1. PICK b \in Bytes :
          /\ IF in_snoopymode
             THEN shown' = Append(shown, <<"text", b>>) /\ UNCHANGED escVars
             ELSE /\ trap' = Trapped(b).trap /\ esc_message' = Trapped(b).message
                  /\ shown' = shown \o As("text", Trapped(b).show)
          /\ UNCHANGED <<in_snoopymode, clean, notes, told>>
    BY <1>5, Zenon DEF TextByte
  <2>2. CASE in_snoopymode
    <3>1. <<"text", b>> \in Marks
      BY DEF Marks
    <3>2. shown' \in Seq(Marks)
      BY SMTT(60), <2>1, <2>2, <3>1, AppendProperties DEF Quiet
    <3>3. QED
      BY <2>1, <2>2, <3>2 DEF Quiet
  <2>3. CASE ~in_snoopymode
    <3>1. Trapped(b).trap \subseteq {"esc"} => Trapped(b).message = <<>>
      BY TrapLeaves DEF Quiet
    <3>2. Trapped(b).show \in Seq(Bytes)
      BY TrapLeaves DEF Quiet
    <3>3. As("text", Trapped(b).show) \in Seq(Marks)
      BY <3>2, AsIs
    <3>4. shown' \in Seq(Marks)
      BY <2>1, <2>3, <3>3, ConcatProperties DEF Quiet
    <3>5. QED
      BY <2>1, <2>3, <3>1, <3>4 DEF Quiet
  <2>4. QED
    BY <2>2, <2>3
<1>6. CASE StartStep
  <2>1. CASE StartOpen
    BY <1>2, <2>1 DEF StartOpen
  <2>2. CASE StartFails \/ StartCommand
    BY <1>1, <2>2 DEF StartFails, StartCommand
  <2>3. QED
    BY <1>6, <2>1, <2>2 DEF StartStep
<1>7. CASE TerminalStep /\ ~ArbByte /\ ~TextByte
  <2>1. \/ Select \/ SelectTimeout \/ SelectException \/ StdinEnds \/ StdinBreak
        \/ StdinSend \/ Recv \/ RecvEnd \/ ArbCrash
    BY <1>7 DEF TerminalStep
  <2>2. CASE Select \/ Recv \/ ArbCrash \/ StdinBreak
    BY <1>1, <2>2 DEF Select, Recv, ArbCrash, StdinBreak
  <2>3. CASE SelectTimeout \/ SelectException \/ StdinEnds \/ RecvEnd
    BY <1>1, <2>3 DEF SelectTimeout, SelectException, StdinEnds, RecvEnd,
       CloseConnection, Forget
  <2>4. CASE StdinSend
    BY <1>1, <2>4, Zenon DEF StdinSend, CloseConnection, Forget
  <2>5. QED
    BY <2>1, <2>2, <2>3, <2>4
<1>8. CASE CommandStep /\ ~CmdSnoopy /\ ~CmdVerbose
  <2>1. \/ CmdHelp \/ CmdQuit \/ CmdReturn \/ CmdOpen \/ CmdClose \/ CmdCtrlC
    BY <1>8 DEF CommandStep
  <2>2. CASE CmdOpen
    BY <1>2, <2>2 DEF CmdOpen
  <2>3. CASE CmdHelp \/ CmdReturn \/ CmdCtrlC
    BY <1>1, <2>3 DEF CmdHelp, CmdReturn, CmdCtrlC
  <2>4. CASE CmdQuit \/ CmdClose
    BY <1>1, <2>4 DEF CmdQuit, CmdClose, CloseConnection, Forget
  <2>5. QED
    BY <2>1, <2>2, <2>3, <2>4
<1>9. CASE UserStep \/ RemoteStep \/ UNCHANGED vars
  BY <1>1, <1>9 DEF UserStep, CtrlC, TypeEof, Type, RemoteStep, RemoteUrgent,
                    RemoteCloses, RemoteSends, vars
<1>10. QED
  BY <1>3, <1>v, <1>4, <1>5, <1>6, <1>7, <1>8, <1>9 DEF Next

(* What a step does to what the position is about. *)
LEMMA WatchedStep ==
  ASSUME ControlOK, Watched', [Next]_vars
  PROVE  \/ NewTerminalMode
         \/ /\ Watched
            /\ \/ UNCHANGED <<units, ibuf, inc, arb_state, trap, esc_message, screenVars>>
               \/ \E u \in Units : RemoteSends(u)
               \/ Recv \/ (ArbByte /\ NextByte) \/ TextByte
<1> DEFINE Same == UNCHANGED <<units, ibuf, inc, arb_state, trap, esc_message, screenVars>>
<1>1. connection_opened' /\ clean' /\ pc' # "killed"
  BY DEF Watched
<1>s. ASSUME Same, UNCHANGED connection_opened, clean' => clean, pc # "killed"
      PROVE  Watched /\ Same
  BY <1>1, <1>s DEF Watched
<1> HIDE DEF Same
<1>2. CASE StartStep
  <2>1. CASE StartOpen
    BY <2>1 DEF StartOpen
  <2>2. CASE StartFails \/ StartCommand
    <3>1. pc = "start" /\ ibuf = <<>>
      BY <2>2 DEF StartFails, StartCommand, ControlOK
    <3>2. QED
      BY <1>1, <2>2, <3>1 DEF StartFails, StartCommand, CommandMode, Watched, Same
  <2>3. QED
    BY <1>2, <2>1, <2>2 DEF StartStep
<1>3. CASE TerminalStep
  <2>1. pc # "killed"
    BY <1>3, Zenon DEF TerminalStep, Select, SelectTimeout, SelectException, StdinEnds, StdinBreak,
       StdinSend, Recv, RecvEnd, ArbByte, ArbCrash, TextByte, AtByte
  <2>2. CASE SelectTimeout \/ SelectException \/ StdinEnds \/ RecvEnd
    BY <1>1, <2>2 DEF SelectTimeout, SelectException, StdinEnds, RecvEnd, CloseConnection
  <2>3. CASE ArbCrash
    BY <1>1, <2>3 DEF ArbCrash
  <2>4. CASE Select
    BY <1>1, <2>1, <2>4 DEF Select, Watched, Same
  <2>5. CASE StdinBreak
    <3>1. ibuf = <<>>
      BY <2>5 DEF StdinBreak, ControlOK
    <3>2. QED
      BY <1>1, <2>1, <2>5, <3>1 DEF StdinBreak, CommandMode, Watched, Same
  <2>6. CASE StdinSend
    <3>1. \/ pc' = "killed" \/ connection_opened' = FALSE
          \/ UNCHANGED <<ibuf, connVars, inc, units, screenVars>>
      BY <2>6, Zenon DEF StdinSend, CloseConnection
    <3>2. UNCHANGED <<arbVars, escVars, clean>>
      BY <2>6, Zenon DEF StdinSend
    <3>3. QED
      BY <1>1, <2>1, <3>1, <3>2 DEF Watched, Same
  <2>7. CASE Recv
    BY <1>1, <2>1, <2>7 DEF Recv, Watched
  <2>8. CASE ArbByte
    <3>1. pc' = "killed" \/ NextByte
      BY <2>8, Zenon DEF ArbByte
    <3>2. UNCHANGED <<connVars, clean>>
      BY <2>8, Zenon DEF ArbByte
    <3>3. QED
      BY <1>1, <2>1, <2>8, <3>1, <3>2 DEF Watched
  <2>9. CASE TextByte
    <3>1. UNCHANGED <<connVars, clean>>
      BY <2>9, Zenon DEF TextByte
    <3>2. QED
      BY <1>1, <2>1, <2>9, <3>1 DEF Watched
  <2>10. QED
    BY <1>3, <2>2, <2>3, <2>4, <2>5, <2>6, <2>7, <2>8, <2>9 DEF TerminalStep
<1>4. CASE CommandStep
  <2>1. pc = "command" /\ ibuf = <<>>
    BY <1>4 DEF CommandStep, CmdHelp, CmdQuit, CmdReturn, CmdOpen, CmdClose, CmdCtrlC, CmdSnoopy,
       CmdVerbose, Commanded, ControlOK
  <2>2. CASE CmdQuit \/ CmdClose
    BY <1>1, <2>2 DEF CmdQuit, CmdClose, CloseConnection
  <2>3. CASE CmdOpen
    BY <2>3 DEF CmdOpen
  <2>4. CASE CmdReturn
    BY <1>1, <2>1, <2>4 DEF CmdReturn, TerminalMode, Watched, Same
  <2>5. CASE CmdHelp \/ CmdCtrlC \/ CmdSnoopy \/ CmdVerbose
    <3>1. Same /\ UNCHANGED connection_opened /\ (clean' => clean)
      <4>1. CASE CmdHelp \/ CmdCtrlC \/ CmdVerbose
        BY <4>1 DEF CmdHelp, CmdCtrlC, CmdVerbose, Same
      <4>2. CASE CmdSnoopy
        BY <4>2, Zenon DEF CmdSnoopy, Same
      <4>3. QED
        BY <2>5, <4>1, <4>2
    <3>2. QED
      BY <1>s, <2>1, <3>1 DEF Same
  <2>6. QED
    BY <1>4, <2>2, <2>3, <2>4, <2>5 DEF CommandStep
<1>5. CASE UserStep \/ RemoteUrgent \/ RemoteCloses \/ UNCHANGED vars
  <2>1. Same /\ UNCHANGED <<connection_opened, clean>> /\ pc # "killed"
    <3>1. CASE CtrlC
      BY <3>1 DEF CtrlC, Same
    <3>2. CASE TypeEof \/ \E key \in Keys : Type(key)
      BY <3>2 DEF TypeEof, Type, Same
    <3>3. CASE RemoteUrgent \/ RemoteCloses
      BY <3>3 DEF RemoteUrgent, RemoteCloses, Same
    <3>4. CASE UNCHANGED vars
      BY <1>1, <3>4 DEF vars, Same
    <3>5. QED
      BY <1>5, <3>1, <3>2, <3>3, <3>4 DEF UserStep
  <2>2. QED
    BY <1>s, <2>1 DEF Same
<1>6. CASE \E u \in Units : RemoteSends(u)
  <2>1. PICK u \in Units : RemoteSends(u)
    BY <1>6
  <2>2. UNCHANGED <<connection_opened, clean>> /\ pc # "killed"
    BY <2>1 DEF RemoteSends
  <2>3. Watched
    BY <1>1, <2>2 DEF Watched
  <2>4. QED
    BY <1>6, <2>3
<1>7. QED
  BY <1>2, <1>3, <1>4, <1>5, <1>6 DEF Next, RemoteStep

-----------------------------------------------------------------------------
(* Where the parser and the trap are, at the position behind one byte more. *)
LEMMA NextPosition ==
  ASSUME NEW us \in Seq(Units), NEW n, NEW i, Position(us, n, i), n < Len(us),
         NEW u \in Units, u = us[n + 1], i < Len(u), NEW t, NEW m
  PROVE  LET N == NextUnit(us, n, i)
             I == NextSeen(us, n, i)
         IN /\ ArbAt(us[N + 1], I) = ArbAt(u, i + 1)
            /\ (i + 1 < Len(u) => TrapAt(t, m, u, i + 1)) /\ (i + 1 = Len(u) => t = {})
                 => TrapAt(t, m, us[N + 1], I)
<1>1. i \in Nat /\ Len(u) \in Nat
  BY UnitIs DEF Position
<1>2. CASE i + 1 = Len(u)
  <2>1. NextSeen(us, n, i) = 0
    BY <1>2 DEF NextSeen
  <2>2. ArbAt(u, i + 1) = 0 /\ \A v : ArbAt(v, 0) = 0
    BY <1>2 DEF ArbAt
  <2>3. QED
    BY <1>2, <2>1, <2>2 DEF TrapAt
<1>3. CASE i + 1 # Len(u)
  <2>1. NextSeen(us, n, i) = i + 1 /\ NextUnit(us, n, i) = n
    BY <1>3 DEF NextSeen, NextUnit
  <2>2. i + 1 < Len(u)
    BY <1>1, <1>3
  <2>3. QED
    BY <2>1, <2>2
<1>4. QED
  BY <1>2, <1>3

(* The next byte in the buffer is the next byte of the unit.  *)
LEMMA ByteSeen ==
  ASSUME NetOK, ControlOK, NEW n \in Nat, NEW i \in Nat, At(n, i), ibuf # <<>>
  PROVE  LET u == units[n + 1]
             N == NextUnit(units, n, i)
             I == NextSeen(units, n, i)
         IN /\ n < Len(units) /\ u \in Units /\ i < Len(u)
            /\ Head(ibuf) = u[i + 1]
            /\ Position(units, N, I) /\ N \in Nat /\ I \in Nat
            /\ Joined(Remaining(units, N, I), Tail(ibuf), inc)
<1> DEFINE x == Remaining(units, n, i)
<1>1. units \in Seq(Units) /\ Position(units, n, i) /\ Joined(x, ibuf, inc)
      /\ ibuf \in Seq(Bytes) /\ inc \in Seq(Bytes)
  BY DEF NetOK, ControlOK, At
<1> HIDE DEF x
<1>2. ibuf \o inc # <<>> /\ Head(ibuf \o inc) = Head(ibuf) /\ Tail(ibuf \o inc) = Tail(ibuf) \o inc
  BY <1>1, TailOfConcat
<1>3. x # <<>> /\ Head(x) = Head(ibuf) /\ Joined(Tail(x), Tail(ibuf), inc)
  BY <1>1, <1>2 DEF Joined
<1>4. /\ n < Len(units) /\ units[n + 1] \in Units /\ i < Len(units[n + 1])
      /\ Head(x) = units[n + 1][i + 1]
      /\ Position(units, NextUnit(units, n, i), NextSeen(units, n, i))
      /\ Tail(x) = Remaining(units, NextUnit(units, n, i), NextSeen(units, n, i))
  BY <1>1, <1>3, RemainingStep DEF x
<1>5. NextUnit(units, n, i) \in Nat /\ NextSeen(units, n, i) \in Nat
  BY DEF NextUnit, NextSeen
<1>6. QED
  BY <1>3, <1>4, <1>5

(* A new connection. *)
LEMMA AtNew ==
  ASSUME NewTerminalMode PROVE InStep'
<1> SUFFICES ASSUME Watched' PROVE At(0, 0)'
  BY DEF InStep
<1>1. /\ units' = <<>> /\ ibuf' = <<>> /\ inc' = <<>> /\ shown' = <<>>
      /\ notes' = <<>>
      /\ UNCHANGED <<arb_state, trap, esc_message>>
      /\ clean' = (arb_state = 0 /\ trap = {})
  BY DEF NewTerminalMode, TerminalMode
<1>2. arb_state' = 0 /\ trap' = {}
  BY <1>1 DEF Watched
<1>3. <<>> \in Seq(Units) /\ Len(<<>>) = 0 /\ <<>> \in Seq(Bytes) /\ <<>> \in Seq(Marks)
  BY NoBytes
<1>4. Position(<<>>, 0, 0)
  BY <1>3 DEF Position
<1>5. Remaining(<<>>, 0, 0) = <<>>
  BY <1>3, <1>4, RemainingIs
<1>6. Heard(<<>>, 0, 0) = <<>>
  <2>1. 0 \in 0 .. Len(<<>>)
    BY <1>3
  <2>2. SaidTo(<<>>, 0) = <<>>
    BY <1>3, <2>1, SaidIs
  <2>3. QED
    BY <2>2 DEF Heard
<1>7. As("text", <<>>) = <<>>
  <2>1. As("text", <<>>) \in Seq(Marks) /\ Len(As("text", <<>>)) = 0
    BY <1>3, AsIs
  <2>2. QED
    BY <2>1, EmptySeq
<1>8. <<>> \o <<>> = <<>>
  BY <1>3, ConcatEmptySeq
<1>9. Position(units', 0, 0)
  BY <1>1, <1>4
<1>10. Joined(Remaining(units', 0, 0), ibuf', inc')
  BY <1>1, <1>5, <1>8 DEF Joined
<1>11. arb_state' = ArbAt(units'[0 + 1], 0)
  BY <1>2 DEF ArbAt
<1>12. TrapAt(trap', esc_message', units'[0 + 1], 0)
  BY <1>2 DEF TrapAt
<1>13. Joined(Heard(units', 0, 0), shown', As("text", Caught(trap', esc_message')))
  BY <1>1, <1>2, <1>6, <1>7, <1>8 DEF Joined, Caught
<1>14. notes' = Noticed(units', 0, 0)
  <2>1. 0 \in 0 .. Len(<<>>)
    BY <1>3
  <2>2. NotesTo(<<>>, 0) = <<>>
    BY <1>3, <2>1, NotesSum
  <2>3. QED
    BY <1>1, <2>2 DEF Noticed
<1>15. QED
  BY <1>9, <1>10, <1>11, <1>12, <1>13, <1>14 DEF At

(* Another unit is sent: the position is the same. *)
LEMMA AtSends ==
  ASSUME NetOK, ControlOK, NEW n \in Nat, NEW i \in Nat, At(n, i),
         NEW v \in Units, RemoteSends(v)
  PROVE  At(n, i)'
<1>1. /\ inc' = inc \o v /\ units' = Append(units, v)
      /\ UNCHANGED <<ibuf, arb_state, trap, esc_message, screenVars>>
  BY DEF RemoteSends
<1>2. /\ units \in Seq(Units) /\ Position(units, n, i)
      /\ ibuf \in Seq(Bytes) /\ inc \in Seq(Bytes) /\ v \in Seq(Bytes)
  BY UnitIs DEF NetOK, ControlOK, At
<1> DEFINE us == Append(units, v)
<1>3. Position(us, n, i) /\ Joined(Remaining(us, n, i), Remaining(units, n, i), v)
  BY <1>2, RemainingGrows
<1>4. i # 0 => us[n + 1] = units[n + 1]
  <2>1. i # 0 => n + 1 \in 1 .. Len(units)
    BY <1>2, LenProperties DEF Position
  <2>2. QED
    BY <1>2, <2>1, AppendProperties
<1>5. Heard(us, n, i) = Heard(units, n, i) /\ Noticed(us, n, i) = Noticed(units, n, i)
  <2>1. SaidTo(us, n) = SaidTo(units, n)
    BY <1>2, SaidIs DEF Position
  <2>2. NotesTo(us, n) = NotesTo(units, n)
    BY <1>2, NotesSum DEF Position
  <2>3. QED
    BY <1>4, <2>1, <2>2 DEF Heard, Noticed
<1>6. ArbAt(us[n + 1], i) = ArbAt(units[n + 1], i)
  BY <1>4 DEF ArbAt
<1>7. TrapAt(trap, esc_message, us[n + 1], i)
  <2>1. TrapAt(trap, esc_message, units[n + 1], i)
    BY DEF At
  <2>2. CASE i = 0
    BY <2>1, <2>2 DEF TrapAt
  <2>3. CASE i # 0
    BY <1>4, <2>1, <2>3
  <2>4. QED
    BY <2>2, <2>3
<1> HIDE DEF us
<1>8. Joined(Remaining(us, n, i), ibuf, inc')
  <2> DEFINE z == Remaining(us, n, i)  x == Remaining(units, n, i)  y == inc'
  <2>1. Joined(z, x, v) /\ Joined(x, ibuf, inc) /\ Joined(y, inc, v)
    BY <1>1, <1>3 DEF At, Joined
  <2> HIDE DEF x, y, z
  <2>2. Joined(z, ibuf, y)
    BY <1>2, <2>1, Regroup
  <2>3. QED
    BY <2>2 DEF y, z
<1>9. us = units'
  BY <1>1 DEF us
<1>10. QED
  BY <1>1, <1>3, <1>5, <1>6, <1>7, <1>8, <1>9 DEF At

(* recv() takes what it takes: the position is the same. *)
LEMMA AtRecv ==
  ASSUME NetOK, ControlOK, NEW n \in Nat, NEW i \in Nat, At(n, i), Recv
  PROVE  At(n, i)'
<1>1. PICK at \in 1 .. Len(inc) : at <= SockRead /\ ibuf' = First(inc, at) /\ inc' = After(inc, at)
  BY DEF Recv
<1>2. inc \in Seq(Bytes) /\ Len(inc) \in Nat /\ at \in Nat /\ at <= Len(inc)
  BY LenProperties DEF NetOK
<1>3. ibuf = <<>> /\ UNCHANGED <<units, arb_state, trap, esc_message, screenVars>>
  BY DEF Recv
<1>4. Joined(inc, ibuf', inc')
  <2>1. ibuf' = SubSeq(inc, 1, at)
    BY <1>1, <1>2 DEF First
  <2>2. inc' = SubSeq(inc, at + 1, Len(inc))
    BY <1>1 DEF After
  <2>3. /\ 1 \in 1 .. Len(inc) + 1 /\ at \in 1 - 1 .. Len(inc) /\ Len(inc) \in at .. Len(inc)
    BY <1>2
  <2>4. SubSeq(inc, 1, at) \o SubSeq(inc, at + 1, Len(inc)) = SubSeq(inc, 1, Len(inc))
    BY <1>2, <2>3, ConcatAdjacentSubSeq
  <2>5. SubSeq(inc, 1, Len(inc)) = inc
    BY <1>2, SubSeqFull
  <2>6. QED
    BY <2>1, <2>2, <2>4, <2>5 DEF Joined
<1>5. Remaining(units, n, i) = inc
  <2>1. Joined(Remaining(units, n, i), ibuf, inc)
    BY DEF At
  <2>2. <<>> \o inc = inc
    BY <1>2, ConcatEmptySeq
  <2>3. QED
    BY <1>3, <2>1, <2>2 DEF Joined
<1>6. Joined(Remaining(units', n, i), ibuf', inc')
  BY <1>3, <1>4, <1>5
<1>7. QED
  BY <1>3, <1>6 DEF At

(* telnet_arb() takes the next byte of a unit that is not text. *)
LEMMA AtArb ==
  ASSUME NetOK, ControlOK, Quiet, NEW n \in Nat, NEW i \in Nat, At(n, i), ArbByte, NextByte
  PROVE  \E N, I \in Nat : At(N, I)'
<1> DEFINE u == units[n + 1]
<1>n. NextUnit(units, n, i) \in Nat /\ NextSeen(units, n, i) \in Nat
  BY DEF NextUnit, NextSeen
<1>p. PICK N \in Nat, I \in Nat : N = NextUnit(units, n, i) /\ I = NextSeen(units, n, i)
  BY <1>n
<1>1. PICK b \in Bytes :
        /\ AtByte(b) /\ ForArb(b) /\ arb_state' = NextArb(b)
        /\ shown' = IF Handback(b) THEN Append(shown, <<"hex", b>>) ELSE shown
        /\ notes' = IF Show /\ Tells(b) THEN Append(notes, <<Len(shown), b>>) ELSE notes
        /\ told' = told \cup {Show}
        /\ UNCHANGED <<escVars, inc, units>>
  BY Zenon DEF ArbByte
<1>2. ibuf # <<>> /\ b = Head(ibuf) /\ ibuf' = Tail(ibuf)
  BY <1>1 DEF AtByte, NextByte
<1>3. /\ n < Len(units) /\ u \in Units /\ i < Len(u) /\ b = u[i + 1]
      /\ Position(units, N, I)
      /\ Joined(Remaining(units, N, I), Tail(ibuf), inc)
  BY <1>2, <1>p, ByteSeen
<1>4. /\ units \in Seq(Units) /\ Position(units, n, i)
      /\ arb_state = ArbAt(u, i) /\ TrapAt(trap, esc_message, u, i)
      /\ Joined(Heard(units, n, i), shown, As("text", Caught(trap, esc_message)))
  BY DEF NetOK, At
<1> HIDE DEF u
<1>5. /\ u[1] \notin Low /\ arb_state' = ArbAt(u, i + 1)
      /\ Handback(b) <=> HandsBack(u, i + 1)
      /\ Tells(b) <=> HasNote(u, i + 1)
  BY <1>1, <1>3, <1>4, ArbStep
<1>6. trap = {}
  <2>1. "ESC" \in Low
    BY DEF Low
  <2>2. QED
    BY <1>4, <1>5, <2>1 DEF TrapAt
<1>s. As("text", Caught(trap, esc_message)) = <<>>
  <2>1. <<>> \in Seq(Bytes) /\ Len(<<>>) = 0
    BY NoBytes
  <2>2. As("text", <<>>) \in Seq(Marks) /\ Len(As("text", <<>>)) = 0
    BY <2>1, AsIs
  <2>3. As("text", <<>>) = <<>>
    BY <2>2, EmptySeq
  <2>4. QED
    BY <1>6, <2>3 DEF Caught
<1>h. /\ Heard(units, n, i) = SaidTo(units, n)
      /\ Heard(units, N, I)
           = IF HandsBack(u, i + 1) THEN Append(Heard(units, n, i), <<"hex", b>>)
             ELSE Heard(units, n, i)
  BY <1>3, <1>4, <1>5, <1>p, HeardStep DEF u
<1>w. shown = Heard(units, n, i) /\ shown \in Seq(Marks)
  <2>1. shown \in Seq(Marks)
    BY DEF Quiet
  <2>2. shown \o <<>> = shown
    BY <2>1, ConcatEmptySeq
  <2>3. QED
    BY <1>4, <1>s, <2>1, <2>2 DEF Joined
<1>7. Joined(Heard(units, N, I), shown', As("text", Caught(trap, esc_message)))
  <2>1. shown' = Heard(units, N, I)
    BY <1>1, <1>5, <1>h, <1>w
  <2>2. shown' \in Seq(Marks)
    <3>1. <<"hex", b>> \in Marks
      BY DEF Marks
    <3>2. QED
      BY <1>1, <1>w, <3>1, AppendProperties
  <2>3. shown' \o <<>> = shown'
    BY <2>2, ConcatEmptySeq
  <2>4. QED
    BY <1>s, <2>1, <2>3 DEF Joined
<1>t. told' \subseteq {TRUE} => notes' = Noticed(units, N, I)
  <2> SUFFICES ASSUME told' \subseteq {TRUE} PROVE notes' = Noticed(units, N, I)
    OBVIOUS
  <2>1. told \subseteq {TRUE} /\ Show
    BY <1>1
  <2>2. notes = Noticed(units, n, i)
    BY <2>1 DEF At
  <2>3. Noticed(units, N, I)
          = IF HasNote(u, i + 1) THEN Append(Noticed(units, n, i), <<Len(SaidTo(units, n)), b>>)
            ELSE Noticed(units, n, i)
    BY <1>3, <1>4, <1>p, NotesStep DEF u
  <2>4. Len(shown) = Len(SaidTo(units, n))
    BY <1>h, <1>w
  <2>5. QED
    BY <1>1, <1>5, <2>1, <2>2, <2>3, <2>4
<1>8. ArbAt(units[N + 1], I) = ArbAt(u, i + 1)
  BY <1>3, <1>4, <1>p, NextPosition DEF u
<1>9. TrapAt(trap, esc_message, units[N + 1], I)
  BY <1>6 DEF TrapAt
<1>10. At(N, I)'
  BY <1>1, <1>2, <1>3, <1>4, <1>5, <1>7, <1>8, <1>9, <1>t DEF At
<1>11. QED
  BY <1>10

(* The screen and what the trap has caught, when one byte more has been     *)
(* heard: it is caught, or shown behind what was.                           *)
LEMMA HeardKept ==
  ASSUME NEW s \in Seq(Marks), NEW c \in Seq(Bytes), NEW b \in Bytes,
         NEW h, NEW g, NEW t, NEW d, NEW e,
         Joined(h, s, As("text", c)), Longer(g, h, <<"text", b>>), Joined(t, s, As("text", d)),
         \/ d = <<>> /\ Longer(e, c, b)
         \/ e = <<>> /\ Longer(d, c, b)
  PROVE  Joined(g, t, As("text", e))
<1> DEFINE m == <<"text", b>>  a == As("text", c)
<1>1. a \in Seq(Marks) /\ m \in Marks /\ As("text", Append(c, b)) = Append(a, m)
  BY AsIs
<1>2. Longer(s \o Append(a, m), s \o a, m)
  BY <1>1, LongerBy
<1> HIDE DEF m
<1>3. g = s \o Append(a, m)
  BY <1>2 DEF Joined, Longer, m
<1>4. As("text", <<>>) = <<>>
  <2>1. <<>> \in Seq(Bytes) /\ Len(<<>>) = 0
    BY EmptySeq
  <2>2. As("text", <<>>) \in Seq(Marks) /\ Len(As("text", <<>>)) = 0
    BY <2>1, AsIs
  <2>3. QED
    BY <2>2, EmptySeq
<1> HIDE DEF a
<1>5. CASE d = <<>> /\ Longer(e, c, b)
  <2>1. t = s
    <3>1. s \o <<>> = s
      BY ConcatEmptySeq
    <3>2. QED
      BY <1>4, <1>5, <3>1 DEF Joined
  <2>2. As("text", e) = Append(a, m)
    BY <1>1, <1>5 DEF Longer
  <2>3. QED
    BY <1>3, <2>1, <2>2 DEF Joined
<1>6. CASE e = <<>> /\ Longer(d, c, b)
  <2>1. As("text", d) = Append(a, m)
    BY <1>1, <1>6 DEF Longer
  <2>2. t = g
    BY <1>3, <2>1 DEF Joined
  <2>3. g \in Seq(Marks)
    <3>1. Append(a, m) \in Seq(Marks)
      BY <1>1, AppendProperties
    <3>2. QED
      BY <1>3, <3>1, ConcatProperties
  <2>4. g \o <<>> = g
    BY <2>3, ConcatEmptySeq
  <2>5. QED
    BY <1>4, <1>6, <2>2, <2>4 DEF Joined
<1>7. QED
  BY <1>5, <1>6

(* The trap, or the screen, takes the next byte of a unit that does not. *)
LEMMA AtText ==
  ASSUME IInv, Quiet, clean, NEW n \in Nat, NEW i \in Nat, At(n, i), TextByte
  PROVE  \E N, I \in Nat : At(N, I)'
<1> DEFINE u == units[n + 1]  c == Caught(trap, esc_message)
<1>n. NextUnit(units, n, i) \in Nat /\ NextSeen(units, n, i) \in Nat
  BY DEF NextUnit, NextSeen
<1>p. PICK N \in Nat, I \in Nat : N = NextUnit(units, n, i) /\ I = NextSeen(units, n, i)
  BY <1>n
<1>0. NetOK /\ ControlOK /\ EscOK
  BY DEF IInv
<1>1. PICK b \in Bytes :
        /\ AtByte(b) /\ ~ForArb(b)
        /\ IF in_snoopymode
           THEN shown' = Append(shown, <<"text", b>>) /\ UNCHANGED escVars
           ELSE /\ trap' = Trapped(b).trap /\ esc_message' = Trapped(b).message
                /\ shown' = shown \o As("text", Trapped(b).show)
        /\ NextByte /\ UNCHANGED <<arb_state, inc, units, notes, told>>
  BY Zenon DEF TextByte
<1>2. ibuf # <<>> /\ b = Head(ibuf) /\ ibuf' = Tail(ibuf)
  BY <1>1 DEF AtByte, NextByte
<1>3. /\ n < Len(units) /\ u \in Units /\ i < Len(u) /\ b = u[i + 1]
      /\ Position(units, N, I)
      /\ Joined(Remaining(units, N, I), Tail(ibuf), inc)
  BY <1>0, <1>2, <1>p, ByteSeen
<1>4. /\ units \in Seq(Units) /\ Position(units, n, i)
      /\ arb_state = ArbAt(u, i) /\ TrapAt(trap, esc_message, u, i)
      /\ Joined(Heard(units, n, i), shown, As("text", c))
  BY <1>0 DEF NetOK, At
<1>5. /\ shown \in Seq(Marks)
      /\ trap \subseteq {"esc"} => esc_message = <<>>
      /\ in_snoopymode => trap = {}
  BY DEF Quiet
<1>6. c \in Seq(Bytes)
  <2>1. <<"ESC">> \in Seq(Bytes) /\ <<>> \in Seq(Bytes) /\ esc_message \in Seq(Bytes)
    BY <1>0, NoBytes DEF EscOK, Bytes, Low
  <2>2. <<"ESC">> \o esc_message \in Seq(Bytes)
    BY <2>1, ConcatProperties
  <2>3. QED
    BY <2>1, <2>2 DEF Caught
<1> HIDE DEF u, c
<1>7. u[1] \in Low /\ arb_state' = ArbAt(u, i + 1)
  BY <1>1, <1>3, <1>4, ArbStep
<1>8. Longer(Heard(units, N, I), Heard(units, n, i), <<"text", b>>)
  BY <1>3, <1>4, <1>7, <1>p, HeardStep DEF u, Longer
<1>9. ArbAt(units[N + 1], I) = ArbAt(u, i + 1)
  BY <1>3, <1>4, <1>p, NextPosition DEF u
<1>10. /\ TrapAt(trap', esc_message', units[N + 1], I)
       /\ Joined(Heard(units, N, I), shown', As("text", Caught(trap', esc_message')))
  <2>1. CASE in_snoopymode
    <3>1. trap = {} /\ trap' = {} /\ c = <<>> /\ Caught(trap', esc_message') = <<>>
      BY <1>1, <1>5, <2>1 DEF Caught, c
    <3>2. Joined(shown', shown, As("text", <<b>>))
      <4>1. As("text", <<b>>) = <<<<"text", b>>>>
        BY DEF As
      <4>2. <<"text", b>> \in Marks
        BY DEF Marks
      <4>3. Append(shown, <<"text", b>>) = shown \o <<<<"text", b>>>>
        BY <1>5, <4>2, AppendIsConcat
      <4>4. QED
        BY <1>1, <2>1, <4>1, <4>3 DEF Joined
    <3>3. Longer(<<b>>, c, b)
      BY <3>1 DEF Longer
    <3>4. Joined(Heard(units, N, I), shown', As("text", <<>>))
      BY <1>4, <1>5, <1>6, <1>8, <3>2, <3>3, HeardKept
    <3>5. QED
      BY <3>1, <3>4 DEF TrapAt
  <2>2. CASE ~in_snoopymode
    <3> DEFINE T == Trapped(b)  at == Caught(T.trap, T.message)
    <3>1. /\ i + 1 < Len(u) => TrapAt(T.trap, T.message, u, i + 1)
          /\ i + 1 = Len(u) => T.trap = {}
          /\ \/ T.show = <<>> /\ Longer(at, c, b)
             \/ T.trap = {} /\ Longer(T.show, c, b)
      <4>1. LET X == Trapped(b)
            IN /\ i + 1 < Len(u) => TrapAt(X.trap, X.message, u, i + 1)
               /\ i + 1 = Len(u) => X.trap = {}
               /\ \/ /\ X.show = <<>>
                     /\ Longer(Caught(X.trap, X.message), Caught(trap, esc_message), b)
                  \/ /\ X.trap = {}
                     /\ Longer(X.show, Caught(trap, esc_message), b)
        BY <1>3, <1>4, <1>5, <1>7, TrapStep
      <4>2. QED
        BY <4>1 DEF c
    <3>2. T.trap = {} => at = <<>>
      BY DEF Caught
    <3>3. TrapAt(T.trap, T.message, units[N + 1], I)
      BY <1>3, <1>4, <3>1, <1>p, NextPosition DEF u
    <3>4. /\ trap' = T.trap /\ esc_message' = T.message
          /\ Joined(shown', shown, As("text", T.show))
      BY <1>1, <2>2 DEF Joined
    <3> HIDE DEF T, at
    <3>5. Joined(Heard(units, N, I), shown', As("text", at))
      BY <1>4, <1>5, <1>6, <1>8, <3>1, <3>2, <3>4, HeardKept
    <3>6. QED
      BY <3>3, <3>4, <3>5 DEF at
  <2>3. QED
    BY <2>1, <2>2
<1>t. told \subseteq {TRUE} => notes = Noticed(units, N, I)
  <2>1. ~HasNote(u, i + 1)
    BY <1>7 DEF HasNote, Low, Options, Finals, Params
  <2>2. Noticed(units, N, I) = Noticed(units, n, i)
    BY <1>3, <1>4, <1>p, <2>1, NotesStep DEF u
  <2>3. QED
    BY <2>2 DEF At
<1>11. At(N, I)'
  BY <1>1, <1>2, <1>3, <1>7, <1>9, <1>10, <1>t DEF At
<1>12. QED
  BY <1>11

-----------------------------------------------------------------------------
(* The invariant: the stream is cut into what has been seen and what        *)
(* remains of it, and the parser, the trap and the screen are where the     *)
(* units seen so far leave them.                                            *)
StreamInv == IInv /\ Quiet /\ InStep

(* When nothing remains, the screen shows what the units say. *)
THEOREM StreamImplies == StreamInv => TextShown
<1> SUFFICES ASSUME StreamInv, AllReceived, clean
             PROVE  /\ arb_state = 0 /\ trap = {}
                    /\ shown = SaidTo(units, Len(units))
                    /\ told \subseteq {TRUE} => notes = NotesTo(units, Len(units))
                    /\ told \subseteq {FALSE} => notes = <<>>
  BY DEF TextShown
<1>1. Watched /\ inc = <<>> /\ ibuf = <<>> /\ NetOK /\ shown \in Seq(Marks)
  BY DEF AllReceived, Watched, StreamInv, IInv, Quiet
<1>2. PICK n, i \in Nat : At(n, i)
  BY <1>1 DEF StreamInv, InStep
<1>3. units \in Seq(Units) /\ Position(units, n, i) /\ Len(units) \in Nat
  BY <1>1, <1>2, LenProperties DEF NetOK, At
<1>4. Remaining(units, n, i) = <<>>
  <2>1. Joined(Remaining(units, n, i), <<>>, <<>>)
    BY <1>1, <1>2 DEF At
  <2>2. <<>> \in Seq(Bytes)
    BY NoBytes
  <2>3. <<>> \o <<>> = <<>>
    BY <2>2, ConcatEmptySeq
  <2>4. QED
    BY <2>1, <2>3 DEF Joined
<1>5. ~(n < Len(units))
  <2> SUFFICES ASSUME n < Len(units) PROVE FALSE
    OBVIOUS
  <2>1. /\ Rest(units, n, i) \in Seq(Bytes) /\ Rest(units, n, i) # <<>>
        /\ Later(units, n) \in Seq(Bytes)
        /\ Joined(Remaining(units, n, i), Rest(units, n, i), Later(units, n))
    BY <1>3, RemainingIs
  <2>2. Rest(units, n, i) \o Later(units, n) # <<>>
    BY <2>1, TailOfConcat
  <2>3. QED
    BY <1>4, <2>1, <2>2 DEF Joined
<1>6. n = Len(units) /\ i = 0
  <2>1. n = Len(units)
    BY <1>3, <1>5 DEF Position
  <2>2. QED
    BY <1>3, <2>1, RemainingIs
<1>7. arb_state = 0 /\ trap = {}
  BY <1>2, <1>6 DEF At, ArbAt, TrapAt
<1>8. Heard(units, n, i) = SaidTo(units, Len(units))
  BY <1>6 DEF Heard
<1>9. Joined(Heard(units, n, i), shown, <<>>)
  <2>1. As("text", Caught(trap, esc_message)) = <<>>
    <3>1. <<>> \in Seq(Bytes) /\ Len(<<>>) = 0
      BY NoBytes
    <3>2. As("text", <<>>) \in Seq(Marks) /\ Len(As("text", <<>>)) = 0
      BY <3>1, AsIs
    <3>3. As("text", <<>>) = <<>>
      BY <3>2, EmptySeq
    <3>4. QED
      BY <1>7, <3>3 DEF Caught
  <2>2. QED
    BY <1>2, <2>1 DEF At
<1>10. shown \o <<>> = shown
  BY <1>1, ConcatEmptySeq
<1>11. /\ told \subseteq {TRUE} => notes = NotesTo(units, Len(units))
       /\ told \subseteq {FALSE} => notes = <<>>
  BY <1>2, <1>6 DEF At, Noticed, Quiet, StreamInv
<1>12. QED
  BY <1>7, <1>8, <1>9, <1>10, <1>11 DEF Joined

(* Every step keeps the position in the stream. *)
LEMMA NextInStep ==
  ASSUME IInv, Quiet, InStep, [Next]_vars PROVE InStep'
<1>0. NetOK /\ ControlOK
  BY DEF IInv
<1> SUFFICES ASSUME Watched' PROVE InStep'
  BY DEF InStep
<1>1. CASE NewTerminalMode
  BY <1>1, AtNew
<1>2. CASE Watched
  <2>1. PICK n, i \in Nat : At(n, i)
    BY <1>2 DEF InStep
  <2>2. CASE UNCHANGED <<units, ibuf, inc, arb_state, trap, esc_message, screenVars>>
    <3>1. At(n, i)'
      BY <2>1, <2>2 DEF At
    <3>2. QED
      BY <3>1 DEF InStep
  <2>3. CASE \E u \in Units : RemoteSends(u)
    <3>1. At(n, i)'
      BY <1>0, <2>1, <2>3, AtSends
    <3>2. QED
      BY <3>1 DEF InStep
  <2>4. CASE Recv
    <3>1. At(n, i)'
      BY <1>0, <2>1, <2>4, AtRecv
    <3>2. QED
      BY <3>1 DEF InStep
  <2>5. CASE ArbByte /\ NextByte
    <3>1. \E N, I \in Nat : At(N, I)'
      BY <1>0, <2>1, <2>5, AtArb
    <3>2. QED
      BY <3>1 DEF InStep
  <2>6. CASE TextByte
    <3>1. clean
      BY <1>2 DEF Watched
    <3>2. \E N, I \in Nat : At(N, I)'
      BY <2>1, <2>6, <3>1, AtText
    <3>3. QED
      BY <3>2 DEF InStep
  <2>7. QED
    BY <1>0, <1>1, <2>2, <2>3, <2>4, <2>5, <2>6, WatchedStep
<1>3. QED
  BY <1>0, <1>1, <1>2, WatchedStep

(* TextShown, for every set of whole units, however recv() cuts the stream  *)
(* and whatever sizes the buffers have: once all is received telnet_arb()   *)
(* and the ESCape trap wait for a new unit, the screen shows the text of    *)
(* the units, each byte once and in order, and in snoopy or verbose mode    *)
(* every piece of the negotiation, once and in its place                    *)
(* (s_tlnt.c:651-712, 1112-1350).                                           *)
THEOREM TextIsShown == Spec => []TextShown
<1>1. Init => StreamInv
  <2> SUFFICES ASSUME Init PROVE StreamInv
    OBVIOUS
  <2>1. IInv
    BY InitIInv
  <2>2. Quiet
    <3>1. shown = <<>> /\ notes = <<>> /\ trap = {} /\ esc_message = <<>>
      BY DEF Init
    <3>2. <<>> \in Seq(Marks)
      BY NoBytes
    <3>3. QED
      BY <3>1, <3>2 DEF Quiet
  <2>3. InStep
    BY DEF Init, InStep, Watched
  <2>4. QED
    BY <2>1, <2>2, <2>3 DEF StreamInv
<1>2. StreamInv /\ [Next]_vars => StreamInv'
  <2> SUFFICES ASSUME StreamInv, [Next]_vars PROVE StreamInv'
    OBVIOUS
  <2>1. IInv'
    BY NextControl, NextBooleans, NextSocket, NextArbOK, NextEsc, NextNet, NextSent
       DEF StreamInv, IInv
  <2>2. Quiet'
    BY <2>1, NextQuiet DEF StreamInv, IInv
  <2>3. InStep'
    BY NextInStep DEF StreamInv
  <2>4. QED
    BY <2>1, <2>2, <2>3 DEF StreamInv
<1>3. QED
  BY <1>1, <1>2, StreamImplies, PTL DEF Spec
=============================================================================
