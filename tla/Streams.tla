-------------------------------- MODULE Streams --------------------------------
(***************************************************************************)
(* What g_stdio.c promises the program above it, without buffers, counts   *)
(* or file positions of the kernel: a stream that is read hands out the    *)
(* bytes of its file one after the other from where it stands; a stream    *)
(* that is written holds what was put into it, and of that the disk has a  *)
(* prefix, which may grow at any moment and never changes.                 *)
(*                                                                         *)
(* Only a stream for which the kernel has refused something (failed) may   *)
(* say EOF early, or drop what the disk does not have yet.  At the end of   *)
(* the program the disk gets all that was put.                             *)
(***************************************************************************)
EXTENDS Integers, Sequences

CONSTANTS Slots, Names, NoFile, Bytes, Offsets, Stdin, Stdout

EOF    == -1
Nobody == -1           \* no slot

VARIABLES
  mode,     \* slot -> "closed", "r", "w"
  of,       \* slot -> the file it is open on
  pos,      \* slot -> how far a stream that is read has got
  eof,      \* slot -> the caller has been told it is at the end
  failed,   \* slot -> the kernel has refused something
  disk,     \* file -> what is in it
  view,     \* file -> what is in it once everything put is written
  last,     \* the slot and the value of the last character call
  over      \* the program is over

vars == <<mode, of, pos, eof, failed, disk, view, last, over>>

Init ==
  /\ mode \in [Slots -> {"closed", "r", "w"}]
  /\ of \in [Slots -> Names \cup {NoFile}]
  /\ pos = [s \in Slots |-> 0]
  /\ eof = [s \in Slots |-> FALSE]
  /\ failed = [s \in Slots |-> FALSE]
  /\ view = disk
  /\ last = <<Stdin, 0>>
  /\ over = FALSE

Prefix(q, k)  == SubSeq(q, 1, k)
Grows(n, q)   == \E k \in Len(disk[n]) .. Len(q) : disk'[n] = Prefix(q, k)

(* The disk catches up, or what it does not have is dropped. *)
WriteBehind(t) ==
  LET n == of[t] IN
  /\ Grows(n, view[n])
  /\ \/ view'[n] = view[n] /\ failed'[t] = failed[t]
     \/ view'[n] = disk'[n] /\ failed'[t]

(* A step of slot s: the other streams stay where they are, and may write. *)
Others(s, named) ==
  /\ \A t \in Slots \ {s} :
       /\ mode'[t] = mode[t] /\ of'[t] = of[t]
       /\ pos'[t] = pos[t] /\ eof'[t] = eof[t]
       /\ IF mode[t] = "w" THEN WriteBehind(t) ELSE failed'[t] = failed[t]
  /\ \A n \in Names \ named :
       \/ \E t \in Slots \ {s} : mode[t] = "w" /\ of[t] = n
       \/ disk'[n] = disk[n] /\ view'[n] = view[n]

Stays(s) == mode'[s] = mode[s] /\ of'[s] = of[s] /\ over' = over

(* Before the program reads the terminal it sees what it has put there. *)
Shown == mode[Stdout] = "w" => disk'[of[Stdout]] = view'[of[Stdout]]

Get(s) ==
  /\ mode[s] = "r"
  /\ Stays(s) /\ Others(s, {})
  /\ s = Stdin => Shown
  /\ \/ /\ pos[s] < Len(view[of[s]])
        /\ pos'[s] = pos[s] + 1
        /\ last' = <<s, view[of[s]][pos'[s]]>>
        /\ eof'[s] = eof[s] /\ failed'[s] = failed[s]
     \/ /\ pos[s] >= Len(view[of[s]])
        /\ eof'[s] /\ failed'[s] = failed[s]
        /\ pos'[s] = pos[s] /\ last' = <<s, EOF>>
     \/ /\ failed'[s]
        /\ eof'[s] = eof[s]
        /\ pos'[s] = pos[s] /\ last' = <<s, EOF>>

Put(s, c) ==
  LET n == of[s] IN
  /\ mode[s] = "w"
  /\ Stays(s) /\ Others(s, {n})
  /\ pos'[s] = pos[s] /\ eof'[s] = eof[s]
  /\ \/ /\ view'[n] = Append(view[n], c)
        /\ Grows(n, view'[n])
        /\ failed'[s] = failed[s] /\ last' = <<s, c>>
     \/ /\ Grows(n, view[n]) /\ view'[n] = disk'[n]
        /\ failed'[s] /\ last' = <<s, EOF>>

Flush(s) ==
  LET n == of[s] IN
  /\ mode[s] = "w"
  /\ Stays(s) /\ Others(s, {n})
  /\ pos'[s] = pos[s] /\ eof'[s] = eof[s] /\ UNCHANGED last
  /\ Grows(n, view[n]) /\ view'[n] = disk'[n]
  /\ \/ view'[n] = view[n] /\ failed'[s] = failed[s]
     \/ failed'[s]

(* A seek relative to the place "from".  One that fails leaves the stream  *)
(* where it is, or there, no longer at its end.                            *)
SeekFrom(s, from) ==
  /\ mode[s] = "r"
  /\ Stays(s) /\ Others(s, {}) /\ UNCHANGED last
  /\ \/ /\ \E o \in Offsets : pos'[s] = o \/ pos'[s] = from + o
        /\ pos'[s] >= 0
        /\ ~eof'[s] /\ failed'[s] = failed[s]
     \/ /\ \/ pos'[s] = pos[s] /\ eof'[s] = eof[s]
           \/ pos'[s] = from /\ ~eof'[s]
        /\ failed'[s]

(* fseek(): relative to where the stream stands.                           *)
Seek(s) == SeekFrom(s, pos[s])

Open(s, n) ==
  /\ mode[s] = "closed"
  /\ \A t \in Slots : t < s => mode[t] # "closed"
  /\ mode'[s] \in {"r", "w"} /\ of'[s] = n
  /\ \A t \in Slots : mode[t] # "closed" => of[t] # n
  /\ pos'[s] = 0 /\ ~eof'[s] /\ ~failed'[s] /\ UNCHANGED <<last, over>>
  /\ Others(s, {n})
  /\ view'[n] = disk'[n] /\ disk'[n] # NoFile
  /\ disk'[n] = disk[n] \/ (mode'[s] = "w" /\ disk'[n] = <<>>)

Close(s) ==
  LET n == of[s] IN
  /\ mode[s] # "closed"
  /\ mode'[s] = "closed" /\ of'[s] = NoFile /\ pos'[s] = 0 /\ ~eof'[s]
  /\ UNCHANGED <<last, over>>
  /\ Others(s, {n})
  /\ IF mode[s] = "w"
     THEN /\ Grows(n, view[n]) /\ view'[n] = disk'[n]
          /\ \/ disk'[n] = view[n] /\ failed'[s] = failed[s]
             \/ failed'[s]
     ELSE disk'[n] = disk[n] /\ view'[n] = view[n] /\ failed'[s] = failed[s]

(* Buffers are written out for reasons of their own. *)
Write == Others(Nobody, {}) /\ UNCHANGED <<last, over>>

(* The program is over: the disk has all that was put into the streams, but *)
(* for those in kept.                                                       *)
FinishBut(kept) ==
  /\ ~over /\ over'
  /\ Others(Nobody, {}) /\ UNCHANGED last
  /\ \A s \in Slots \ kept : mode[s] = "w" => disk'[of[s]] = view'[of[s]]

Finish == FinishBut({})

Next == \/ Write \/ Finish
        \/ \E s \in Slots :
             \/ Get(s) \/ Flush(s) \/ Seek(s) \/ Close(s)
             \/ \E n \in Names : Open(s, n)
             \/ \E c \in Bytes : Put(s, c)

Spec == Init /\ [][Next]_vars
================================================================================
