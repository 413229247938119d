-------------------------------- MODULE MCGStdio --------------------------------
(* Small instances of GStdio for TLC. *)
EXTENDS GStdio
CONSTANT Data                 \* a file the program opens

MCNames     == {In, Out, Err, Data}
MCFiles     == {Data}
MCTerminals == {In, Out, Err}
MCOffsets   == {-1, 1}
(* stdin has a line, Data a line in the middle. *)
MCStartFile == [n \in MCNames |-> IF n = In THEN <<7, 0>>
                                  ELSE IF n = Data THEN <<7, 0, 9>> ELSE <<>>]
(* Reading the terminal and a file; writing, without and with trouble. *)
MCPrograms  ==
  {[slots |-> {0, 1},    modes |-> {"r"},      puts |-> 1, troubles |-> 1],
   [slots |-> {1, 3},    modes |-> {"r"},      puts |-> 1, troubles |-> 1],
   [slots |-> {1, 2, 3}, modes |-> {"w", "a"}, puts |-> 3, troubles |-> 0],
   [slots |-> {1, 3},    modes |-> {"w", "a"}, puts |-> 3, troubles |-> 1]}
================================================================================
