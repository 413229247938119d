------------------------------ MODULE MCCmdLine ------------------------------
(* A small instance of CmdLine for TLC.  Each keyboard has the bytes that   *)
(* one question needs; the first three type byte by byte.                   *)
EXTENDS CmdLine

Single(S) == {<<c>> : c \in S}
Arrow(S, n) == [keys |-> Single(S), max |-> n]

MCKeyboards ==
  << Arrow({"a", "sp", "quote", "cr"}, 6),
    Arrow({"a", "tab", "ctl", "nul", "bs", "lf"}, 5),
    \* redirections
    [keys |-> {<<"a">>, <<"a", "sp">>, <<"<", "sp">>, <<">", "sp">>, <<"cr">>}, max |-> 6],
    \* long lines and long tokens
    [keys |-> {<<"a", "a", "sp">>, <<"a", "a", "a">>, <<"b">>, <<"del">>, <<"cr">>}, max |-> 6],
    \* the history
    [keys |-> {<<"a", "cr">>, <<"b", "cr">>, <<"cr">>, <<"!", "sp", "0", "cr">>,
               <<"!", "sp", "1", "cr">>, <<"!", "sp", "2", "cr">>,
               <<"!", "sp", "3", "cr">>, <<"!", "cr">>}, max |-> 4],
    \* wildcards
    [keys |-> {<<"a", "sp", "*", "sp">>, <<"*", "sp">>, <<"b", "sp">>, <<"&">>, <<"cr">>}, max |-> 6] >>

MCFiles == << <<"f">>, <<"g">> >>
=============================================================================
