-------------------------------- MODULE MCTlnt --------------------------------
EXTENDS Tlnt

Sent == {<<"a">>, <<"ESC", "[", "1", "A">>, <<"IAC", "DONT", "ECHO">>,
         <<"IAC", "NOP">>, <<"IAC", "SB", "TTYPE", "IAC", "SE">>}
=============================================================================
