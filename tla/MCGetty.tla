-------------------------------- MODULE MCGetty --------------------------------
EXTENDS Getty, TLC

CONSTANTS c1, c2

Users   == {<<"u">>}
KeySets == (c1 :> {"u", "NL", "REINIT"}) @@ (c2 :> {"u", "NL", "BS", "DOKILL"})
Amounts == (c1 :> 5) @@ (c2 :> 3)
=============================================================================
