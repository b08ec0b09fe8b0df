--------------------------- MODULE MCGrilioParcel ---------------------------
(* Instances of the encoder and the parser for TLC.                        *)
EXTENDS GrilioParcel

SmallLetters == {1}
SmallHighs   == {2}
SmallBytes   == {<<1, 0, 1>>}
SmallInts    == {<<0>>, <<6>>, <<9>>, <<1, 15>>}
SmallTexts   == SeqOf({1, 2, Bad}, 2) \cup {<<1, 2, 1>>, <<2, 2>>}
=============================================================================
