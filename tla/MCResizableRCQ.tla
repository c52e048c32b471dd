-------------------------- MODULE MCResizableRCQ ---------------------------
(* ResizableRCQ for TLC.                                                   *)
EXTENDS ResizableRCQ

PopOne == {<<1, 1>>}
PopAndPeek == {<<1, 1>>, <<2, 1>>}
PopTwo == {<<2, 2>>}
=============================================================================
