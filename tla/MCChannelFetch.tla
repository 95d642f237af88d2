--------------------------- MODULE MCChannelFetch ---------------------------
(* Small instances of ChannelFetch.  With VarintBase 4 each length below    *)
(* takes one byte; with 2 the length of LongMessage takes two.  A byte of   *)
(* VarintBase or more looks like the first byte of a longer integer when a  *)
(* fetch starts in the middle of a message.                                 *)
EXTENDS ChannelFetch

TwoMessages == {<<1>>, <<4, 0, 1>>}
LongMessage == {<<1>>, <<3, 0>>}
=============================================================================
