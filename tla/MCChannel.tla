----------------------------- MODULE MCChannel -----------------------------
(* Small instances of Channel: a message whose envelope is 2 bytes and one  *)
(* whose length takes two varint bytes, 4 bytes in all.                     *)
EXTENDS ChannelInv, ChannelLog

MCMessage == {<<1>>, <<3, 0>>}
ShortMessage == {<<0>>, <<1>>}
ProcessFaults == {"create_error", "write_error", "sync_error", "header_error",
                  "crash"}
=============================================================================
