------------------------ MODULE MCReadWriteChannel ------------------------
(* Two channels with one selector, which is how MainTask uses them, and    *)
(* notifications for two Select calls of which one is still registered.    *)
EXTENDS ReadWriteChannel
=============================================================================
