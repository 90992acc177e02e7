--------------------------- MODULE MCPacketSender ---------------------------
(* Sends that do not wait, that wait twice and that wait for ever.         *)
EXTENDS PacketSender

MCTimeouts == {0, 1, Infinite}
=============================================================================
