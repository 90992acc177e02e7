-------------------------- MODULE MCPacketReceiver --------------------------
(* A small session: the transport holds one response at a time.            *)
EXTENDS PacketReceiver
=============================================================================
