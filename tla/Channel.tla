------------------------------ MODULE Channel ------------------------------
(***************************************************************************)
(* The state of one ReadWriteChannel and what each of its critical         *)
(* sections does to it (streams/client/read_write_channel_internal.h).     *)
(* Every method of ReadWriteChannelState runs under one mutex, so each is  *)
(* a single step of the modules that use these operators.  A method that   *)
(* waits does so on an absl::Condition: the condition is the guard of the  *)
(* step, and a timed call may also give up while the condition is false.   *)
(*                                                                         *)
(* The pending write event notification of a channel is not part of this   *)
(* record; ReadWriteChannel.tla models it.                                 *)
(***************************************************************************)
EXTENDS Naturals, Sequences

NewChannel == [q |-> <<>>, closed |-> FALSE, cancelled |-> FALSE]

ChannelOf(Item) ==
  [q : Seq(Item), closed : BOOLEAN, cancelled : BOOLEAN]

(* The condition TryPop waits for.                                         *)
HasItemOrClosed(ch) == ch.q # <<>> \/ ch.closed

(* TryPop's two outcomes, once it stops waiting.                           *)
PopsItem(ch)  == ch.q # <<>>
MutPopsEnd(ch) == ch.closed \* mutant: the end although items are buffered
PopsEnd(ch)   == ch.q = <<>> /\ ch.closed
Front(ch)     == Head(ch.q)
MutPop(ch)    == ch         \* mutant: the front stays
Pop(ch)       == [ch EXCEPT !.q = Tail(@)]

(* The condition TryEmplace waits for.  It does not look at `closed`.      *)
HasRoomOrCancelled(ch, capacity) == Len(ch.q) < capacity \/ ch.cancelled

(* TryEmplace's two outcomes, once it stops waiting: cancellation is       *)
(* looked at first, whatever room there is.                                *)
MutEmplaces(ch, capacity) == ~ch.cancelled /\ Len(ch.q) <= capacity \* mutant: off by one
Emplaces(ch, capacity) == ~ch.cancelled /\ Len(ch.q) < capacity
EmplaceRefused(ch)     == ch.cancelled
Emplace(ch, item)      == [ch EXCEPT !.q = Append(@, item)]

CloseWrites(ch)   == [ch EXCEPT !.closed = TRUE]

(* The buffered items stay readable.                                       *)
CancelWriters(ch) == [ch EXCEPT !.cancelled = TRUE]
=============================================================================
