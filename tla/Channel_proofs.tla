--------------------------- MODULE Channel_proofs ---------------------------
(***************************************************************************)
(* What the critical sections of a ReadWriteChannel do to its state, for   *)
(* every type of item.                                                     *)
(***************************************************************************)
EXTENDS Channel, SequenceTheorems, TLAPS

(* Every operator leaves a channel's state a channel's state.              *)
LEMMA NewChannelType == \A S : NewChannel \in ChannelOf(S)
  BY EmptySeq DEF ChannelOf, NewChannel

(* The operators on a channel keep it a channel of the same items.         *)
LEMMA CloseWritesType == \A S : \A ch \in ChannelOf(S) : CloseWrites(ch) \in ChannelOf(S)
  BY DEF ChannelOf, CloseWrites

(* CancelWriters.                                                          *)
LEMMA CancelWritersType ==
  \A S : \A ch \in ChannelOf(S) : CancelWriters(ch) \in ChannelOf(S)
  BY DEF ChannelOf, CancelWriters

(* Emplace.                                                                *)
LEMMA EmplaceType ==
  ASSUME NEW S, NEW ch \in ChannelOf(S), NEW x \in S
  PROVE  Emplace(ch, x) \in ChannelOf(S)
<1>1. Append(ch.q, x) \in Seq(S)
  BY AppendProperties DEF ChannelOf
<1> QED
  BY <1>1 DEF ChannelOf, Emplace

(* Pop, and the item that it takes.                                        *)
LEMMA PopType ==
  ASSUME NEW S, NEW ch \in ChannelOf(S), PopsItem(ch)
  PROVE  Pop(ch) \in ChannelOf(S) /\ Front(ch) \in S
  BY HeadTailProperties DEF ChannelOf, Pop, Front, PopsItem

(* What each operator does to the fields.                                  *)
LEMMA EmplaceFields ==
  ASSUME NEW S, NEW ch \in ChannelOf(S), NEW x \in S
  PROVE  /\ Emplace(ch, x).q = Append(ch.q, x)
         /\ Emplace(ch, x).closed = ch.closed
         /\ Emplace(ch, x).cancelled = ch.cancelled
  BY DEF ChannelOf, Emplace

(* What Pop changes in a channel, and what it leaves.                      *)
LEMMA ChannelFields ==
  ASSUME NEW S, NEW ch \in ChannelOf(S)
  PROVE  /\ Pop(ch).q = Tail(ch.q)
         /\ Pop(ch).closed = ch.closed
         /\ Pop(ch).cancelled = ch.cancelled
         /\ CloseWrites(ch).q = ch.q
         /\ CloseWrites(ch).closed = TRUE
         /\ CloseWrites(ch).cancelled = ch.cancelled
         /\ CancelWriters(ch).q = ch.q
         /\ CancelWriters(ch).closed = ch.closed
         /\ CancelWriters(ch).cancelled = TRUE
  BY DEF ChannelOf, Pop, CloseWrites, CancelWriters

-----------------------------------------------------------------------------
(* Numbered items: a sequence that counts on from a base.                  *)
CountsFrom(q, base) == \A i \in 1..Len(q) : q[i] = base + i

(* A run of consecutive numbers goes on with the next one ...              *)
LEMMA AppendCounts ==
  ASSUME NEW q \in Seq(Nat), NEW base \in Nat, CountsFrom(q, base)
  PROVE  /\ CountsFrom(Append(q, base + Len(q) + 1), base)
         /\ Len(Append(q, base + Len(q) + 1)) = Len(q) + 1
<1>1. Len(q) \in Nat /\ base + Len(q) + 1 \in Nat
  BY LenProperties
<1>2. /\ Len(Append(q, base + Len(q) + 1)) = Len(q) + 1
      /\ \A i \in 1..Len(q) : Append(q, base + Len(q) + 1)[i] = q[i]
      /\ Append(q, base + Len(q) + 1)[Len(q) + 1] = base + Len(q) + 1
  BY <1>1, AppendProperties
<1> QED
  BY <1>1, <1>2 DEF CountsFrom

(* ... and loses its first one.                                            *)
LEMMA TailCounts ==
  ASSUME NEW q \in Seq(Nat), NEW base \in Nat, CountsFrom(q, base), q # <<>>
  PROVE  /\ Head(q) = base + 1
         /\ CountsFrom(Tail(q), base + 1)
         /\ Len(Tail(q)) = Len(q) - 1
<1>1. Len(q) \in Nat /\ Len(q) > 0
  BY LenProperties, EmptySeq
<1>2. /\ Len(Tail(q)) = Len(q) - 1
      /\ \A i \in 1..Len(Tail(q)) : Tail(q)[i] = q[i + 1]
  BY <1>1, HeadTailProperties
<1>3. Head(q) = q[1]
  OBVIOUS
<1> QED
  BY <1>1, <1>2, <1>3 DEF CountsFrom
=============================================================================
