----------------------- MODULE ReadWriteChannel_proofs -----------------------
(***************************************************************************)
(* What ReadWriteChannel.tla says of its channels, for every set of        *)
(* channels, selectors, notifications and items and for every capacity.    *)
(***************************************************************************)
EXTENDS ReadWriteChannel, Channel_proofs, SequenceTheorems, TLAPS

(* Writing at the back of what was read and what is buffered.              *)
LEMMA AppendToConcat ==
  ASSUME NEW s \in Seq(Item), NEW t \in Seq(Item), NEW x \in Item
  PROVE  Append(s \o t, x) = s \o Append(t, x)
<1>1. Append(s \o t, x) = (s \o t) \o <<x>>
  BY ConcatProperties, AppendIsConcat
<1>2. Append(t, x) = t \o <<x>>
  BY AppendIsConcat
<1>3. <<x>> \in Seq(Item)
  OBVIOUS
<1> QED
  BY <1>1, <1>2, <1>3, ConcatAssociative

(* What was appended to is not empty.                                      *)
LEMMA AppendIsNotEmpty ==
  ASSUME NEW s \in Seq(Item), NEW x \in Item
  PROVE  Append(s, x) # <<>>
<1>1. Len(Append(s, x)) = Len(s) + 1 /\ Len(s) \in Nat
  BY AppendProperties, LenProperties
<1>2. Len(<<>>) = 0
  OBVIOUS
<1> QED
  BY <1>1, <1>2

(* Moving the front of what is buffered to the back of what was read.      *)
LEMMA MoveFront ==
  ASSUME NEW S, NEW s \in Seq(S), NEW t \in Seq(S), t # <<>>
  PROVE  Append(s, Head(t)) \o Tail(t) = s \o t
<1>1. /\ Head(t) \in S
      /\ Tail(t) \in Seq(S)
      /\ <<Head(t)>> \in Seq(S)
  BY HeadTailProperties
<1>2. <<Head(t)>> \o Tail(t) = t
  <2>1. <<Head(t)>> \o Tail(t) \in Seq(S)
    BY <1>1, ConcatProperties
  <2>2. Len(<<Head(t)>> \o Tail(t)) = Len(t)
    <3>1. Len(Tail(t)) = Len(t) - 1 /\ Len(t) \in Nat
      BY HeadTailProperties, LenProperties
    <3> QED
      BY <1>1, <3>1, ConcatProperties
  <2>3. ASSUME NEW i \in 1..Len(t)
        PROVE  (<<Head(t)>> \o Tail(t))[i] = t[i]
    <3>1. Len(Tail(t)) = Len(t) - 1 /\ Len(t) \in Nat /\ Len(<<Head(t)>>) = 1
      BY HeadTailProperties, LenProperties
    <3>2. (<<Head(t)>> \o Tail(t))[i] =
            IF i <= 1 THEN <<Head(t)>>[i] ELSE Tail(t)[i - 1]
      BY <1>1, <3>1, ConcatProperties
    <3>3. CASE i = 1
      BY <3>2, <3>3
    <3>4. CASE i > 1
      BY <3>1, <3>2, <3>4, HeadTailProperties
    <3> QED
      BY <3>3, <3>4
  <2> QED
    BY <2>1, <2>2, <2>3, SeqEqual
<1>3. Append(s, Head(t)) = s \o <<Head(t)>>
  BY <1>1, AppendIsConcat
<1> QED
  BY <1>1, <1>2, <1>3, ConcatAssociative

-----------------------------------------------------------------------------
(* The type of the state.                                                  *)

(* The two notification operators keep the types.                          *)
LEMMA NotificationTypes ==
  ASSUME TypeOK, NEW c \in Channels
  PROVE  /\ FulfillWriteEventNotification(c) =>
              /\ note' \in [Channels -> Notes \cup {None}]
              /\ picked' \in [Notes -> Channels \cup {None}]
         /\ \A n \in Notes : SetWriteEventNotification(c, n) =>
              /\ note' \in [Channels -> Notes \cup {None}]
              /\ picked' \in [Notes -> Channels \cup {None}]
  BY DEF TypeOK, FulfillWriteEventNotification, SetWriteEventNotification, Notify

(* A read keeps the types.                                                 *)
LEMMA ReadTypes ==
  ASSUME TypeOK, NEW s \in Selectors, NEW c \in Channels, Read(s, c)
  PROVE  TypeOK'
<1> USE DEF TypeOK
<1>1. chan' \in [Channels -> ChannelOf(Item)] /\ taken' \in [Channels -> Seq(Item)]
  <2>1. CASE PopsEnd(chan[c])
    BY <2>1 DEF Read
  <2>2. CASE ~PopsEnd(chan[c])
    <3>1. chan[c].q # <<>>
      BY <2>2 DEF Read, PopsEnd, HasItemOrClosed
    <3>2. Pop(chan[c]) \in ChannelOf(Item) /\ Front(chan[c]) \in Item
      BY <3>1, PopType DEF PopsItem
    <3>3. Append(taken[c], Front(chan[c])) \in Seq(Item)
      BY <3>2, AppendProperties
    <3> QED
      BY <2>2, <3>2, <3>3 DEF Read
  <2> QED
    BY <2>1, <2>2
<1>2. ended' \in SUBSET Channels
  BY DEF Read
<1>3. /\ selector' \in [Selectors -> SelectorState]
      /\ \A t \in Selectors :
           /\ selector'[t].pc \in {"registering", "waiting"} => selector'[t].note \in Notes
           /\ selector'[t].pc = "reading" => selector'[t].pick \in Channels
  BY DEF Read, Idle, SelectorState
<1>4. UNCHANGED <<note, picked, writer, accepted>>
  BY DEF Read
<1> QED
  BY <1>1, <1>2, <1>3, <1>4

(* The type invariant is inductive by itself.                              *)
LEMMA TypeInit == Init => TypeOK
  BY NoneAssumption, EmptySeq, NewChannelType
  DEF Init, TypeOK, Idle, SelectorState, NewChannel, ChannelOf

(* Every step keeps the types.                                             *)
LEMMA TypeStep ==
  ASSUME TypeOK, [Next]_vars
  PROVE  TypeOK'
<1> USE DEF TypeOK
<1>1. ASSUME NEW c \in Channels
      PROVE  /\ BeginWrite(c) => TypeOK'
             /\ WriteAccepted(c) => TypeOK'
             /\ WriteRefused(c) \/ WriteTimesOut(c) => TypeOK'
             /\ Close(c) => TypeOK'
             /\ Cancel(c) => TypeOK'
  <2>1. BeginWrite(c) => TypeOK'
    BY DEF BeginWrite
  <2>2. ASSUME WriteAccepted(c)
        PROVE  TypeOK'
    <3>1. PICK item \in Item :
            /\ chan' = [chan EXCEPT ![c] = Emplace(@, item)]
            /\ accepted' = [accepted EXCEPT ![c] = Append(@, item)]
      BY <2>2 DEF WriteAccepted
    <3>2. Emplace(chan[c], item) \in ChannelOf(Item)
      BY EmplaceType
    <3>3. Append(accepted[c], item) \in Seq(Item)
      BY AppendProperties
    <3> QED
      BY <2>2, <3>1, <3>2, <3>3, NotificationTypes DEF WriteAccepted
  <2>3. WriteRefused(c) \/ WriteTimesOut(c) => TypeOK'
    BY DEF WriteRefused, WriteTimesOut
  <2>4. ASSUME Close(c)
        PROVE  TypeOK'
    <3>1. CloseWrites(chan[c]) \in ChannelOf(Item)
      BY DEF ChannelOf, CloseWrites
    <3> QED
      BY <2>4, <3>1, NotificationTypes DEF Close
  <2>5. ASSUME Cancel(c)
        PROVE  TypeOK'
    <3>1. CancelWriters(chan[c]) \in ChannelOf(Item)
      BY DEF ChannelOf, CancelWriters
    <3> QED
      BY <2>5, <3>1 DEF Cancel
  <2> QED
    BY <2>1, <2>2, <2>3, <2>4, <2>5
<1>2. ASSUME NEW s \in Selectors
      PROVE  /\ \A c \in Channels : ReadDirectly(s, c) => TypeOK'
             /\ BeginSelect(s) => TypeOK'
             /\ Register(s) => TypeOK'
             /\ SelectReturns(s) => TypeOK'
             /\ ReadPicked(s) => TypeOK'
  <2>1. \A c \in Channels : ReadDirectly(s, c) => TypeOK'
    BY ReadTypes DEF ReadDirectly
  <2>2. BeginSelect(s) => TypeOK'
    BY DEF BeginSelect, Selecting, SelectorState
  <2>3. ASSUME Register(s)
        PROVE  TypeOK'
    <3>1. PICK c \in selector[s].todo :
            /\ SetWriteEventNotification(c, selector[s].note)
            /\ selector' = [selector EXCEPT ![s] =
                 Selecting(selector[s].readers, selector[s].todo \ {c}, selector[s].note)]
      BY <2>3 DEF Register
    <3>2. c \in Channels /\ selector[s].note \in Notes
      BY <2>3 DEF Register, SelectorState
    <3>3. /\ note' \in [Channels -> Notes \cup {None}]
          /\ picked' \in [Notes -> Channels \cup {None}]
      BY <3>1, <3>2, NotificationTypes
    <3>4. /\ selector' \in [Selectors -> SelectorState]
          /\ \A t \in Selectors :
               /\ selector'[t].pc \in {"registering", "waiting"} => selector'[t].note \in Notes
               /\ selector'[t].pc = "reading" => selector'[t].pick \in Channels
      BY <3>1, <3>2 DEF Selecting, SelectorState
    <3> QED
      BY <2>3, <3>3, <3>4 DEF Register
  <2>4. SelectReturns(s) => TypeOK'
    BY DEF SelectReturns, Reading, SelectorState
  <2>5. ReadPicked(s) => TypeOK'
    BY ReadTypes DEF ReadPicked
  <2> QED
    BY <2>1, <2>2, <2>3, <2>4, <2>5
<1>3. CASE UNCHANGED vars
  BY <1>3 DEF vars
<1> QED
  BY <1>1, <1>2, <1>3 DEF Next, WriterStep, SelectorStep

(* Every reachable state is well typed.                                    *)
THEOREM TypeCorrect == Spec => []TypeOK
<1>1. TypeOK /\ [Next]_vars => TypeOK'
  BY TypeStep
<1> QED
  BY TypeInit, <1>1, PTL DEF Spec

-----------------------------------------------------------------------------
(* The items.                                                              *)

(* A channel is closed exactly when its writer is done, and a channel that *)
(* has reported its end is closed and empty, and so stays that way.        *)
ClosedIsDone == \A c \in Channels : chan[c].closed <=> writer[c] = "done"
EndedIsDrained == \A c \in ended : chan[c].closed /\ chan[c].q = <<>>

ItemsOK == NothingLost /\ ClosedIsDone /\ EndedIsDrained
ItemInv == TypeOK /\ ItemsOK

(* ItemInv holds at the beginning ...                                      *)
LEMMA ItemInit == Init => ItemInv
<1> SUFFICES ASSUME Init
             PROVE  ItemInv
  OBVIOUS
<1>1. NothingLost
  <2>1. <<>> \in Seq(Item) /\ Len(<<>>) = 0 /\ <<>> \o <<>> = <<>>
    BY EmptySeq, ConcatEmptySeq
  <2> QED
    BY <2>1, CapacityAssumption DEF Init, NothingLost, NewChannel
<1>2. ClosedIsDone /\ EndedIsDrained
  BY DEF Init, ClosedIsDone, EndedIsDrained, NewChannel
<1> QED
  BY <1>1, <1>2, TypeInit DEF ItemInv, ItemsOK

(* A read moves the front item, if there is one.                           *)
LEMMA ReadItems ==
  ASSUME ItemInv, NEW s \in Selectors, NEW c \in Channels, Read(s, c)
  PROVE  ItemsOK'
<1> USE DEF ItemInv, ItemsOK, TypeOK
<1>1. CASE PopsEnd(chan[c])
  BY <1>1 DEF Read, PopsEnd, NothingLost, ClosedIsDone, EndedIsDrained
<1>2. CASE ~PopsEnd(chan[c])
  <2>1. /\ chan[c].q # <<>>
        /\ chan' = [chan EXCEPT ![c] = Pop(chan[c])]
        /\ taken' = [taken EXCEPT ![c] = Append(taken[c], Head(chan[c].q))]
        /\ UNCHANGED <<ended, writer, accepted>>
    BY <1>2 DEF Read, PopsEnd, HasItemOrClosed, Front
  <2>2. chan[c].q \in Seq(Item) /\ taken[c] \in Seq(Item)
    BY DEF ChannelOf
  <2>3. /\ Pop(chan[c]).q = Tail(chan[c].q)
        /\ Pop(chan[c]).closed = chan[c].closed
    BY DEF Pop, ChannelOf
  <2>4. Append(taken[c], Head(chan[c].q)) \o Tail(chan[c].q) = taken[c] \o chan[c].q
    BY <2>1, <2>2, MoveFront
  <2>5. Len(Tail(chan[c].q)) <= Capacity
    BY <2>1, <2>2, HeadTailProperties, LenProperties, CapacityAssumption DEF NothingLost
  <2>6. NothingLost'
    BY <2>1, <2>3, <2>4, <2>5 DEF NothingLost
  <2>7. ClosedIsDone' /\ EndedIsDrained'
    BY <2>1, <2>3 DEF ClosedIsDone, EndedIsDrained
  <2> QED
    BY <2>6, <2>7
<1> QED
  BY <1>1, <1>2

(* ... and every step keeps it.                                            *)
LEMMA ItemStep ==
  ASSUME ItemInv, [Next]_vars
  PROVE  ItemInv'
<1> USE DEF ItemInv, ItemsOK, TypeOK
<1>1. ASSUME NEW c \in Channels
      PROVE  /\ BeginWrite(c) => ItemsOK'
             /\ WriteAccepted(c) => ItemsOK'
             /\ WriteRefused(c) \/ WriteTimesOut(c) => ItemsOK'
             /\ Close(c) => ItemsOK'
             /\ Cancel(c) => ItemsOK'
  <2>1. BeginWrite(c) => ItemsOK'
    BY DEF BeginWrite, NothingLost, ClosedIsDone, EndedIsDrained
  <2>2. ASSUME WriteAccepted(c)
        PROVE  ItemsOK'
    <3>1. PICK item \in Item :
            /\ chan' = [chan EXCEPT ![c] = Emplace(chan[c], item)]
            /\ accepted' = [accepted EXCEPT ![c] = Append(accepted[c], item)]
      BY <2>2 DEF WriteAccepted
    <3>2. /\ Emplace(chan[c], item).q = Append(chan[c].q, item)
          /\ Emplace(chan[c], item).closed = chan[c].closed
      BY DEF Emplace, ChannelOf
    <3>3. chan[c].q \in Seq(Item) /\ taken[c] \in Seq(Item)
      BY DEF ChannelOf
    <3>4. Append(taken[c] \o chan[c].q, item) = taken[c] \o Append(chan[c].q, item)
      BY <3>3, AppendToConcat
    <3>5. Len(Append(chan[c].q, item)) <= Capacity
      BY <2>2, <3>3, AppendProperties, LenProperties, CapacityAssumption
      DEF WriteAccepted, Emplaces
    <3>6. NothingLost'
      BY <2>2, <3>1, <3>2, <3>4, <3>5 DEF NothingLost, WriteAccepted
    <3>7. c \notin ended
      BY <2>2 DEF WriteAccepted, ClosedIsDone, EndedIsDrained
    <3>8. ClosedIsDone' /\ EndedIsDrained'
      BY <2>2, <3>1, <3>2, <3>7 DEF ClosedIsDone, EndedIsDrained, WriteAccepted
    <3> QED
      BY <3>6, <3>8
  <2>3. WriteRefused(c) \/ WriteTimesOut(c) => ItemsOK'
    BY DEF WriteRefused, WriteTimesOut, NothingLost, ClosedIsDone, EndedIsDrained
  <2>4. Close(c) => ItemsOK'
    <3>1. CloseWrites(chan[c]).q = chan[c].q /\ CloseWrites(chan[c]).closed = TRUE
      BY DEF CloseWrites, ChannelOf
    <3> QED
      BY <3>1 DEF Close, NothingLost, ClosedIsDone, EndedIsDrained
  <2>5. Cancel(c) => ItemsOK'
    <3>1. /\ CancelWriters(chan[c]).q = chan[c].q
          /\ CancelWriters(chan[c]).closed = chan[c].closed
      BY DEF CancelWriters, ChannelOf
    <3> QED
      BY <3>1 DEF Cancel, NothingLost, ClosedIsDone, EndedIsDrained
  <2> QED
    BY <2>1, <2>2, <2>3, <2>4, <2>5
<1>2. ASSUME NEW s \in Selectors
      PROVE  /\ \A c \in Channels : ReadDirectly(s, c) => ItemsOK'
             /\ BeginSelect(s) => ItemsOK'
             /\ Register(s) => ItemsOK'
             /\ SelectReturns(s) => ItemsOK'
             /\ ReadPicked(s) => ItemsOK'
  <2>1. \A c \in Channels : ReadDirectly(s, c) => ItemsOK'
    BY ReadItems DEF ReadDirectly
  <2>2. BeginSelect(s) \/ Register(s) \/ SelectReturns(s) => ItemsOK'
    BY DEF BeginSelect, Register, SelectReturns, NothingLost, ClosedIsDone, EndedIsDrained
  <2>3. ReadPicked(s) => ItemsOK'
    BY ReadItems DEF ReadPicked
  <2> QED
    BY <2>1, <2>2, <2>3
<1>3. CASE UNCHANGED vars
  BY <1>3 DEF vars, NothingLost, ClosedIsDone, EndedIsDrained
<1>4. ItemsOK'
  <2>1. \A c \in Channels : WriterStep(c) \/ Cancel(c) => ItemsOK'
    BY <1>1 DEF WriterStep
  <2>2. \A s \in Selectors : SelectorStep(s) => ItemsOK'
    BY <1>2 DEF SelectorStep
  <2>3. CASE Next
    BY <2>1, <2>2, <2>3 DEF Next
  <2> QED
    BY <1>3, <2>3
<1> QED
  BY <1>4, TypeStep DEF ItemInv

(* No item is lost, repeated or overtaken, whatever the writers, readers   *)
(* and cancellations do, and no channel holds more than its capacity.      *)
THEOREM NothingIsLost == Spec => []NothingLost
<1>1. ItemInv /\ [Next]_vars => ItemInv'
  BY ItemStep
<1>2. ItemInv => NothingLost
  BY DEF ItemInv, ItemsOK
<1> QED
  BY ItemInit, <1>1, <1>2, PTL DEF Spec

(* A channel that reported its end has handed out all that it accepted.    *)
THEOREM EndsAreFinal == Spec => []EndIsFinal
<1>1. ItemInv /\ [Next]_vars => ItemInv'
  BY ItemStep
<1>2. ItemInv => EndIsFinal
  <2> SUFFICES ASSUME ItemInv, NEW c \in ended
               PROVE  chan[c].closed /\ taken[c] = accepted[c]
    BY DEF EndIsFinal
  <2>1. c \in Channels /\ taken[c] \in Seq(Item)
    BY DEF ItemInv, TypeOK
  <2>2. taken[c] \o <<>> = taken[c]
    BY <2>1, ConcatEmptySeq
  <2> QED
    BY <2>1, <2>2 DEF ItemInv, ItemsOK, NothingLost, EndedIsDrained
<1> QED
  BY ItemInit, <1>1, <1>2, PTL DEF Spec


-----------------------------------------------------------------------------
(* Each channel implements the bounded stream.                             *)

(* The front of what is buffered is the item that follows what was read.   *)
LEMMA FrontFollows ==
  ASSUME NEW s \in Seq(Item), NEW t \in Seq(Item), t # <<>>
  PROVE  /\ Len(s) < Len(s \o t)
         /\ (s \o t)[Len(s) + 1] = Head(t)
<1>1. Len(s) \in Nat /\ Len(t) \in Nat /\ Len(t) # 0
  BY LenProperties, EmptySeq
<1>2. Len(s \o t) = Len(s) + Len(t)
  BY ConcatProperties
<1>3. Len(s) + 1 \in 1..(Len(s) + Len(t))
  BY <1>1
<1>4. (s \o t)[Len(s) + 1] = t[Len(s) + 1 - Len(s)]
  BY <1>1, <1>3, ConcatProperties
<1>5. Head(t) = t[1]
  OBVIOUS
<1> QED
  BY <1>1, <1>2, <1>4, <1>5

(* The initial states are those of the stream.                             *)
LEMMA StreamInit ==
  ASSUME Init, NEW c \in Channels
  PROVE  Stream(c)!Init
  BY DEF Init, Stream!Init, NewChannel

(* A read takes an item, reports the end, or belongs to another channel.   *)
LEMMA ReadIsStreamStep ==
  ASSUME ItemInv, NEW s \in Selectors, NEW d \in Channels, Read(s, d), NEW c \in Channels
  PROVE  Stream(c)!Take \/ Stream(c)!End \/ UNCHANGED Stream(c)!vars
<1> USE DEF ItemInv, ItemsOK, TypeOK
<1>1. CASE c # d
  BY <1>1 DEF Read, Stream!vars
<1>2. CASE c = d /\ PopsEnd(chan[d])
  <2>1. taken[c] \in Seq(Item) /\ taken[c] \o <<>> = taken[c]
    BY ConcatEmptySeq
  <2> QED
    BY <1>2, <2>1 DEF Read, PopsEnd, NothingLost, Stream!End
<1>3. CASE c = d /\ ~PopsEnd(chan[d])
  <2>1. chan[c].q # <<>> /\ chan[c].q \in Seq(Item) /\ taken[c] \in Seq(Item)
    BY <1>3 DEF Read, PopsEnd, HasItemOrClosed, ChannelOf
  <2>2. /\ Len(taken[c]) < Len(accepted[c])
        /\ accepted[c][Len(taken[c]) + 1] = Front(chan[c])
    BY <2>1, FrontFollows DEF NothingLost, Front
  <2> QED
    BY <1>3, <2>2 DEF Read, Pop, ChannelOf, Stream!Take
<1> QED
  BY <1>1, <1>2, <1>3

(* The steps of a writer.                                                  *)
LEMMA WriterIsStreamStep ==
  ASSUME ItemInv, NEW d \in Channels, WriterStep(d) \/ Cancel(d), NEW c \in Channels
  PROVE  Stream(c)!Accept \/ Stream(c)!Close \/ UNCHANGED Stream(c)!vars
<1> USE DEF ItemInv, ItemsOK, TypeOK
<1>1. CASE BeginWrite(d) \/ WriteRefused(d) \/ WriteTimesOut(d)
  BY <1>1 DEF BeginWrite, WriteRefused, WriteTimesOut, Stream!vars
<1>2. CASE WriteAccepted(d)
  <2>1. PICK item \in Item :
          /\ chan' = [chan EXCEPT ![d] = Emplace(chan[d], item)]
          /\ accepted' = [accepted EXCEPT ![d] = Append(accepted[d], item)]
    BY <1>2 DEF WriteAccepted
  <2>2. Emplace(chan[d], item).closed = chan[d].closed
    BY DEF Emplace, ChannelOf
  <2>3. CASE c # d
    BY <1>2, <2>1, <2>3 DEF WriteAccepted, Stream!vars
  <2>4. CASE c = d
    <3>1. ~chan[c].closed
      BY <1>2, <2>4 DEF WriteAccepted, ClosedIsDone
    <3>2. Len(accepted[c]) - Len(taken[c]) < Capacity
      <4>1. chan[c].q \in Seq(Item) /\ taken[c] \in Seq(Item)
        BY DEF ChannelOf
      <4>2. Len(accepted[c]) = Len(taken[c]) + Len(chan[c].q)
        BY <4>1, ConcatProperties DEF NothingLost
      <4>3. Len(chan[c].q) < Capacity
        BY <1>2, <2>4 DEF WriteAccepted, Emplaces
      <4> QED
        BY <4>1, <4>2, <4>3, LenProperties, CapacityAssumption
    <3> QED
      BY <1>2, <2>1, <2>2, <2>4, <3>1, <3>2 DEF WriteAccepted, Stream!Accept
  <2> QED
    BY <2>3, <2>4
<1>3. CASE Close(d)
  <2>1. CloseWrites(chan[d]).closed = TRUE
    BY DEF CloseWrites, ChannelOf
  <2> QED
    BY <1>3, <2>1 DEF Close, Stream!Close, Stream!vars
<1>4. CASE Cancel(d)
  <2>1. CancelWriters(chan[d]).closed = chan[d].closed
    BY DEF CancelWriters, ChannelOf
  <2> QED
    BY <1>4, <2>1 DEF Cancel, Stream!vars
<1> QED
  BY <1>1, <1>2, <1>3, <1>4 DEF WriterStep

(* Every step is a step of the stream of each channel, or none.            *)
LEMMA StreamStep ==
  ASSUME ItemInv, [Next]_vars, NEW c \in Channels
  PROVE  [Stream(c)!Next]_(Stream(c)!vars)
<1>1. ASSUME NEW d \in Channels, WriterStep(d) \/ Cancel(d)
      PROVE  [Stream(c)!Next]_(Stream(c)!vars)
  BY <1>1, WriterIsStreamStep DEF Stream!Next
<1>2. ASSUME NEW s \in Selectors, SelectorStep(s)
      PROVE  [Stream(c)!Next]_(Stream(c)!vars)
  <2>1. CASE \E d \in Channels : Read(s, d)
    BY <2>1, ReadIsStreamStep DEF Stream!Next
  <2>2. CASE BeginSelect(s) \/ Register(s) \/ SelectReturns(s)
    BY <2>2 DEF BeginSelect, Register, SelectReturns, Stream!vars
  <2>3. SelectorStep(s) =>
          \/ \E d \in Channels : Read(s, d)
          \/ BeginSelect(s) \/ Register(s) \/ SelectReturns(s)
    BY DEF SelectorStep, ReadDirectly, ReadPicked, ItemInv, TypeOK
  <2> QED
    BY <1>2, <2>1, <2>2, <2>3
<1>3. CASE UNCHANGED vars
  BY <1>3 DEF vars, Stream!vars
<1> QED
  BY <1>1, <1>2, <1>3 DEF Next

(* Every channel is a bounded stream: whatever writers, readers, selectors *)
(* and cancellations do, its readers see the items of its writer in order, *)
(* at most Capacity of them are on their way, and its end comes last.      *)
THEOREM ChannelsAreStreams == Spec => ImplementsStreams
<1>1. Init => \A c \in Channels : Stream(c)!Init
  BY StreamInit
<1>2. ItemInv /\ [Next]_vars => ItemInv'
  BY ItemStep
<1>3. ItemInv /\ [Next]_vars => \A c \in Channels : [Stream(c)!Next]_(Stream(c)!vars)
  BY StreamStep
<1> QED
  BY ItemInit, <1>1, <1>2, <1>3, PTL DEF Spec, ImplementsStreams

-----------------------------------------------------------------------------
(* The wakeups.  With one selector, as the receivers use the channels, a   *)
(* registered notification stays registered until it is fulfilled, and     *)
(* what was readable when it was fulfilled is still readable when the      *)
(* selector gets there.                                                    *)

OneSelector == \A s, t \in Selectors : s = t

Selects(s) == selector[s].pc \in {"registering", "waiting"}
Registered(s) == selector[s].readers \ selector[s].todo

TodoOK ==
  \A s \in Selectors :
    /\ selector[s].todo \subseteq selector[s].readers
    /\ selector[s].pc = "waiting" => selector[s].todo = {}

(* Nothing is readable where the notification is registered unfulfilled.   *)
RegisteredIsPending ==
  \A s \in Selectors :
    Selects(s) /\ picked[selector[s].note] = None =>
      \A c \in Registered(s) :
        note[c] = selector[s].note /\ ~HasItemOrClosed(chan[c])

(* A pick is readable, before and after the selector has taken it over.    *)
PickIsReadable ==
  \A s \in Selectors :
    /\ Selects(s) /\ picked[selector[s].note] # None =>
         HasItemOrClosed(chan[picked[selector[s].note]])
    /\ selector[s].pc = "reading" => HasItemOrClosed(chan[selector[s].pick])

(* What is pending is either stale or the selector's own.                  *)
PendingIsOwned ==
  \A c \in Channels :
    note[c] # None =>
      \/ picked[note[c]] # None
      \/ \E s \in Selectors :
           Selects(s) /\ note[c] = selector[s].note /\ c \in Registered(s)

WakeupsOK == TodoOK /\ RegisteredIsPending /\ PickIsReadable /\ PendingIsOwned
WakeupInv == TypeOK /\ WakeupsOK

(* What a step of a writer, or a cancellation, means to a selector.        *)
LEMMA WriterEffect ==
  ASSUME TypeOK, NEW c \in Channels, WriterStep(c) \/ Cancel(c)
  PROVE  /\ UNCHANGED selector
         /\ \/ /\ UNCHANGED <<note, picked>>
               /\ \A d \in Channels : HasItemOrClosed(chan'[d]) <=> HasItemOrClosed(chan[d])
            \/ /\ FulfillWriteEventNotification(c)
               /\ HasItemOrClosed(chan'[c])
               /\ \A d \in Channels \ {c} : chan'[d] = chan[d]
<1> USE DEF TypeOK
<1>1. CASE BeginWrite(c) \/ WriteRefused(c) \/ WriteTimesOut(c)
  BY <1>1 DEF BeginWrite, WriteRefused, WriteTimesOut
<1>2. CASE WriteAccepted(c)
  <2>1. PICK item \in Item : chan' = [chan EXCEPT ![c] = Emplace(chan[c], item)]
    BY <1>2 DEF WriteAccepted
  <2>2. Emplace(chan[c], item).q = Append(chan[c].q, item) /\ chan[c].q \in Seq(Item)
    BY DEF Emplace, ChannelOf
  <2>3. Append(chan[c].q, item) # <<>>
    BY <2>2, AppendIsNotEmpty
  <2>4. HasItemOrClosed(chan'[c])
    BY <2>1, <2>2, <2>3 DEF HasItemOrClosed
  <2> QED
    BY <1>2, <2>1, <2>4 DEF WriteAccepted
<1>3. CASE Close(c)
  <2>1. CloseWrites(chan[c]).closed = TRUE
    BY DEF CloseWrites, ChannelOf
  <2> QED
    BY <1>3, <2>1 DEF Close, HasItemOrClosed
<1>4. CASE Cancel(c)
  <2>1. /\ CancelWriters(chan[c]).q = chan[c].q
        /\ CancelWriters(chan[c]).closed = chan[c].closed
    BY DEF CancelWriters, ChannelOf
  <2> QED
    BY <1>4, <2>1 DEF Cancel, HasItemOrClosed
<1> QED
  BY <1>1, <1>2, <1>3, <1>4 DEF WriterStep

(* Writes, closes and cancellations keep the wakeups: they notify what is  *)
(* registered.                                                             *)
LEMMA WriterKeepsWakeups ==
  ASSUME WakeupInv, NEW c \in Channels, WriterStep(c) \/ Cancel(c)
  PROVE  WakeupsOK'
<1> USE NoneAssumption DEF WakeupInv, WakeupsOK, TypeOK, Selects, Registered
<1>1. UNCHANGED selector
  BY WriterEffect
<1>2. CASE /\ UNCHANGED <<note, picked>>
           /\ \A d \in Channels : HasItemOrClosed(chan'[d]) <=> HasItemOrClosed(chan[d])
  <2>1. TodoOK' /\ PendingIsOwned'
    BY <1>1, <1>2 DEF TodoOK, PendingIsOwned
  <2>2. RegisteredIsPending'
    BY <1>1, <1>2 DEF RegisteredIsPending, SelectorState, HasItemOrClosed
  <2>3. PickIsReadable'
    BY <1>1, <1>2 DEF PickIsReadable, SelectorState, HasItemOrClosed
  <2> QED
    BY <2>1, <2>2, <2>3
<1>3. CASE /\ FulfillWriteEventNotification(c)
           /\ HasItemOrClosed(chan'[c])
           /\ \A d \in Channels \ {c} : chan'[d] = chan[d]
  <2>1. /\ note' = [note EXCEPT ![c] = None]
        /\ picked' = IF note[c] = None THEN picked ELSE Notify(note[c], c)
    BY <1>3 DEF FulfillWriteEventNotification
  <2>2. \A n \in Notes : picked[n] # None => picked'[n] = picked[n]
    BY <2>1 DEF Notify
  <2>3. \A n \in Notes : picked'[n] # picked[n] => picked'[n] = c /\ note[c] = n
    BY <2>1 DEF Notify
  <2>4. note[c] # None => picked'[note[c]] # None
    BY <2>1 DEF Notify
  <2>5. TodoOK'
    BY <1>1 DEF TodoOK
  <2>6. RegisteredIsPending'
    BY <1>1, <1>3, <2>1, <2>2, <2>4 DEF RegisteredIsPending, SelectorState, HasItemOrClosed
  <2>7. PickIsReadable'
    <3>1. \A d \in Channels : HasItemOrClosed(chan[d]) => HasItemOrClosed(chan'[d])
      BY <1>3 DEF HasItemOrClosed
    <3>2. ASSUME NEW s \in Selectors, Selects(s), picked'[selector[s].note] # None
          PROVE  HasItemOrClosed(chan'[picked'[selector[s].note]])
      <4>1. selector[s].note \in Notes
        BY <3>2
      <4>2. CASE picked[selector[s].note] = None
        BY <1>3, <2>3, <3>2, <4>1, <4>2
      <4>3. CASE picked[selector[s].note] # None
        <5>1. picked'[selector[s].note] = picked[selector[s].note]
          BY <2>2, <4>1, <4>3
        <5>2. /\ picked[selector[s].note] \in Channels
              /\ HasItemOrClosed(chan[picked[selector[s].note]])
          BY <3>2, <4>1, <4>3 DEF PickIsReadable
        <5> QED
          BY <3>1, <5>1, <5>2
      <4> QED
        BY <4>2, <4>3
    <3>3. ASSUME NEW s \in Selectors, selector[s].pc = "reading"
          PROVE  HasItemOrClosed(chan'[selector[s].pick])
      BY <3>1, <3>3 DEF PickIsReadable
    <3> QED
      BY <1>1, <3>2, <3>3 DEF PickIsReadable, HasItemOrClosed
  <2>8. PendingIsOwned'
    BY <1>1, <2>1, <2>2 DEF PendingIsOwned
  <2> QED
    BY <2>5, <2>6, <2>7, <2>8
<1> QED
  BY <1>2, <1>3, WriterEffect

(* A read leaves the only selector idle, so that it disturbs no pick.      *)
LEMMA ReadKeepsWakeups ==
  ASSUME OneSelector, WakeupInv, NEW s \in Selectors, NEW c \in Channels, Read(s, c),
         selector[s].pc \in {"idle", "reading"}
  PROVE  WakeupsOK'
<1> USE DEF WakeupInv, WakeupsOK, TypeOK, Selects, Registered
<1>1. /\ \A t \in Selectors : selector'[t] = Idle
      /\ UNCHANGED <<note, picked>>
  BY DEF Read, OneSelector
<1>2. Idle.pc = "idle" /\ Idle.todo = {} /\ Idle.readers = {}
  BY DEF Idle
<1>3. TodoOK' /\ RegisteredIsPending' /\ PickIsReadable'
  BY <1>1, <1>2 DEF TodoOK, RegisteredIsPending, PickIsReadable
<1>4. \A t \in Selectors : ~Selects(t)
  BY DEF OneSelector
<1>5. PendingIsOwned'
  BY <1>1, <1>4 DEF PendingIsOwned
<1> QED
  BY <1>3, <1>5

(* So does a registration, which looks at the channel in the same step.    *)
LEMMA RegisterKeepsWakeups ==
  ASSUME OneSelector, WakeupInv, NEW s \in Selectors, Register(s)
  PROVE  WakeupsOK'
<1> USE NoneAssumption DEF WakeupInv, WakeupsOK, TypeOK, Selects, Registered
<1> DEFINE n == selector[s].note
<1>1. PICK c \in selector[s].todo :
        /\ SetWriteEventNotification(c, n)
        /\ selector' = [selector EXCEPT ![s] =
             Selecting(selector[s].readers, selector[s].todo \ {c}, n)]
  BY DEF Register
<1>2. /\ selector[s].pc = "registering" /\ n \in Notes
      /\ c \in Channels /\ c \in selector[s].readers
      /\ UNCHANGED chan
  BY DEF Register, SelectorState, TodoOK
<1>3. /\ selector'[s].pc \in {"registering", "waiting"}
      /\ selector'[s].pc = "waiting" => selector'[s].todo = {}
      /\ selector'[s].note = n
      /\ selector'[s].readers = selector[s].readers
      /\ selector'[s].todo = selector[s].todo \ {c}
  BY <1>1 DEF Selecting
<1>4. \A t \in Selectors : t = s
  BY DEF OneSelector
<1>5. TodoOK'
  BY <1>3, <1>4 DEF TodoOK
<1>6. CASE HasItemOrClosed(chan[c])
  <2>1. /\ picked' = Notify(n, c)
        /\ note' = [note EXCEPT ![c] = None]
    BY <1>1, <1>6 DEF SetWriteEventNotification
  <2>2. /\ picked'[n] # None
        /\ picked'[n] = picked[n] \/ picked'[n] = c
        /\ picked[n] # None => picked'[n] = picked[n]
        /\ \A m \in Notes : picked[m] # None => picked'[m] # None
    BY <1>2, <2>1 DEF Notify
  <2>3. RegisteredIsPending'
    BY <1>3, <1>4, <2>2 DEF RegisteredIsPending
  <2>4. PickIsReadable'
    <3>1. HasItemOrClosed(chan[picked'[n]])
      BY <1>2, <1>6, <2>2 DEF PickIsReadable
    <3> QED
      BY <1>2, <1>3, <1>4, <3>1 DEF PickIsReadable, HasItemOrClosed
  <2>5. PendingIsOwned'
    BY <1>2, <1>3, <1>4, <2>1, <2>2 DEF PendingIsOwned
  <2> QED
    BY <1>5, <2>3, <2>4, <2>5
<1>7. CASE ~HasItemOrClosed(chan[c])
  <2>1. /\ picked' = picked
        /\ note' = [note EXCEPT ![c] = n]
    BY <1>1, <1>7 DEF SetWriteEventNotification
  <2>2. RegisteredIsPending'
    BY <1>2, <1>3, <1>4, <1>7, <2>1 DEF RegisteredIsPending, HasItemOrClosed
  <2>3. PickIsReadable'
    BY <1>2, <1>3, <1>4, <2>1 DEF PickIsReadable, HasItemOrClosed
  <2>4. ASSUME NEW d \in Channels, note'[d] # None, picked[note'[d]] = None
        PROVE  note'[d] = n /\ d \in selector'[s].readers \ selector'[s].todo
    <3>1. CASE d = c
      BY <1>2, <1>3, <2>1, <3>1
    <3>2. CASE d # c
      <4>1. note'[d] = note[d]
        BY <2>1, <3>2
      <4>2. note[d] = n /\ d \in selector[s].readers \ selector[s].todo
        BY <1>4, <2>4, <4>1 DEF PendingIsOwned
      <4> QED
        BY <1>3, <4>1, <4>2
    <3> QED
      BY <3>1, <3>2
  <2>5. PendingIsOwned'
    BY <1>3, <2>1, <2>4 DEF PendingIsOwned
  <2> QED
    BY <1>5, <2>2, <2>3, <2>5
<1> QED
  BY <1>6, <1>7

(* And the other steps of the selector.                                    *)
LEMMA SelectorKeepsWakeups ==
  ASSUME OneSelector, WakeupInv, NEW s \in Selectors, SelectorStep(s)
  PROVE  WakeupsOK'
<1> USE NoneAssumption DEF WakeupInv, WakeupsOK, TypeOK, Selects, Registered
<1>1. \A t \in Selectors : t = s
  BY DEF OneSelector
<1>2. CASE BeginSelect(s)
  <2>1. PICK n \in Notes :
          /\ Unreferenced(n)
          /\ picked' = [picked EXCEPT ![n] = None]
          /\ selector' = [selector EXCEPT ![s] =
               Selecting(Channels \ ended, Channels \ ended, n)]
    BY <1>2 DEF BeginSelect
  <2>2. /\ selector'[s].pc \in {"registering", "waiting"}
        /\ selector'[s].pc = "waiting" => selector'[s].todo = {}
        /\ selector'[s].note = n /\ picked'[n] = None
        /\ selector'[s].readers = selector'[s].todo
    BY <2>1 DEF Selecting
  <2>3. TodoOK' /\ RegisteredIsPending' /\ PickIsReadable'
    BY <1>1, <2>2 DEF TodoOK, RegisteredIsPending, PickIsReadable
  <2>4. \A c \in Channels : note[c] # None => picked'[note[c]] # None
    <3>1. ~Selects(s)
      BY <1>2 DEF BeginSelect
    <3> QED
      BY <1>1, <2>1, <3>1 DEF PendingIsOwned, Unreferenced
  <2> QED
    BY <1>2, <2>3, <2>4 DEF PendingIsOwned, BeginSelect
<1>3. CASE Register(s)
  BY <1>3, RegisterKeepsWakeups
<1>4. CASE SelectReturns(s)
  <2>1. /\ selector'[s] = Reading(picked[selector[s].note])
        /\ selector[s].pc = "waiting"
        /\ picked[selector[s].note] # None
        /\ UNCHANGED <<chan, note, picked>>
    BY <1>4 DEF SelectReturns
  <2>2. /\ selector'[s].pc = "reading" /\ selector'[s].todo = {} /\ selector'[s].readers = {}
        /\ selector'[s].pick = picked[selector[s].note]
    BY <2>1 DEF Reading
  <2>3. TodoOK' /\ RegisteredIsPending'
    BY <1>1, <2>2 DEF TodoOK, RegisteredIsPending
  <2>4. PickIsReadable'
    BY <1>1, <2>1, <2>2 DEF PickIsReadable, HasItemOrClosed
  <2>5. PendingIsOwned'
    BY <1>1, <2>1 DEF PendingIsOwned
  <2> QED
    BY <2>3, <2>4, <2>5
<1>5. CASE \E c \in Channels : ReadDirectly(s, c)
  BY <1>5, ReadKeepsWakeups DEF ReadDirectly
<1>6. CASE ReadPicked(s)
  BY <1>6, ReadKeepsWakeups DEF ReadPicked
<1> QED
  BY <1>2, <1>3, <1>4, <1>5, <1>6 DEF SelectorStep

(* WakeupInv holds at the beginning ...                                    *)
LEMMA WakeupInit == Init => WakeupInv
<1> SUFFICES ASSUME Init
             PROVE  WakeupsOK
  BY TypeInit DEF WakeupInv
<1>1. \A s \in Selectors : selector[s] = Idle
  BY DEF Init
<1>2. Idle.pc = "idle" /\ Idle.todo = {} /\ Idle.readers = {}
  BY DEF Idle
<1>3. \A c \in Channels : note[c] = None
  BY DEF Init
<1> QED
  BY <1>1, <1>2, <1>3
  DEF WakeupsOK, TodoOK, RegisteredIsPending, PickIsReadable, PendingIsOwned, Selects

(* ... and every step keeps it.                                            *)
LEMMA WakeupStep ==
  ASSUME OneSelector, WakeupInv, [Next]_vars
  PROVE  WakeupInv'
<1>1. \A c \in Channels : WriterStep(c) \/ Cancel(c) => WakeupsOK'
  BY WriterKeepsWakeups
<1>2. \A s \in Selectors : SelectorStep(s) => WakeupsOK'
  BY SelectorKeepsWakeups
<1>3. Next => WakeupsOK'
  BY <1>1, <1>2 DEF Next
<1>4. UNCHANGED vars => WakeupsOK'
  BY DEF vars, WakeupInv, WakeupsOK, TodoOK, RegisteredIsPending, PickIsReadable,
         PendingIsOwned, Selects, Registered, HasItemOrClosed
<1>5. TypeOK'
  BY TypeStep DEF WakeupInv
<1> QED
  BY <1>3, <1>4, <1>5 DEF WakeupInv

(* A sole selector misses no event: while it waits unnotified, none of its *)
(* channels has an item or is closed.                                      *)
THEOREM NoWakeupIsLost == ASSUME OneSelector PROVE Spec => []NoLostWakeup
<1>1. WakeupInv /\ [Next]_vars => WakeupInv'
  BY WakeupStep
<1>2. WakeupInv => NoLostWakeup
  <2> SUFFICES ASSUME WakeupInv, NEW s \in Selectors, selector[s].pc = "waiting",
                      picked[selector[s].note] = None, NEW c \in selector[s].readers
               PROVE  ~HasItemOrClosed(chan[c])
    BY DEF NoLostWakeup
  <2>1. c \in Registered(s) /\ Selects(s)
    BY DEF WakeupInv, WakeupsOK, TodoOK, Registered, Selects
  <2> QED
    BY <2>1 DEF WakeupInv, WakeupsOK, RegisteredIsPending
<1> QED
  BY WakeupInit, <1>1, <1>2, PTL DEF Spec

(* The read after a Select of a sole selector never blocks.                *)
THEOREM SelectedStaysReadable == ASSUME OneSelector PROVE Spec => []SelectedIsReadable
<1>1. WakeupInv /\ [Next]_vars => WakeupInv'
  BY WakeupStep
<1>2. WakeupInv => SelectedIsReadable
  BY DEF WakeupInv, WakeupsOK, PickIsReadable, SelectedIsReadable
<1> QED
  BY WakeupInit, <1>1, <1>2, PTL DEF Spec

(* A sole selector replaces a pending notification only once it has been   *)
(* notified, as the comment of SetWriteEventNotification asks.             *)
THEOREM ReplacedOnlyAfterNotified == ASSUME OneSelector PROVE Spec => SetOnlyAfterNotified
<1>1. WakeupInv /\ [Next]_vars => WakeupInv'
  BY WakeupStep
<1>2. ASSUME WakeupInv, [Next]_vars, NEW c \in Channels,
             note[c] # None, note'[c] # note[c]
      PROVE  picked'[note[c]] # None
  <2> USE NoneAssumption DEF WakeupInv, TypeOK
  <2>1. ASSUME NEW d \in Channels, WriterStep(d) \/ Cancel(d)
        PROVE  picked'[note[c]] # None
    <3>1. FulfillWriteEventNotification(d)
      BY <1>2, <2>1, WriterEffect
    <3>2. d = c
      BY <1>2, <3>1 DEF FulfillWriteEventNotification
    <3> QED
      BY <1>2, <3>1, <3>2 DEF FulfillWriteEventNotification, Notify
  <2>2. ASSUME NEW s \in Selectors, Register(s)
        PROVE  picked'[note[c]] # None
    <3>1. PICK d \in selector[s].todo : SetWriteEventNotification(d, selector[s].note)
      BY <2>2 DEF Register
    <3>2. d = c
      BY <1>2, <3>1 DEF SetWriteEventNotification
    <3>3. picked[note[c]] # None
      BY <1>2, <3>1, <3>2 DEF OneSelector, WakeupsOK, PendingIsOwned, Registered
    <3> QED
      BY <1>2, <3>1, <3>3 DEF SetWriteEventNotification, Notify
  <2>3. ASSUME NEW s \in Selectors, SelectorStep(s), ~Register(s)
        PROVE  FALSE
    BY <1>2, <2>3
    DEF SelectorStep, ReadDirectly, ReadPicked, Read, BeginSelect, SelectReturns
  <2>4. CASE UNCHANGED vars
    BY <1>2, <2>4 DEF vars
  <2> QED
    BY <1>2, <2>1, <2>2, <2>3, <2>4 DEF Next
<1>3. WakeupInv /\ [Next]_vars =>
        [\A c \in Channels :
           note[c] # None /\ note'[c] # note[c] => picked'[note[c]] # None]_vars
  BY <1>2
<1> QED
  BY WakeupInit, <1>1, <1>3, PTL DEF Spec, SetOnlyAfterNotified
=============================================================================
