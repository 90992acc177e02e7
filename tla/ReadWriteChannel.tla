-------------------------- MODULE ReadWriteChannel --------------------------
(***************************************************************************)
(* ReadWriteChannel and SelectForWriteEvent, with the threads that use     *)
(* them (streams/client/read_write_channel.h, _internal.h,                 *)
(* picked_notification.h).                                                 *)
(*                                                                         *)
(* Every channel has one writer thread, which writes any number of items   *)
(* and closes, and anybody may cancel the writers of a channel.  The       *)
(* selectors are reader threads: they read a channel directly, or they     *)
(* select over the channels that have not ended yet, as MainTask of the    *)
(* receivers does, and read the one that was picked.                       *)
(*                                                                         *)
(* A PickedNotification is a heap object shared by the selector and the    *)
(* channels it was registered with.  It is modelled as a member of Notes,  *)
(* which may be allocated again once nothing refers to it (shared_ptr).    *)
(***************************************************************************)
EXTENDS Channel, FiniteSets

CONSTANTS Channels, Selectors, Notes, Item, None,
          Capacity,  \* the `capacity` of every channel
          MaxWrites  \* bound: the items accepted by one channel

ASSUME NoneAssumption == None \notin Notes /\ None \notin Channels
ASSUME CapacityAssumption == Capacity \in Nat \ {0} /\ MaxWrites \in Nat

VARIABLES
  chan,      \* state_ of each channel, without its notification
  note,      \* write_event_notification_ of each channel
  picked,    \* picked_ of each PickedNotification
  writer,    \* what the writer thread of each channel is doing
  selector,  \* what each selector is doing, in which Select call
  accepted,  \* history: the items each channel accepted
  taken,     \* history: the items read from each channel
  ended      \* history: the channels that reported their end to a reader

vars == <<chan, note, picked, writer, selector, accepted, taken, ended>>

(* What a selector is doing: nothing; registering its notification with    *)
(* the readers in todo, or waiting for it once todo is empty; reading the  *)
(* channel that was picked.                                                *)
Idle == [pc |-> "idle", readers |-> {}, todo |-> {}, note |-> None, pick |-> None]
Selecting(readers, todo, n) ==
  [pc |-> IF todo = {} THEN "waiting" ELSE "registering",
   readers |-> readers, todo |-> todo, note |-> n, pick |-> None]
Reading(c) ==
  [pc |-> "reading", readers |-> {}, todo |-> {}, note |-> None, pick |-> c]

Init ==
  /\ chan = [c \in Channels |-> NewChannel]
  /\ note = [c \in Channels |-> None]
  /\ picked = [n \in Notes |-> None]
  /\ writer = [c \in Channels |-> "idle"]
  /\ selector = [s \in Selectors |-> Idle]
  /\ accepted = [c \in Channels |-> <<>>]
  /\ taken = [c \in Channels |-> <<>>]
  /\ ended = {}

-----------------------------------------------------------------------------
(* The notification of a write event.                                      *)

(* PickedNotification::Notify: the first pick stays.                       *)
Notify(n, c) == IF picked[n] = None THEN [picked EXCEPT ![n] = c] ELSE picked

(* Mutant of FulfillWriteEventNotification: cleared without a Notify.      *)
MutFulfillWriteEventNotification(c) ==
  /\ note' = [note EXCEPT ![c] = None]
  /\ UNCHANGED picked

FulfillWriteEventNotification(c) ==
  /\ picked' = IF note[c] = None THEN picked ELSE Notify(note[c], c)
  /\ note' = [note EXCEPT ![c] = None]

(* Mutants of SetWriteEventNotification: the first does not look whether   *)
(* the event has happened, the second takes that for granted.              *)
MutSetWithoutLooking(c, n) ==
  /\ note' = [note EXCEPT ![c] = n]
  /\ UNCHANGED picked

MutSetNotifies(c, n) ==
  /\ picked' = Notify(n, c)
  /\ note' = [note EXCEPT ![c] = None]

(* Replaces whatever notification was pending, and is fulfilled at once if *)
(* the event has already happened.                                         *)
SetWriteEventNotification(c, n) ==
  IF HasItemOrClosed(chan[c])
  THEN /\ picked' = Notify(n, c)
       /\ note' = [note EXCEPT ![c] = None]
  ELSE /\ note' = [note EXCEPT ![c] = n]
       /\ UNCHANGED picked

-----------------------------------------------------------------------------
(* The writer thread of a channel.                                         *)

BeginWrite(c) ==
  /\ writer[c] = "idle"
  /\ Len(accepted[c]) < MaxWrites
  /\ writer' = [writer EXCEPT ![c] = "writing"]
  /\ UNCHANGED <<chan, note, picked, selector, accepted, taken, ended>>

WriteAccepted(c) ==
  /\ writer[c] = "writing"
  /\ Emplaces(chan[c], Capacity)
  /\ \E item \in Item :
       /\ chan' = [chan EXCEPT ![c] = Emplace(@, item)]
       /\ accepted' = [accepted EXCEPT ![c] = Append(@, item)]
  /\ FulfillWriteEventNotification(c)
  /\ writer' = [writer EXCEPT ![c] = "idle"]
  /\ UNCHANGED <<selector, taken, ended>>

WriteRefused(c) ==
  /\ writer[c] = "writing"
  /\ EmplaceRefused(chan[c])
  /\ writer' = [writer EXCEPT ![c] = "idle"]
  /\ UNCHANGED <<chan, note, picked, selector, accepted, taken, ended>>

WriteTimesOut(c) ==
  /\ writer[c] = "writing"
  /\ ~HasRoomOrCancelled(chan[c], Capacity)
  /\ writer' = [writer EXCEPT ![c] = "idle"]
  /\ UNCHANGED <<chan, note, picked, selector, accepted, taken, ended>>

(* Mutant of Close: the pending notification is not fulfilled.             *)
MutClose(c) ==
  /\ writer[c] = "idle"
  /\ writer' = [writer EXCEPT ![c] = "done"]
  /\ chan' = [chan EXCEPT ![c] = CloseWrites(@)]
  /\ UNCHANGED <<note, picked, selector, accepted, taken, ended>>

Close(c) ==
  /\ writer[c] = "idle"
  /\ writer' = [writer EXCEPT ![c] = "done"]
  /\ chan' = [chan EXCEPT ![c] = CloseWrites(@)]
  /\ FulfillWriteEventNotification(c)
  /\ UNCHANGED <<selector, accepted, taken, ended>>

(* Any thread.                                                             *)
Cancel(c) ==
  /\ chan' = [chan EXCEPT ![c] = CancelWriters(@)]
  /\ UNCHANGED <<note, picked, writer, selector, accepted, taken, ended>>

-----------------------------------------------------------------------------
(* A reader thread.                                                        *)

(* TryPop, once its wait is over: either the front item or the end.  A     *)
(* read that times out leaves everything as it was.                        *)
Read(s, c) ==
  /\ HasItemOrClosed(chan[c])
  /\ IF PopsEnd(chan[c])
     THEN /\ ended' = ended \cup {c}
          /\ UNCHANGED <<chan, taken>>
     ELSE /\ taken' = [taken EXCEPT ![c] = Append(@, Front(chan[c]))]
          /\ chan' = [chan EXCEPT ![c] = Pop(@)]
          /\ UNCHANGED ended
  /\ selector' = [selector EXCEPT ![s] = Idle]
  /\ UNCHANGED <<note, picked, writer, accepted>>

ReadDirectly(s, c) ==
  /\ selector[s].pc = "idle"
  /\ Read(s, c)

(* SelectForWriteEvent makes a new notification, registers it with every   *)
(* reader in turn, waits for it and returns the pick.                      *)
Unreferenced(n) ==
  /\ \A c \in Channels : note[c] # n
  /\ \A s \in Selectors : selector[s].note # n

BeginSelect(s) ==
  /\ selector[s].pc = "idle"
  /\ Channels \ ended # {}
  /\ \E n \in Notes :
       /\ Unreferenced(n)
       /\ picked' = [picked EXCEPT ![n] = None]
       /\ selector' = [selector EXCEPT ![s] =
            Selecting(Channels \ ended, Channels \ ended, n)]
  /\ UNCHANGED <<chan, note, writer, accepted, taken, ended>>

Register(s) ==
  /\ selector[s].pc = "registering"
  /\ \E c \in selector[s].todo :
       /\ SetWriteEventNotification(c, selector[s].note)
       /\ selector' = [selector EXCEPT ![s] =
            Selecting(selector[s].readers, selector[s].todo \ {c}, selector[s].note)]
  /\ UNCHANGED <<chan, writer, accepted, taken, ended>>

(* Mutant of SelectReturns: it does not wait for the notification.         *)
MutSelectReturns(s) ==
  /\ selector[s].pc = "waiting"
  /\ selector' = [selector EXCEPT ![s] = Reading(picked[selector[s].note])]
  /\ UNCHANGED <<chan, note, picked, writer, accepted, taken, ended>>

SelectReturns(s) ==
  /\ selector[s].pc = "waiting"
  /\ picked[selector[s].note] # None
  /\ selector' = [selector EXCEPT ![s] = Reading(picked[selector[s].note])]
  /\ UNCHANGED <<chan, note, picked, writer, accepted, taken, ended>>

(* As in MainTask, the read of what was picked has no timeout.             *)
ReadPicked(s) ==
  /\ selector[s].pc = "reading"
  /\ Read(s, selector[s].pick)

-----------------------------------------------------------------------------
WriterStep(c) ==
  BeginWrite(c) \/ WriteAccepted(c) \/ WriteRefused(c) \/ WriteTimesOut(c) \/ Close(c)

SelectorStep(s) ==
  \/ \E c \in Channels : ReadDirectly(s, c)
  \/ BeginSelect(s) \/ Register(s) \/ SelectReturns(s) \/ ReadPicked(s)

Next ==
  \/ \E c \in Channels : WriterStep(c) \/ Cancel(c)
  \/ \E s \in Selectors : SelectorStep(s)

Spec == Init /\ [][Next]_vars

(* Threads are scheduled, a call that may return returns, and a selector   *)
(* goes on selecting.  Nobody has to write, to close or to cancel.         *)
Fairness ==
  /\ \A s \in Selectors :
       WF_vars(BeginSelect(s) \/ Register(s) \/ SelectReturns(s) \/ ReadPicked(s))
  /\ \A c \in Channels : WF_vars(WriteAccepted(c) \/ WriteRefused(c))

FairSpec == Spec /\ Fairness

-----------------------------------------------------------------------------
SelectorState ==
  [pc : {"idle", "registering", "waiting", "reading"},
   readers : SUBSET Channels, todo : SUBSET Channels,
   note : Notes \cup {None}, pick : Channels \cup {None}]

(* The type of every variable.                                             *)
TypeOK ==
  /\ chan \in [Channels -> ChannelOf(Item)]
  /\ note \in [Channels -> Notes \cup {None}]
  /\ picked \in [Notes -> Channels \cup {None}]
  /\ writer \in [Channels -> {"idle", "writing", "done"}]
  /\ selector \in [Selectors -> SelectorState]
  /\ \A s \in Selectors :
       /\ selector[s].pc \in {"registering", "waiting"} => selector[s].note \in Notes
       /\ selector[s].pc = "reading" => selector[s].pick \in Channels
  /\ accepted \in [Channels -> Seq(Item)]
  /\ taken \in [Channels -> Seq(Item)]
  /\ ended \in SUBSET Channels

(* What was read, followed by what is buffered, is what was accepted: no   *)
(* item is lost, repeated or overtaken on its way through TryEmplace and   *)
(* TryPop, also when writers are cancelled or the channel is closed while  *)
(* items are buffered.  And no channel holds more than its capacity.       *)
NothingLost ==
  \A c \in Channels :
    /\ accepted[c] = taken[c] \o chan[c].q
    /\ Len(chan[c].q) <= Capacity

(* A reader is told that a channel has ended only when everything that was *)
(* ever accepted has been read, and nothing is readable afterwards.        *)
EndIsFinal ==
  \A c \in ended : chan[c].closed /\ taken[c] = accepted[c]

(* No lost wakeup: while a selector waits and its notification has not     *)
(* been fulfilled, none of the channels it selects over has anything to    *)
(* read, although writes and closes raced with the registrations.          *)
NoLostWakeup ==
  \A s \in Selectors :
    selector[s].pc = "waiting" /\ picked[selector[s].note] = None =>
      \A c \in selector[s].readers : ~HasItemOrClosed(chan[c])

(* The read that follows a Select does not block: the picked channel still *)
(* has an item or is closed, although the pick only says that it had at    *)
(* some moment since the registration (true of a sole selector only).      *)
SelectedIsReadable ==
  \A s \in Selectors :
    selector[s].pc = "reading" => HasItemOrClosed(chan[selector[s].pick])

(* "Calls will be successful if all notifications set previously have been *)
(* Notify'd": a pending notification is replaced only after it was         *)
(* notified, here or by another channel.                                   *)
SetOnlyAfterNotified ==
  [][\A c \in Channels :
       note[c] # None /\ note'[c] # note[c] => picked'[note[c]] # None]_vars

(* Select loses no event for good: a selector that keeps selecting reads   *)
(* every closed channel to its end, whatever the order of writes, closes   *)
(* and registrations.                                                      *)
ClosedIsDrained == \A c \in Channels : chan[c].closed ~> c \in ended

(* Each channel implements the bounded stream (the conjunction over the    *)
(* channels of Stream(c)!Spec, with the box outside the quantifier).       *)
Stream(c) == INSTANCE BoundedStream
  WITH accepted <- accepted[c], taken <- taken[c],
       closed <- chan[c].closed, ended <- c \in ended

ImplementsStreams ==
  /\ \A c \in Channels : Stream(c)!Init
  /\ [][\A c \in Channels : [Stream(c)!Next]_(Stream(c)!vars)]_vars
=============================================================================
