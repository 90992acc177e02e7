--------------------------- MODULE PacketReceiver ---------------------------
(***************************************************************************)
(* PacketReceiver (streams/client/packet_receiver.cc) with the gRPC client *)
(* it drives (streaming_receive_packets_grpc_v1_client.cc).                *)
(*                                                                         *)
(* Five threads run concurrently: the user's, MainTask, OffsetCommitterTask*)
(* (here the committer), PacketTransferrerTask (the transferrer) and the   *)
(* transferrer's response reader (the responder).  They meet in six        *)
(* channels of capacity one, in four notifications and in the gRPC client. *)
(* The server and the transport are the environment.                       *)
(*                                                                         *)
(* Between two steps of a thread any other thread may run.  A step is one  *)
(* critical section, one wait or one gRPC call, with the local computation *)
(* that follows it.  EventUpdateReceiver (event_update_receiver.cc) has    *)
(* the same structure, line for line.                                      *)
(***************************************************************************)
EXTENDS Channel

CONSTANTS
  UserCalls,      \* the methods that the user's program calls
  MaxPackets,     \* bound: packets the server has to send
  HeartbeatsAt,   \* bound: sent packets at which the server sends heartbeats
  MaxCommits,     \* bound: offsets the user commits
  Window          \* bound: responses under way in the transport

ASSUME BoundsAssumption ==
  /\ UserCalls \subseteq {"Receive", "Commit", "CommitsDone", "Finish", "Cancel"}
  /\ MaxPackets \in Nat /\ MaxCommits \in Nat
  /\ HeartbeatsAt \subseteq 0..MaxPackets
  /\ Window \in Nat \ {0}

(* Every channel of the receiver is constructed with capacity 1.           *)
Capacity == 1

(* The members of the `response` oneof, as far as the client looks.        *)
PacketResponse(n) == [kind |-> "packet", packet |-> n]
Heartbeat         == [kind |-> "heartbeat", packet |-> 0]
(* Mutant of WritesDoneRequest: a control message the client has no case for. *)
MutWritesDoneRequest == [kind |-> "control", packet |-> 0]
WritesDoneRequest == [kind |-> "writes_done_request", packet |-> 0]
NoResponse        == [kind |-> "none", packet |-> 0]
Response ==
  [kind : {"packet", "heartbeat", "writes_done_request", "none"}, packet : Nat]

(* The codes an RPC ends with: the server has nothing left to send, the    *)
(* client cancelled, or anything else that severs it.                      *)
RpcCode == {"OUT_OF_RANGE", "CANCELLED", "UNAVAILABLE"}
Code    == RpcCode \cup {"OK", "INTERNAL"}

VARIABLES
  \* The user's thread.
  user,              \* the call it is in
  notJoined,         \* main_->is_not_joined_
  delivered,         \* history: the packets Receive stored, in order
  endSeen,           \* history: Receive has reported the end
  issued,            \* history: the number of offsets accepted by Commit
  finishReturn,      \* the last return of Finish
  \* MainTask.
  main, collected, returnStatus,
  \* OffsetCommitterTask.
  committer, committerOffset, committerCancelled,
  \* PacketTransferrerTask.
  transferrer, transferrerResponse, transferrerCancelled,
  readChannelClosed, transferrerFinal,
  \* Its response reader.
  responder, responderResponse, responderCancelled,
  \* The channels.
  mainStatus, receive, commit, committerStatus, transferrerStatus, response,
  \* The gRPC client.
  rpcOpen, readTerminated, writeTerminated,
  \* The RPC, the transport and the server.
  rpc, tryCancelled, inbound, sent, writesDoneRequested, committed, halfClosed

userHistory == <<notJoined, delivered, endSeen, issued, finishReturn>>
userVars == <<user, userHistory>>
mainVars == <<main, collected, returnStatus>>
committerVars == <<committer, committerOffset>>
transferrerVars == <<transferrer, transferrerResponse, readChannelClosed,
                     transferrerFinal>>
responderVars == <<responder, responderResponse>>
threadVars == <<userVars, mainVars, committerVars, transferrerVars, responderVars>>
cancelVars == <<committerCancelled, transferrerCancelled, responderCancelled>>
channels == <<mainStatus, receive, commit, committerStatus,
              transferrerStatus, response>>
clientVars == <<rpcOpen, readTerminated, writeTerminated>>
rpcVars == <<rpc, tryCancelled>>
serverVars == <<inbound, sent, writesDoneRequested, committed, halfClosed>>
vars == <<threadVars, cancelVars, channels, clientVars, rpcVars, serverVars>>

(* Initialize has returned: the setup request is written, the channels are *)
(* made and MainTask has been started.  That MainTask has not started its  *)
(* workers yet is the same as their not having taken a step.               *)
Init ==
  /\ user = "idle" /\ notJoined = TRUE
  /\ delivered = <<>> /\ endSeen = FALSE /\ issued = 0
  /\ finishReturn = "NONE"
  /\ main = "collect_first" /\ collected = {} /\ returnStatus = "OK"
  /\ committer = "loop" /\ committerOffset = 0 /\ committerCancelled = FALSE
  /\ transferrer = "loop" /\ transferrerResponse = NoResponse
  /\ transferrerCancelled = FALSE
  /\ readChannelClosed = FALSE /\ transferrerFinal = "OK"
  /\ responder = "loop" /\ responderResponse = NoResponse
  /\ responderCancelled = FALSE
  /\ mainStatus = NewChannel /\ receive = NewChannel /\ commit = NewChannel
  /\ committerStatus = NewChannel /\ transferrerStatus = NewChannel
  /\ response = NewChannel
  /\ rpcOpen = TRUE /\ readTerminated = FALSE /\ writeTerminated = FALSE
  /\ rpc = "open" /\ tryCancelled = FALSE /\ inbound = <<>> /\ sent = 0
  /\ writesDoneRequested = FALSE
  /\ committed = <<>> /\ halfClosed = FALSE

-----------------------------------------------------------------------------
(* The gRPC client.  Each thread's step lists what it changes; the frame   *)
(* of the thread, at its disjunct of Next, leaves the rest unchanged.      *)

(* Mutant of ClientCancel: the write stream is not marked.                 *)
MutClientCancel ==
  IF rpcOpen
  THEN /\ tryCancelled' = TRUE
       /\ rpc' = IF rpc = "open" THEN "CANCELLED" ELSE rpc
       /\ readTerminated' = TRUE
       /\ UNCHANGED <<rpcOpen, writeTerminated>>
  ELSE UNCHANGED <<clientVars, rpcVars>>

(* Cancel: TryCancel, then both flags.  The flags only ever become true,   *)
(* and a call that slips in between fails as it does after the last one.   *)
ClientCancel ==
  IF rpcOpen
  THEN /\ tryCancelled' = TRUE
       /\ rpc' = IF rpc = "open" THEN "CANCELLED" ELSE rpc
       /\ readTerminated' = TRUE
       /\ writeTerminated' = TRUE
       /\ UNCHANGED rpcOpen
  ELSE UNCHANGED <<clientVars, rpcVars>>

(* What Finish demands before it asks the stream for the final status.     *)
FinishPrecondition == rpcOpen /\ writeTerminated /\ readTerminated

(* A write, or a WritesDone, waits for as long as the server does not read *)
(* (see Fairness); once the RPC is over it fails.                          *)
WriteMayBlock == rpc = "open" /\ committer \in {"write", "writes_done"}

-----------------------------------------------------------------------------
(* The user's thread: one call at a time.                                  *)

Calls(method, call) == user = "idle" /\ method \in UserCalls /\ user' = call
Returns             == user' = "idle"

BeginReceive ==
  /\ Calls("Receive", "receiving")
  /\ UNCHANGED <<userHistory, committerCancelled, transferrerCancelled, mainStatus,
                 receive, commit>>

ReceiveGetsPacket ==
  /\ user = "receiving"
  /\ PopsItem(receive)
  /\ delivered' = Append(delivered, Front(receive))
  /\ receive' = Pop(receive)
  /\ Returns
  /\ UNCHANGED <<notJoined, endSeen, issued, finishReturn, committerCancelled,
                 transferrerCancelled, mainStatus, commit>>

(* The channel has ended: Receive(timeout, packet, ok) says so, and        *)
(* Receive(timeout, packet) goes on with CommitsDone and Finish.  The two  *)
(* forms differ in nothing else.                                           *)
ReceiveEnds ==
  /\ user = "receiving"
  /\ PopsEnd(receive)
  /\ endSeen' = TRUE
  /\ \/ Returns /\ UNCHANGED commit
     \/ user' = "receive_finishing" /\ commit' = CloseWrites(commit)
  /\ UNCHANGED <<notJoined, delivered, issued, finishReturn, committerCancelled,
                 transferrerCancelled, mainStatus, receive>>

(* A timed Receive, or a timed Commit, gives up.                           *)
UserTimesOut ==
  /\ \/ user = "receiving" /\ ~HasItemOrClosed(receive)
     \/ user = "committing" /\ ~HasRoomOrCancelled(commit, Capacity)
  /\ Returns
  /\ UNCHANGED <<userHistory, committerCancelled, transferrerCancelled, mainStatus,
                 receive, commit>>

(* The n-th Commit commits the offset n.  CommitsDone signals that all     *)
(* commits have been issued: the user does not commit after it.            *)
BeginCommit ==
  /\ Calls("Commit", "committing")
  /\ ~commit.closed
  /\ issued < MaxCommits
  /\ UNCHANGED <<userHistory, committerCancelled, transferrerCancelled, mainStatus,
                 receive, commit>>

CommitReturns ==
  /\ user = "committing"
  /\ HasRoomOrCancelled(commit, Capacity)
  /\ IF EmplaceRefused(commit)
     THEN UNCHANGED <<commit, issued>>
     ELSE commit' = Emplace(commit, issued + 1) /\ issued' = issued + 1
  /\ Returns
  /\ UNCHANGED <<notJoined, delivered, endSeen, finishReturn, committerCancelled,
                 transferrerCancelled, mainStatus, receive>>

CommitsDone ==
  /\ Calls("CommitsDone", "idle")
  /\ commit' = CloseWrites(commit)
  /\ UNCHANGED <<userHistory, committerCancelled, transferrerCancelled, mainStatus,
                 receive>>

(* Bound: the user calls Finish once; Receive(timeout, packet) calls it    *)
(* whenever it meets the end.                                              *)
BeginFinish ==
  /\ Calls("Finish", "finishing")
  /\ finishReturn = "NONE"
  /\ UNCHANGED <<userHistory, committerCancelled, transferrerCancelled, mainStatus,
                 receive, commit>>

(* A read of a status channel whose `ok` is ignored: without an item the   *)
(* status stays as it was constructed, OK.                                 *)
StatusRead(ch) == IF PopsItem(ch) THEN Front(ch) ELSE "OK"
AfterRead(ch)  == IF PopsItem(ch) THEN Pop(ch) ELSE ch

FinishReturns ==
  /\ user \in {"finishing", "receive_finishing"}
  /\ HasItemOrClosed(mainStatus)
  /\ finishReturn' = StatusRead(mainStatus)
  /\ mainStatus' = AfterRead(mainStatus)
  /\ Returns
  /\ UNCHANGED <<notJoined, delivered, endSeen, issued, committerCancelled,
                 transferrerCancelled, receive, commit>>

(* Cancel, and the destructor: if MainTask is joinable, Worker::Cancel     *)
(* runs CancelMainTask unless MainTask is done, and Join waits for it.     *)
BeginCancel ==
  /\ Calls("Cancel", IF main = "done" THEN "joining" ELSE "cancel_committer")
  /\ notJoined
  /\ UNCHANGED <<userHistory, committerCancelled, transferrerCancelled, mainStatus,
                 receive, commit>>

(* Mutant of CancelMainTask: the writers of the receive channel are not    *)
(* cancelled.                                                              *)
MutCancelMainTask ==
  /\ \/ /\ user = "cancel_committer" /\ user' = "cancel_transferrer"
        /\ committerCancelled' = TRUE
        /\ UNCHANGED <<transferrerCancelled, commit>>
     \/ /\ user = "cancel_transferrer" /\ user' = "joining"
        /\ transferrerCancelled' = TRUE
        /\ commit' = CancelWriters(commit)
        /\ UNCHANGED committerCancelled
  /\ UNCHANGED <<userHistory, mainStatus, receive>>

CancelMainTask ==
  /\ \/ /\ user = "cancel_committer" /\ user' = "cancel_transferrer"
        /\ committerCancelled' = TRUE
        /\ UNCHANGED <<transferrerCancelled, receive, commit>>
     \/ /\ user = "cancel_transferrer" /\ user' = "joining"
        /\ transferrerCancelled' = TRUE
        /\ receive' = CancelWriters(receive)
        /\ commit' = CancelWriters(commit)
        /\ UNCHANGED committerCancelled
  /\ UNCHANGED <<userHistory, mainStatus>>

CancelReturns ==
  /\ user = "joining"
  /\ main = "done"
  /\ notJoined' = FALSE
  /\ Returns
  /\ UNCHANGED <<delivered, endSeen, issued, finishReturn, committerCancelled,
                 transferrerCancelled, mainStatus, receive, commit>>

(* The calls that end by themselves, without the user deciding anything.   *)
UserReturns ==
  /\ ReceiveGetsPacket \/ ReceiveEnds \/ CommitReturns \/ FinishReturns
     \/ CancelMainTask \/ CancelReturns
  /\ UNCHANGED <<mainVars, committerVars, transferrerVars, responderVars,
                 responderCancelled, committerStatus, transferrerStatus, response,
                 clientVars, rpcVars, serverVars>>

UserActs ==
  /\ BeginReceive \/ UserTimesOut \/ BeginCommit \/ CommitsDone \/ BeginFinish
     \/ BeginCancel
  /\ UNCHANGED <<mainVars, committerVars, transferrerVars, responderVars,
                 responderCancelled, committerStatus, transferrerStatus, response,
                 clientVars, rpcVars, serverVars>>

-----------------------------------------------------------------------------
(* MainTask.                                                               *)

Workers == {"committer", "transferrer"}

(* Phase 1: Select one of the workers that have no status yet and read it, *)
(* until both are there or one is not OK.                                  *)
RecordStatus(worker, status) ==
  /\ worker \notin collected
  /\ collected' = collected \cup {worker}
  /\ returnStatus' = status
  /\ main' = IF status # "OK" \/ collected \cup {worker} = Workers
             THEN "cancel_committer" ELSE main

MainCollectsFirst ==
  /\ main = "collect_first"
  /\ \/ /\ HasItemOrClosed(committerStatus)
        /\ RecordStatus("committer", StatusRead(committerStatus))
        /\ committerStatus' = AfterRead(committerStatus)
        /\ UNCHANGED transferrerStatus
     \/ /\ HasItemOrClosed(transferrerStatus)
        /\ RecordStatus("transferrer", StatusRead(transferrerStatus))
        /\ transferrerStatus' = AfterRead(transferrerStatus)
        /\ UNCHANGED committerStatus
  /\ UNCHANGED <<committerCancelled, transferrerCancelled, mainStatus, commit, rpcOpen>>

(* Phase 2: cancel the workers that still run, join both, and read the     *)
(* remaining statuses, which are not looked at.                            *)
MainCancels ==
  /\ \/ /\ main = "cancel_committer" /\ main' = "cancel_transferrer"
        /\ committerCancelled' = (committerCancelled \/ committer # "done")
        /\ UNCHANGED transferrerCancelled
     \/ /\ main = "cancel_transferrer" /\ main' = "join"
        /\ transferrerCancelled' = (transferrerCancelled \/ transferrer # "done")
        /\ UNCHANGED committerCancelled
  /\ UNCHANGED <<collected, returnStatus, committerStatus, transferrerStatus,
                 mainStatus, commit, rpcOpen>>

(* The workers are done, so the reads do not block.                        *)
MainJoins ==
  /\ main = "join"
  /\ committer = "done" /\ transferrer = "done"
  /\ committerStatus' =
       IF "committer" \in collected THEN committerStatus ELSE AfterRead(committerStatus)
  /\ transferrerStatus' =
       IF "transferrer" \in collected THEN transferrerStatus ELSE AfterRead(transferrerStatus)
  /\ collected' = Workers
  /\ main' = IF returnStatus = "OK" THEN "finish_rpc" ELSE "return"
  /\ UNCHANGED <<returnStatus, committerCancelled, transferrerCancelled, mainStatus,
                 commit, rpcOpen>>

(* Finish of the gRPC client: an error if its precondition fails, else the *)
(* status of the RPC, once the RPC is over, and stream_ is reset.          *)
MainFinishesRpc ==
  /\ main = "finish_rpc"
  /\ FinishPrecondition => rpc # "open"
  /\ returnStatus' = IF FinishPrecondition THEN rpc ELSE "INTERNAL"
  /\ rpcOpen' = (rpcOpen /\ ~FinishPrecondition)
  /\ main' = "return"
  /\ UNCHANGED <<collected, committerCancelled, transferrerCancelled, committerStatus,
                 transferrerStatus, mainStatus, commit>>

(* Mutant of MainReturns: the writers of the commits are not cancelled.    *)
MutMainReturns ==
  /\ main = "return"
  /\ Emplaces(mainStatus, Capacity)
  /\ mainStatus' = CloseWrites(Emplace(mainStatus, returnStatus))
  /\ main' = "done"
  /\ UNCHANGED <<collected, returnStatus, committerCancelled, transferrerCancelled,
                 committerStatus, transferrerStatus, commit, rpcOpen>>

(* return_with_status.                                                     *)
MainReturns ==
  /\ main = "return"
  /\ Emplaces(mainStatus, Capacity)
  /\ mainStatus' = CloseWrites(Emplace(mainStatus, returnStatus))
  /\ commit' = CancelWriters(commit)
  /\ main' = "done"
  /\ UNCHANGED <<collected, returnStatus, committerCancelled, transferrerCancelled,
                 committerStatus, transferrerStatus, rpcOpen>>

MainStep ==
  /\ MainCollectsFirst \/ MainCancels \/ MainJoins \/ MainFinishesRpc \/ MainReturns
  /\ UNCHANGED <<userVars, committerVars, transferrerVars, responderVars,
                 responderCancelled, receive, response, readTerminated,
                 writeTerminated, rpcVars, serverVars>>

-----------------------------------------------------------------------------
(* OffsetCommitterTask.                                                    *)

CommitterLoops ==
  /\ committer = "loop"
  /\ committer' = IF committerCancelled THEN "cancel_rpc" ELSE "read"
  /\ UNCHANGED <<committerOffset, commit, committerStatus, clientVars, rpcVars,
                 committed, halfClosed>>

(* One read with a timeout: nothing yet, the end, or an offset.            *)
CommitterReads ==
  /\ committer = "read"
  /\ \/ /\ ~HasItemOrClosed(commit)
        /\ committer' = "loop"
        /\ UNCHANGED <<committerOffset, commit>>
     \/ /\ PopsEnd(commit)
        /\ committer' = "writes_done"
        /\ UNCHANGED <<committerOffset, commit>>
     \/ /\ PopsItem(commit)
        /\ committer' = "write"
        /\ committerOffset' = Front(commit)
        /\ commit' = Pop(commit)
  /\ UNCHANGED <<committerStatus, clientVars, rpcVars, committed, halfClosed>>

(* WriteCommit does not look at the flag; it sets it when the write fails. *)
CommitterWrites ==
  /\ committer = "write"
  /\ IF rpc = "open"
     THEN /\ committed' = Append(committed, committerOffset)
          /\ committer' = "loop"
          /\ UNCHANGED writeTerminated
     ELSE /\ writeTerminated' = TRUE
          /\ committer' = "return"
          /\ UNCHANGED committed
  /\ committerOffset' = 0
  /\ UNCHANGED <<commit, committerStatus, rpcOpen, readTerminated, rpcVars, halfClosed>>

CommitterWritesDone ==
  /\ committer = "writes_done"
  /\ halfClosed' = (halfClosed \/ (~writeTerminated /\ rpc = "open"))
  /\ writeTerminated' = TRUE
  /\ committer' = "return"
  /\ UNCHANGED <<committerOffset, commit, committerStatus, rpcOpen, readTerminated,
                 rpcVars, committed>>

CommitterCancelsRpc ==
  /\ committer = "cancel_rpc"
  /\ ClientCancel
  /\ committer' = "return"
  /\ UNCHANGED <<committerOffset, commit, committerStatus, committed, halfClosed>>

(* return_with_status; the status is always OK.                            *)
CommitterReturns ==
  /\ committer = "return"
  /\ Emplaces(committerStatus, Capacity)
  /\ committerStatus' = CloseWrites(Emplace(committerStatus, "OK"))
  /\ committer' = "done"
  /\ UNCHANGED <<committerOffset, commit, clientVars, rpcVars, committed, halfClosed>>

CommitterStep ==
  /\ CommitterLoops \/ CommitterReads \/ CommitterWrites \/ CommitterWritesDone
     \/ CommitterCancelsRpc \/ CommitterReturns
  /\ UNCHANGED <<userVars, mainVars, transferrerVars, responderVars, cancelVars,
                 mainStatus, receive, transferrerStatus, response, inbound, sent,
                 writesDoneRequested>>

-----------------------------------------------------------------------------
(* PacketTransferrerTask.                                                  *)

(* The test of the outer loop.  After it, the channel is closed forcefully *)
(* unless the end of the responses was read.                               *)
TransferrerLoops ==
  /\ transferrer = "loop"
  /\ transferrer' = IF ~transferrerCancelled THEN "poll"
                    ELSE IF readChannelClosed THEN "join" ELSE "cancel_responder"
  /\ UNCHANGED <<transferrerResponse, readChannelClosed, transferrerFinal,
                 responderCancelled, receive, response, transferrerStatus,
                 clientVars, rpcVars>>

(* One of the polls that make up a heartbeat interval.  The test after one *)
(* that timed out is that of the loop.                                     *)
TransferrerPolls ==
  /\ transferrer = "poll"
  /\ \/ /\ ~HasItemOrClosed(response)
        /\ transferrer' = "loop"
        /\ UNCHANGED <<transferrerResponse, readChannelClosed, response>>
     \/ /\ PopsEnd(response)
        /\ readChannelClosed' = TRUE
        /\ transferrer' = "join"
        /\ UNCHANGED <<transferrerResponse, response>>
     \/ /\ PopsItem(response)
        /\ transferrerResponse' = Front(response)
        /\ response' = Pop(response)
        /\ transferrer' = "handle"
        /\ UNCHANGED readChannelClosed
  /\ UNCHANGED <<transferrerFinal, responderCancelled, receive, transferrerStatus,
                 clientVars, rpcVars>>

(* The polls of a whole interval timed out.  An interval is many polls of  *)
(* a second, and the responder runs in that time: the server was silent.   *)
ServerSilent ==
  /\ ~HasItemOrClosed(response)
  /\ responder = "stream_read"
  /\ inbound = <<>>
  /\ rpc = "open"

TransferrerMissesHeartbeat ==
  /\ transferrer = "poll"
  /\ ServerSilent
  /\ transferrer' = "cancel_responder"
  /\ UNCHANGED <<transferrerResponse, readChannelClosed, transferrerFinal,
                 responderCancelled, receive, response, transferrerStatus,
                 clientVars, rpcVars>>

(* Deliver a packet (unless the receive channel was cancelled), ignore a   *)
(* heartbeat, and close the receive channel at a writes done request.      *)
TransferrerHandles ==
  /\ transferrer = "handle"
  /\ \/ /\ transferrerResponse.kind = "packet"
        /\ HasRoomOrCancelled(receive, Capacity)
        /\ IF EmplaceRefused(receive)
           THEN transferrer' = "cancel_responder" /\ UNCHANGED receive
           ELSE /\ receive' = Emplace(receive, transferrerResponse.packet)
                /\ transferrer' = "loop"
     \/ /\ transferrerResponse.kind = "heartbeat"
        /\ transferrer' = "loop"
        /\ UNCHANGED receive
     \/ /\ transferrerResponse.kind = "writes_done_request"
        /\ receive' = CloseWrites(receive)
        /\ transferrer' = "await_end"
  /\ transferrerResponse' = NoResponse
  /\ UNCHANGED <<readChannelClosed, transferrerFinal, responderCancelled, response,
                 transferrerStatus, clientVars, rpcVars>>

(* After a writes done request: wait for the end of the responses or for a *)
(* cancellation, looking for the latter only when a read timed out.  A     *)
(* further response is dropped and makes the final status an error.        *)
TransferrerAwaitsEnd ==
  /\ \/ /\ transferrer = "await_end"
        /\ ~HasItemOrClosed(response)
        /\ transferrer' = "await_cancel"
        /\ UNCHANGED <<readChannelClosed, transferrerFinal, response>>
     \/ /\ transferrer = "await_end"
        /\ PopsEnd(response)
        /\ readChannelClosed' = TRUE
        /\ transferrer' = "loop"
        /\ UNCHANGED <<transferrerFinal, response>>
     \/ /\ transferrer = "await_end"
        /\ PopsItem(response)
        /\ response' = Pop(response)
        /\ transferrerFinal' = "INTERNAL"
        /\ transferrer' = "loop"
        /\ UNCHANGED readChannelClosed
     \/ /\ transferrer = "await_cancel"
        /\ transferrer' = IF transferrerCancelled THEN "loop" ELSE "await_end"
        /\ UNCHANGED <<readChannelClosed, transferrerFinal, response>>
  /\ UNCHANGED <<transferrerResponse, responderCancelled, receive, transferrerStatus,
                 clientVars, rpcVars>>

(* The forceful close: cancel the responder, its writes, and the RPC.      *)
TransferrerCancels ==
  /\ \/ /\ transferrer = "cancel_responder" /\ transferrer' = "cancel_rpc"
        /\ responderCancelled' = (responder # "done")
        /\ response' = CancelWriters(response)
        /\ UNCHANGED <<clientVars, rpcVars>>
     \/ /\ transferrer = "cancel_rpc" /\ transferrer' = "join"
        /\ ClientCancel
        /\ UNCHANGED <<responderCancelled, response>>
  /\ UNCHANGED <<transferrerResponse, readChannelClosed, transferrerFinal, receive,
                 transferrerStatus>>

(* Mutant of TransferrerReturns: the receive channel stays open.           *)
MutTransferrerReturns ==
  /\ transferrer = "join"
  /\ responder = "done"
  /\ Emplaces(transferrerStatus, Capacity)
  /\ transferrerStatus' = CloseWrites(Emplace(transferrerStatus, transferrerFinal))
  /\ transferrer' = "done"
  /\ UNCHANGED <<transferrerResponse, readChannelClosed, transferrerFinal,
                 responderCancelled, receive, response, clientVars, rpcVars>>

(* Mutant of TransferrerReturns: the responder is not joined.              *)
MutTransferrerSkipsJoin ==
  /\ transferrer = "join"
  /\ Emplaces(transferrerStatus, Capacity)
  /\ transferrerStatus' = CloseWrites(Emplace(transferrerStatus, transferrerFinal))
  /\ receive' = CloseWrites(receive)
  /\ transferrer' = "done"
  /\ UNCHANGED <<transferrerResponse, readChannelClosed, transferrerFinal,
                 responderCancelled, response, clientVars, rpcVars>>

(* Join the responder, then return_with_status.                            *)
TransferrerReturns ==
  /\ transferrer = "join"
  /\ responder = "done"
  /\ Emplaces(transferrerStatus, Capacity)
  /\ transferrerStatus' = CloseWrites(Emplace(transferrerStatus, transferrerFinal))
  /\ receive' = CloseWrites(receive)
  /\ transferrer' = "done"
  /\ UNCHANGED <<transferrerResponse, readChannelClosed, transferrerFinal,
                 responderCancelled, response, clientVars, rpcVars>>

TransferrerFrame ==
  UNCHANGED <<userVars, mainVars, committerVars, responderVars, committerCancelled,
              transferrerCancelled, mainStatus, commit, committerStatus, serverVars>>

TransferrerStep ==
  /\ TransferrerLoops \/ TransferrerPolls \/ TransferrerHandles
     \/ TransferrerAwaitsEnd \/ TransferrerCancels \/ TransferrerReturns
  /\ TransferrerFrame

MissHeartbeat == TransferrerMissesHeartbeat /\ TransferrerFrame

-----------------------------------------------------------------------------
(* The response reader.                                                    *)

(* Mutant of ResponderReturns: the response channel stays open.            *)
MutResponderReturns ==
  /\ responder' = "done"
  /\ UNCHANGED response

(* The loop has ended.                                                     *)
ResponderReturns ==
  /\ response' = CloseWrites(response)
  /\ responder' = "done"

(* The test of the loop, and the test at the start of the client's Read.   *)
ResponderLoops ==
  /\ responder = "loop"
  /\ IF responderCancelled \/ readTerminated
     THEN ResponderReturns
     ELSE responder' = "stream_read" /\ UNCHANGED response
  /\ UNCHANGED <<responderResponse, readTerminated, inbound>>

(* Mutant of ResponderReads: the end of the RPC is taken for the end of    *)
(* the responses.                                                          *)
MutResponderReads ==
  /\ responder = "stream_read"
  /\ \/ /\ inbound # <<>>
        /\ responderResponse' = Head(inbound)
        /\ inbound' = Tail(inbound)
        /\ responder' = "write"
        /\ UNCHANGED <<response, readTerminated>>
     \/ /\ rpc # "open"
        /\ readTerminated' = TRUE
        /\ ResponderReturns
        /\ UNCHANGED <<responderResponse, inbound>>

(* The stream's Read.  Once the RPC is cancelled here, the responses that  *)
(* had arrived may or may not be handed out.                               *)
ResponderReads ==
  /\ responder = "stream_read"
  /\ \/ /\ inbound # <<>>
        /\ responderResponse' = Head(inbound)
        /\ inbound' = Tail(inbound)
        /\ responder' = "write"
        /\ UNCHANGED <<response, readTerminated>>
     \/ /\ tryCancelled \/ (rpc # "open" /\ inbound = <<>>)
        /\ readTerminated' = TRUE
        /\ ResponderReturns
        /\ UNCHANGED <<responderResponse, inbound>>

ResponderWrites ==
  /\ responder = "write"
  /\ HasRoomOrCancelled(response, Capacity)
  /\ IF EmplaceRefused(response)
     THEN ResponderReturns
     ELSE responder' = "loop" /\ response' = Emplace(response, responderResponse)
  /\ responderResponse' = NoResponse
  /\ UNCHANGED <<readTerminated, inbound>>

ResponderStep ==
  /\ ResponderLoops \/ ResponderReads \/ ResponderWrites
  /\ UNCHANGED <<userVars, mainVars, committerVars, transferrerVars, cancelVars,
                 mainStatus, receive, commit, committerStatus, transferrerStatus,
                 rpcOpen, writeTerminated, rpcVars, sent,
                 writesDoneRequested, committed, halfClosed>>

-----------------------------------------------------------------------------
(* The server and the transport (not in this repository).                  *)

ServerSends(resp) ==
  /\ rpc = "open"
  /\ Len(inbound) < Window
  /\ inbound' = Append(inbound, resp)
  /\ UNCHANGED <<rpc>>

(* The writes done request follows the last packet.                        *)
ServerSendsPacket ==
  /\ sent < MaxPackets
  /\ ~writesDoneRequested
  /\ ServerSends(PacketResponse(sent + 1))
  /\ sent' = sent + 1
  /\ UNCHANGED writesDoneRequested

(* As many as it likes, but at these places of the session only.           *)
ServerSendsHeartbeat ==
  /\ sent \in HeartbeatsAt
  /\ ServerSends(Heartbeat)
  /\ UNCHANGED <<sent, writesDoneRequested>>

ServerRequestsWritesDone ==
  /\ ~writesDoneRequested
  /\ ServerSends(WritesDoneRequest)
  /\ writesDoneRequested' = TRUE
  /\ UNCHANGED sent

(* The server ends the RPC: what it sent can still be read.                *)
ServerEnds ==
  /\ rpc = "open"
  /\ rpc' = "OUT_OF_RANGE"
  /\ UNCHANGED <<inbound, sent, writesDoneRequested>>

(* The connection breaks: what is under way is lost.                       *)
RpcBreaks ==
  /\ rpc = "open"
  /\ rpc' = "UNAVAILABLE"
  /\ inbound' = <<>>
  /\ UNCHANGED <<sent, writesDoneRequested>>

EnvironmentFrame ==
  UNCHANGED <<threadVars, cancelVars, channels, clientVars, tryCancelled, committed,
              halfClosed>>

EnvironmentStep ==
  /\ ServerSendsPacket \/ ServerSendsHeartbeat \/ ServerRequestsWritesDone
     \/ ServerEnds \/ RpcBreaks
  /\ EnvironmentFrame

-----------------------------------------------------------------------------
Next ==
  \/ UserActs \/ UserReturns \/ MainStep \/ CommitterStep \/ TransferrerStep
  \/ MissHeartbeat \/ ResponderStep \/ EnvironmentStep

Spec == Init /\ [][Next]_vars

(* Every thread is scheduled, but a write may wait for a server that does  *)
(* not read for as long as the RPC is open.  A server that goes on being   *)
(* silent is noticed, since the polls of an interval are finitely many.    *)
(* Of the server only one thing is assumed: it severs the RPC at the       *)
(* latest when the grace period after its writes done request is over      *)
(* (writes_done_grace_period).                                             *)
Fairness ==
  /\ WF_vars(UserReturns)
  /\ WF_vars(MainStep)
  /\ WF_vars(~WriteMayBlock /\ CommitterStep)
  /\ WF_vars(TransferrerStep)
  /\ SF_vars(MissHeartbeat)
  /\ WF_vars(ResponderStep)
  /\ WF_vars(writesDoneRequested /\ ServerEnds /\ EnvironmentFrame)

FairSpec == Spec /\ Fairness

-----------------------------------------------------------------------------
UserPc == {"idle", "receiving", "receive_finishing", "committing", "finishing",
           "cancel_committer", "cancel_transferrer", "joining"}
MainPc == {"collect_first", "cancel_committer", "cancel_transferrer", "join",
           "finish_rpc", "return", "done"}
CommitterPc == {"loop", "read", "write", "writes_done", "cancel_rpc", "return", "done"}
TransferrerPc == {"loop", "poll", "handle", "await_end", "await_cancel",
                  "cancel_responder", "cancel_rpc", "join", "done"}
ResponderPc == {"loop", "stream_read", "write", "done"}

(* The type of every variable.                                             *)
TypeOK ==
  /\ user \in UserPc
  /\ notJoined \in BOOLEAN /\ endSeen \in BOOLEAN
  /\ delivered \in Seq(Nat) /\ issued \in Nat
  /\ finishReturn \in Code \cup {"NONE"}
  /\ main \in MainPc /\ collected \in SUBSET Workers /\ returnStatus \in Code
  /\ committer \in CommitterPc /\ committerOffset \in Nat
  /\ transferrer \in TransferrerPc /\ transferrerResponse \in Response
  /\ readChannelClosed \in BOOLEAN /\ transferrerFinal \in Code
  /\ responder \in ResponderPc /\ responderResponse \in Response
  /\ committerCancelled \in BOOLEAN /\ transferrerCancelled \in BOOLEAN
  /\ responderCancelled \in BOOLEAN
  /\ mainStatus \in ChannelOf(Code) /\ committerStatus \in ChannelOf(Code)
  /\ transferrerStatus \in ChannelOf(Code)
  /\ receive \in ChannelOf(Nat) /\ commit \in ChannelOf(Nat)
  /\ response \in ChannelOf(Response)
  /\ rpcOpen \in BOOLEAN /\ readTerminated \in BOOLEAN /\ writeTerminated \in BOOLEAN
  /\ rpc \in RpcCode \cup {"open"} /\ tryCancelled \in BOOLEAN
  /\ inbound \in Seq(Response) /\ sent \in Nat
  /\ writesDoneRequested \in BOOLEAN
  /\ committed \in Seq(Nat) /\ halfClosed \in BOOLEAN

(* The gRPC client refuses to Finish while a direction is open, and Finish *)
(* on an open RPC is the only place that ends it: whenever MainTask gets   *)
(* to it, whoever closed what and in which order, both directions have     *)
(* been closed and the RPC has not been finished.                          *)
FinishPreconditionMet == main = "finish_rpc" => FinishPrecondition

(* Finish resets the stream that the other threads use without a lock.  No *)
(* thread that uses it is left by then.                                    *)
NoUseAfterFinish ==
  ~rpcOpen =>
    committer = "done" /\ transferrer = "done" /\ responder = "done"

(* The packets reach the caller in the order they were sent, without gaps  *)
(* and without repetitions, through two channels and two threads, however  *)
(* the session ends.                                                       *)
DeliveredInOrder ==
  /\ Len(delivered) <= sent
  /\ \A i \in 1..Len(delivered) : delivered[i] = i

(* "OUT_OF_RANGE: This indicates that the caller has Receive'd all of the  *)
(* Packets": a session whose receive channel was read to its end, which    *)
(* the caller did not cancel and in which no heartbeat was missed, and     *)
(* that finished with this code, delivered whatever the server sent.       *)
OutOfRangeMeansAll ==
  finishReturn = "OUT_OF_RANGE" /\ endSeen /\ ~tryCancelled =>
    Len(delivered) = sent

(* The offsets reach the server in the order of the commits, and a clean   *)
(* half-close tells it that every accepted offset has been sent.           *)
HalfCloseFlushes ==
  /\ Len(committed) <= issued
  /\ \A i \in 1..Len(committed) : committed[i] = i
  /\ halfClosed => Len(committed) = issued

(* After Cancel returned, and so in the destructor, no thread of the       *)
(* receiver is running, and nobody can be blocked on it any more.          *)
QuietAfterCancel ==
  ~notJoined =>
    /\ main = "done" /\ committer = "done" /\ transferrer = "done"
    /\ responder = "done"
    /\ commit.cancelled /\ receive.closed /\ mainStatus.closed

(* Once a Receive has reported the end of the session, none delivers a     *)
(* packet.  The final status of the session is reported first: the OK that *)
(* Finish returns for a status that was consumed, and with which           *)
(* Receive(timeout, packet) claims a packet, only ever follows it.         *)
ReceiveEndIsFinal ==
  [][/\ endSeen => UNCHANGED delivered
     /\ finishReturn' = "OK" => finishReturn # "NONE"]_vars

(* Cancel returns, whatever the threads are waiting for and whatever the   *)
(* server does or does not do.                                             *)
CancelEventuallyReturns ==
  user \in {"cancel_committer", "joining"} ~> user = "idle"

(* Receive returns: a server that neither sends nor ends the RPC is found  *)
(* out by its heartbeats.                                                  *)
ReceiveEventuallyReturns ==
  user = "receiving" ~> user # "receiving"

(* Finish returns when the caller has met its two conditions: Receive has  *)
(* reported the end, and CommitsDone (or Cancel) has been called.          *)
FinishEventuallyReturns ==
  (user \in {"finishing", "receive_finishing"} /\ endSeen /\ commit.closed) ~>
    user = "idle"

(* "Attempt to commit.  This eventually fails as the committer will        *)
(* realize the server has closed": a Commit does not outlive the RPC.      *)
CommitEventuallyReturns ==
  (user = "committing" /\ rpc # "open") ~> user # "committing"
=============================================================================
