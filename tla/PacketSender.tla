---------------------------- MODULE PacketSender ----------------------------
(***************************************************************************)
(* PacketSender (streams/client/packet_sender.cc) with its Worker          *)
(* (streams/util/worker.cc) and its gRPC client                            *)
(* (streams/client/streaming_send_packets_grpc_client.cc).                 *)
(*                                                                         *)
(* The user's thread calls Send, or destroys the sender.  The task runs in *)
(* a background thread: it takes a packet from the submission queue,       *)
(* writes it to the RPC and puts the outcome into the reply queue.  The    *)
(* environment ends the RPC.  Packets are numbered as they are submitted.  *)
(***************************************************************************)
EXTENDS Integers, Sequences

CONSTANTS
  Timeouts,   \* the timeouts of Send, in whole wait periods
  MaxPackets  \* bound: the packets submitted

Infinite == -1  \* absl::InfiniteDuration()

ASSUME SenderAssumption == Timeouts \subseteq Nat \cup {Infinite} /\ MaxPackets \in Nat

(* Status codes.  INTERNAL is that of a full queue, OTHER any error of the *)
(* RPC that is treated like every other.                                   *)
Error == {"CANCELLED", "UNAVAILABLE", "INTERNAL", "OTHER"}
Status == {"OK"} \cup Error
RpcError == Error \ {"INTERNAL"}

VARIABLES
  user,        \* the user's thread: idle, waiting or checking in Send, cancelling or
               \* finalizing in CancelWork, gone after the destructor
  call,        \* the call it is in, or was in last
  left,        \* timeout in Send
  cause,       \* the status for which CancelWork was called by Send
  result,      \* what the last Send returned
  task,        \* the task's thread
  packet,      \* the packet it sends
  taskStatus,  \* the status it replies, then the one it returns
  submission,  \* submission_queue_
  reply,       \* submission_reply_
  cancelled,   \* cancel_notification_
  requested,   \* is_cancel_requested_ of the worker
  strongest,   \* strongest_error_status_
  rpc,         \* open, or the status it ended with
  issued,      \* history: how many packets were submitted
  written,     \* history: the packets written to the RPC
  acked,       \* history: the packets for which Send returned OK
  detected     \* history: the statuses that Send was given or the task has reported

userVars == <<user, call, left, cause, result, acked>>
taskVars == <<task, packet, taskStatus>>
errors == <<strongest, detected>>
vars == <<userVars, taskVars, submission, reply, cancelled, requested, errors, rpc,
          issued, written>>

Init ==
  /\ user = "idle" /\ call = "send" /\ left = 0 /\ cause = "OK" /\ result = "OK"
  /\ task = "creating" /\ packet = 0 /\ taskStatus = "OK"
  /\ submission = <<>> /\ reply = <<>>
  /\ cancelled = FALSE /\ requested = FALSE /\ strongest = "OK"
  /\ rpc = "open"
  /\ issued = 0 /\ written = <<>> /\ acked = <<>> /\ detected = {}

(* MaybeUpdateStrongestErrorStatus: OK < CANCELLED < others.               *)
MutStronger(old, candidate) == IF candidate = "OK" THEN old ELSE candidate \* mutant: the last error
Stronger(old, candidate) ==
  IF candidate = "OK" \/ (candidate = "CANCELLED" /\ old # "OK") THEN old ELSE candidate

-----------------------------------------------------------------------------
(* The user's thread.                                                      *)

MutMaySubmit == TRUE  \* mutant: a failed sender goes on
MaySubmit == strongest = "OK"

(* Send is refused by the error of an earlier one, or of the task.         *)
SendRefused ==
  /\ user = "idle" /\ ~MaySubmit
  /\ call' = "send" /\ result' = strongest
  /\ UNCHANGED <<user, left, cause, acked, taskVars, submission, reply, cancelled,
                 requested, errors, rpc, issued, written>>

(* SendAsync finds the queue full or takes the packet.                     *)
SendSubmits ==
  /\ user = "idle" /\ MaySubmit
  /\ issued < MaxPackets
  /\ call' = "send"
  /\ IF submission # <<>>
     THEN result' = "INTERNAL" /\ UNCHANGED <<user, left, submission, issued>>
     ELSE /\ user' = "waiting" /\ left' \in Timeouts
          /\ issued' = issued + 1 /\ submission' = <<issued + 1>>
          /\ UNCHANGED result
  /\ UNCHANGED <<cause, acked, taskVars, reply, cancelled, requested, errors, rpc,
                 written>>

(* WaitForReply gets a reply.  An UNAVAILABLE one looks to Send like one   *)
(* that is still to come.                                                  *)
TakesReply ==
  /\ user = "waiting" /\ reply # <<>>
  /\ reply' = Tail(reply)
  /\ detected' = detected \cup {Head(reply)}
  /\ \/ /\ Head(reply) = "OK"
        /\ user' = "idle" /\ result' = "OK" /\ acked' = Append(acked, issued)
        /\ UNCHANGED cause
     \/ /\ Head(reply) = "UNAVAILABLE"
        /\ user' = "checking"
        /\ UNCHANGED <<cause, result, acked>>
     \/ /\ Head(reply) \notin {"OK", "UNAVAILABLE"}
        /\ user' = "cancelling" /\ cause' = Head(reply)
        /\ UNCHANGED <<result, acked>>
  /\ UNCHANGED <<call, left, taskVars, submission, cancelled, requested, strongest, rpc,
                 issued, written>>

(* It gets none in time.  The last wait ends with a cancellation.          *)
WaitExpires ==
  /\ user = "waiting" /\ reply = <<>>
  /\ \/ /\ left # 0
        /\ user' = "checking" /\ UNCHANGED <<cause, cancelled, detected>>
     \/ /\ left = 0
        /\ user' = "cancelling" /\ cause' = "CANCELLED" /\ cancelled' = TRUE
        /\ detected' = detected \cup {"CANCELLED"}
  /\ UNCHANGED <<call, left, result, acked, taskVars, submission, reply, requested,
                 strongest, rpc, issued, written>>

MutOneWaitLess(t) == t      \* mutant: the timeout is not decreased
MutAnyWaitLess(t) == t - 1  \* mutant: an infinite timeout is
OneWaitLess(t) == IF t > 0 THEN t - 1 ELSE t

(* Send gives up if the task has reported an error, or waits again.        *)
Checks ==
  /\ user = "checking"
  /\ \/ /\ strongest # "OK"
        /\ user' = "idle" /\ result' = strongest /\ UNCHANGED left
     \/ /\ strongest = "OK"
        /\ user' = "waiting" /\ left' = OneWaitLess(left) /\ UNCHANGED result
  /\ UNCHANGED <<call, cause, acked, taskVars, submission, reply, cancelled, requested,
                 errors, rpc, issued, written>>

(* ~PacketSender.                                                          *)
Destroys ==
  /\ user = "idle"
  /\ user' = "cancelling" /\ call' = "destroy" /\ cause' = "OK"
  /\ UNCHANGED <<left, result, acked, taskVars, submission, reply, cancelled, requested,
                 errors, rpc, issued, written>>

(* CancelWork asks the worker to cancel the task, once.                    *)
RequestsCancel ==
  /\ user = "cancelling"
  /\ user' = "finalizing"
  /\ IF task # "done" /\ ~requested
     THEN requested' = TRUE /\ cancelled' = TRUE
     ELSE UNCHANGED <<requested, cancelled>>
  /\ UNCHANGED <<call, left, cause, result, acked, taskVars, submission, reply, errors,
                 rpc, issued, written>>

(* Then it waits for the task's status, or for the finalization timeout.   *)
(* Send returns the strongest error.                                       *)
Finalizes ==
  /\ user = "finalizing"
  /\ LET status == IF task = "done" THEN taskStatus ELSE "CANCELLED"
     IN  /\ strongest' = Stronger(Stronger(strongest, status), cause)
         /\ detected' = detected \cup {status}
  /\ \/ call = "send"    /\ user' = "idle" /\ result' = strongest'
     \/ call = "destroy" /\ user' = "gone" /\ UNCHANGED result
  /\ UNCHANGED <<call, left, cause, acked, taskVars, submission, reply, cancelled,
                 requested, rpc, issued, written>>

-----------------------------------------------------------------------------
(* The task's thread.  It belongs to the sender: what it does after the    *)
(* destructor has returned is undefined, and not modelled.                 *)

TaskUnchanged == UNCHANGED <<userVars, cancelled, requested, issued>>

(* The client is created: the RPC is opened and the setup message written. *)
TaskCreates ==
  /\ user # "gone" /\ task = "creating"
  /\ \/ task' = "loop" /\ UNCHANGED taskStatus
     \/ task' = "reporting" /\ taskStatus' \in RpcError
  /\ TaskUnchanged /\ UNCHANGED <<packet, submission, reply, errors, rpc, written>>

(* The condition of the loop.                                              *)
TaskTests ==
  /\ user # "gone" /\ task = "loop"
  /\ task' = IF cancelled THEN "closing" ELSE "popping"
  /\ TaskUnchanged
  /\ UNCHANGED <<packet, taskStatus, submission, reply, errors, rpc, written>>

TaskPops ==
  /\ user # "gone" /\ task = "popping"
  /\ \/ /\ submission # <<>>
        /\ task' = "sending" /\ packet' = Head(submission) /\ submission' = Tail(submission)
     \/ /\ submission = <<>>
        /\ task' = "loop" /\ UNCHANGED <<packet, submission>>
  /\ TaskUnchanged /\ UNCHANGED <<taskStatus, reply, errors, rpc, written>>

(* Write returns true, or false and the RPC is closed.  That it ended with *)
(* OK is an error then.                                                    *)
TaskWrites ==
  /\ user # "gone" /\ task = "sending"
  /\ task' = "replying"
  /\ \/ /\ rpc = "open"
        /\ written' = Append(written, packet) /\ taskStatus' = "OK"
     \/ /\ rpc # "open"
        /\ taskStatus' = IF rpc = "OK" THEN "OTHER" ELSE rpc
        /\ UNCHANGED written
  /\ TaskUnchanged /\ UNCHANGED <<packet, submission, reply, errors, rpc>>

TaskReplies ==
  /\ user # "gone" /\ task = "replying"
  /\ IF reply # <<>>
     THEN task' = "reporting" /\ taskStatus' = "INTERNAL" /\ UNCHANGED reply
     ELSE /\ reply' = <<taskStatus>>
          /\ task' = IF taskStatus = "OK" THEN "loop" ELSE "reporting"
          /\ UNCHANGED taskStatus
  /\ TaskUnchanged /\ UNCHANGED <<packet, submission, errors, rpc, written>>

(* Cancelled, the task cancels the RPC and closes it.                      *)
TaskCloses ==
  /\ user # "gone" /\ task = "closing"
  /\ task' = "reporting" /\ taskStatus' = "CANCELLED"
  /\ rpc' = IF rpc = "open" THEN "CANCELLED" ELSE rpc
  /\ TaskUnchanged /\ UNCHANGED <<packet, submission, reply, errors, written>>

MutTaskReports ==  \* mutant: the error is only returned to the worker
  /\ user # "gone" /\ task = "reporting"
  /\ task' = "returning"
  /\ TaskUnchanged
  /\ UNCHANGED <<packet, taskStatus, submission, reply, errors, rpc, written>>

TaskReports ==
  /\ user # "gone" /\ task = "reporting"
  /\ task' = "returning" /\ strongest' = Stronger(strongest, taskStatus)
  /\ detected' = detected \cup {taskStatus}
  /\ TaskUnchanged /\ UNCHANGED <<packet, taskStatus, submission, reply, rpc, written>>

(* The worker records the status and is done.                              *)
TaskReturns ==
  /\ user # "gone" /\ task = "returning"
  /\ task' = "done"
  /\ TaskUnchanged
  /\ UNCHANGED <<packet, taskStatus, submission, reply, errors, rpc, written>>

-----------------------------------------------------------------------------
(* The server or the network ends the RPC.                                 *)
RpcEnds ==
  /\ user # "gone" /\ rpc = "open"
  /\ rpc' \in {"OK"} \cup RpcError
  /\ TaskUnchanged /\ UNCHANGED <<taskVars, submission, reply, errors, written>>

UserInCall == TakesReply \/ WaitExpires \/ Checks \/ RequestsCancel \/ Finalizes
UserStep == SendRefused \/ SendSubmits \/ Destroys \/ UserInCall
TaskLocal == TaskTests \/ TaskPops \/ TaskReplies \/ TaskReports \/ TaskReturns
TaskStep == TaskCreates \/ TaskWrites \/ TaskCloses \/ TaskLocal

Next == UserStep \/ TaskStep \/ RpcEnds

Spec == Init /\ [][Next]_vars

(* Both threads are scheduled, but a call of gRPC may block for as long as *)
(* the RPC is open; closing a cancelled one ends it.                       *)
GrpcReturns == (rpc # "open" /\ (TaskCreates \/ TaskWrites)) \/ TaskCloses
FairSpec == Spec /\ WF_vars(UserInCall) /\ WF_vars(TaskLocal) /\ WF_vars(GrpcReturns)

-----------------------------------------------------------------------------
(* The type of every variable.                                             *)
TypeOK ==
  /\ user \in {"idle", "waiting", "checking", "cancelling", "finalizing", "gone"}
  /\ call \in {"send", "destroy"} /\ left \in Nat \cup {Infinite}
  /\ cause \in Status /\ result \in Status
  /\ task \in {"creating", "loop", "popping", "sending", "replying", "closing",
               "reporting", "returning", "done"}
  /\ packet \in Nat /\ taskStatus \in Status
  /\ submission \in Seq(Nat) /\ reply \in Seq(Status)
  /\ cancelled \in BOOLEAN /\ requested \in BOOLEAN
  /\ strongest \in Status
  /\ rpc \in {"open"} \cup Status
  /\ issued \in Nat /\ detected \subseteq Status
  /\ written \in Seq(Nat) /\ acked \in Seq(Nat)

(* Send returns OK for packets that were written, in the order in which    *)
(* they were submitted, and for all but the last: a reply that comes too   *)
(* late never answers another packet, and after an error nothing more is   *)
(* sent but the packet under way.                                          *)
OkMeansWritten ==
  /\ Len(acked) \in {issued, issued - 1}
  /\ written = acked \/ written = Append(acked, issued)
  /\ Len(acked) = issued => written = acked

(* "The GrpcSenderTask's submission queue is full" and "... reply queue is *)
(* full" are never returned, although nobody empties the queues after a    *)
(* timeout.                                                                *)
QueuesNeverFull == "INTERNAL" \notin {result, taskStatus, strongest}

(* Send ends, or is refused.                                               *)
SendReturns == SendRefused \/ (user # "idle" /\ user' = "idle")
Weak == {"OK", "CANCELLED"}
ReturnsWeaker == SendReturns /\ result' = "CANCELLED" /\ ~(detected' \subseteq Weak)

(* "The error returned will be no weaker than all other detected errors":  *)
(* Send does not return CANCELLED when it has taken another error from the *)
(* reply queue or the task has reported one.  It does, see below.          *)
NoWeakerError == [][~ReturnsWeaker]_vars

(* The only error that Send hides behind CANCELLED is an UNAVAILABLE that  *)
(* it took for no reply and that the task is about to report: no other     *)
(* error gets lost on its way from the task, the reply queue or an earlier *)
(* Send, in whatever order they come in.                                   *)
WeakerOnlyIfUnreported ==
  [][ReturnsWeaker => task = "reporting" /\ taskStatus = "UNAVAILABLE"]_vars

(* A Send with a timeout and the destructor return, even if the task is    *)
(* stuck in a call of gRPC.                                                *)
Returned == user \in {"idle", "gone"}
CallsReturn ==
  /\ (user = "waiting" /\ left # Infinite) ~> Returned
  /\ (user = "cancelling") ~> Returned

(* A Send returns once the task has failed, whatever its timeout, although *)
(* it takes an UNAVAILABLE reply for none at all.                          *)
FailureReachesSend == (task \in {"reporting", "returning", "done"}) ~> Returned
=============================================================================
