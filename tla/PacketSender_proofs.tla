------------------------ MODULE PacketSender_proofs ------------------------
(***************************************************************************)
(* Type correctness, OkMeansWritten, QueuesNeverFull and                   *)
(* WeakerOnlyIfUnreported for any timeouts and any number of packets.      *)
(***************************************************************************)
EXTENDS PacketSender, TLAPS

(* What Stronger returns.                                                  *)
LEMMA StrongerFacts ==
  ASSUME NEW a \in Status, NEW b \in Status
  PROVE  /\ Stronger(a, b) \in {a, b}
         /\ Stronger(a, b) = "OK" <=> a = "OK" /\ b = "OK"
         /\ Stronger(a, b) \in {"OK", "CANCELLED"} <=>
              {a, b} \subseteq {"OK", "CANCELLED"}
  BY DEF Stronger, Status, Error

(* The strongest of the last one, the task's and the cause is not weaker   *)
(* than any of them.                                                       *)
LEMMA FinalError ==
  ASSUME NEW a \in Status, NEW b \in Status, NEW c \in Status,
         Stronger(Stronger(a, b), c) \in Weak
  PROVE  {a, b, c} \subseteq Weak
<1>1. Stronger(a, b) \in Status
  BY StrongerFacts
<1>2. {Stronger(a, b), c} \subseteq {"OK", "CANCELLED"}
  BY <1>1, StrongerFacts DEF Weak
<1> QED
  BY <1>2, StrongerFacts DEF Weak

(* Every variable keeps its type.                                          *)
LEMMA TypeStep ==
  ASSUME TypeOK, [Next]_vars
  PROVE  TypeOK'
<1>a. /\ {"OK", "CANCELLED", "INTERNAL", "OTHER"} \subseteq Status
      /\ RpcError \subseteq Status
  BY DEF Status, Error, RpcError
<1>b. Timeouts \subseteq Nat \cup {Infinite}
  BY SenderAssumption
<1> USE <1>a, <1>b DEF TypeOK
<1>c. detected' \subseteq Status
  <2>1. UNCHANGED vars \/ UserStep \/ TaskStep \/ RpcEnds
    BY DEF Next
  <2>2. CASE UserStep
    <3>1. \/ detected' = detected \/ detected' = detected \cup {"CANCELLED"}
          \/ detected' = detected \cup {taskStatus}
          \/ reply # <<>> /\ detected' = detected \cup {Head(reply)}
      BY <2>2 DEF UserStep, UserInCall, SendRefused, SendSubmits, TakesReply, WaitExpires,
                  Checks, Destroys, RequestsCancel, Finalizes, errors
    <3>2. reply # <<>> => Head(reply) \in Status
      OBVIOUS
    <3> QED
      BY <3>1, <3>2
  <2>3. CASE TaskStep \/ RpcEnds \/ UNCHANGED vars
    BY <2>3 DEF TaskStep, TaskLocal, TaskCreates, TaskWrites, TaskCloses, TaskTests, TaskPops,
                TaskReplies, TaskReports, TaskReturns, RpcEnds, vars, errors
  <2> QED
    BY <2>1, <2>2, <2>3
<1> USE <1>c
<1>1. CASE SendRefused
  BY <1>1 DEF SendRefused, errors, taskVars
<1>2. CASE SendSubmits
  <2>a. submission' = submission \/ submission' = <<issued + 1>>
    BY <1>2 DEF SendSubmits
  <2>b. <<issued + 1>> \in Seq(Nat)
    OBVIOUS
  <2>1. submission' \in Seq(Nat)
    BY <2>a, <2>b
  <2>2. issued' \in Nat
    BY <1>2 DEF SendSubmits
  <2>3. left' \in Nat \cup {Infinite}
    BY <1>2 DEF SendSubmits
  <2>4. result' \in Status
    BY <1>2 DEF SendSubmits
  <2> QED
    BY <1>2, <2>1, <2>2, <2>3, <2>4 DEF SendSubmits, errors, taskVars
<1>3. CASE TakesReply
  <2>1. reply' \in Seq(Status) /\ Head(reply) \in Status
    BY <1>3 DEF TakesReply
  <2>a. acked' \in {acked, Append(acked, issued)}
    BY <1>3 DEF TakesReply
  <2>b. Append(acked, issued) \in Seq(Nat)
    OBVIOUS
  <2>2. acked' \in Seq(Nat)
    BY <2>a, <2>b
  <2>3. user' \in {"idle", "checking", "cancelling"} /\ {cause', result'} \subseteq Status
    BY <1>3, <2>1 DEF TakesReply
  <2> QED
    BY <1>3, <2>1, <2>2, <2>3 DEF TakesReply, taskVars
<1>4. CASE WaitExpires
  BY <1>4 DEF WaitExpires, taskVars
<1>5. CASE Checks
  BY <1>5 DEF Checks, OneWaitLess, Infinite, errors, taskVars
<1>6. CASE Destroys
  BY <1>6 DEF Destroys, errors, taskVars
<1>7. CASE RequestsCancel
  BY <1>7 DEF RequestsCancel, errors, taskVars
<1>8. CASE Finalizes
  BY <1>8 DEF Finalizes, Stronger, taskVars
<1>9. CASE TaskCreates
  BY <1>9 DEF TaskCreates, TaskUnchanged, userVars, errors
<1>10. CASE TaskWrites
  <2>a. written' \in {written, Append(written, packet)}
    BY <1>10 DEF TaskWrites
  <2>b. Append(written, packet) \in Seq(Nat)
    OBVIOUS
  <2>1. written' \in Seq(Nat)
    BY <2>a, <2>b
  <2>2. taskStatus' \in Status
    BY <1>10 DEF TaskWrites
  <2> QED
    BY <1>10, <2>1, <2>2 DEF TaskWrites, TaskUnchanged, userVars, errors
<1>11. CASE TaskCloses
  BY <1>11 DEF TaskCloses, TaskUnchanged, userVars, errors
<1>12. CASE TaskTests
  BY <1>12 DEF TaskTests, TaskUnchanged, userVars, errors
<1>13. CASE TaskPops
  <2>a. \/ submission # <<>> /\ submission' = Tail(submission) /\ packet' = Head(submission)
        \/ submission' = submission /\ packet' = packet
    BY <1>13 DEF TaskPops
  <2>b. submission # <<>> => Tail(submission) \in Seq(Nat) /\ Head(submission) \in Nat
    OBVIOUS
  <2>1. submission' \in Seq(Nat) /\ packet' \in Nat
    BY <2>a, <2>b
  <2>2. task' \in {"sending", "loop"}
    BY <1>13 DEF TaskPops
  <2> QED
    BY <1>13, <2>1, <2>2 DEF TaskPops, TaskUnchanged, userVars, errors
<1>14. CASE TaskReplies
  <2>a. reply' \in {reply, <<taskStatus>>}
    BY <1>14 DEF TaskReplies
  <2>b. <<taskStatus>> \in Seq(Status)
    OBVIOUS
  <2>1. reply' \in Seq(Status)
    BY <2>a, <2>b
  <2>2. task' \in {"loop", "reporting"} /\ taskStatus' \in Status
    BY <1>14 DEF TaskReplies
  <2> QED
    BY <1>14, <2>1, <2>2 DEF TaskReplies, TaskUnchanged, userVars, errors
<1>15. CASE TaskReports
  BY <1>15 DEF TaskReports, Stronger, TaskUnchanged, userVars, errors
<1>16. CASE TaskReturns
  BY <1>16 DEF TaskReturns, TaskUnchanged, userVars, errors
<1>17. CASE RpcEnds
  BY <1>17 DEF RpcEnds, TaskUnchanged, userVars, errors, taskVars
<1>18. CASE UNCHANGED vars
  BY <1>18 DEF vars, errors, userVars, taskVars
<1> QED
  BY <1>1, <1>2, <1>3, <1>4, <1>5, <1>6, <1>7, <1>8, <1>9, <1>10, <1>11, <1>12, <1>13,
     <1>14, <1>15, <1>16, <1>17, <1>18
     DEF Next, UserStep, UserInCall, TaskStep, TaskLocal

(* Every variable begins with its type.                                    *)
LEMMA TypeInit ==
  ASSUME Init
  PROVE  TypeOK
<1> USE DEF Init
<1>1. submission \in Seq(Nat) /\ written \in Seq(Nat) /\ acked \in Seq(Nat)
  OBVIOUS
<1>2. reply \in Seq(Status)
  OBVIOUS
<1>3. {cause, result, taskStatus, strongest} \subseteq Status
  BY DEF Status
<1>4. /\ left \in Nat \cup {Infinite} /\ packet \in Nat /\ issued \in Nat
      /\ detected \subseteq Status
  OBVIOUS
<1> QED
  BY <1>1, <1>2, <1>3, <1>4 DEF TypeOK

(* The type invariant holds throughout, whatever the timeouts.             *)
THEOREM TypeCorrect == Spec => []TypeOK
  BY TypeInit, TypeStep, PTL DEF Spec

-----------------------------------------------------------------------------
(* The last packet submitted is in at most one place: in the submission    *)
(* queue, with the task, or, as its outcome, in the reply queue.           *)
Holding == task \in {"sending", "replying"}
InOnePlace ==
  /\ submission # <<>> => reply = <<>> /\ ~Holding
  /\ Holding => reply = <<>>

(* What the place says about the packets written.                          *)
Pending == Len(acked) = issued - 1 /\ written = acked
Sent == Len(acked) = issued - 1 /\ written = Append(acked, issued)
RpcStatus == Status \ {"INTERNAL"}
PlaceTells ==
  /\ submission # <<>> => Pending /\ submission = <<issued>>
  /\ task = "sending" => Pending /\ packet = issued
  /\ task = "replying" /\ taskStatus = "OK" => Sent
  /\ reply # <<>> => \E s \in RpcStatus : reply = <<s>> /\ (s = "OK" => Sent)

(* A sender without an error that is not sending is done with all packets. *)
Settled == Len(acked) = issued /\ submission = <<>> /\ ~Holding /\ reply = <<>>
IdleIsSettled == user = "idle" /\ strongest = "OK" => Settled

(* CancelWork in Send has an error as its cause, all else has none.        *)
CauseOK ==
  /\ user \in {"waiting", "checking"} => call = "send"
  /\ user \in {"cancelling", "finalizing"} /\ call = "send" => cause # "OK"
  /\ user \in {"waiting", "checking"} \/ (user = "idle" /\ strongest = "OK") => cause = "OK"

NoInternal == "INTERNAL" \notin {result, taskStatus, strongest, cause, rpc}

(* What the task has reported is not forgotten.                            *)
ReportKept ==
  task \in {"returning", "done"} /\ taskStatus \notin {"OK", "CANCELLED"} =>
    strongest \notin {"OK", "CANCELLED"}

(* A failure in the reply queue is the one that the task ended with.       *)
ReplyTells ==
  reply # <<>> /\ Head(reply) # "OK" =>
    task \in {"reporting", "returning", "done"} /\ taskStatus = Head(reply)

(* What Send or the task has come upon is kept as the strongest error or   *)
(* as the cause of the cancellation, or is an UNAVAILABLE that the task    *)
(* has still to report.                                                    *)
DetectedKept ==
  ~(detected \subseteq Weak) =>
    \/ strongest \notin Weak
    \/ user \in {"cancelling", "finalizing"} /\ call = "send" /\ cause \notin Weak
    \/ task = "reporting" /\ taskStatus = "UNAVAILABLE"

SenderOK == /\ InOnePlace /\ PlaceTells /\ IdleIsSettled /\ CauseOK /\ NoInternal
            /\ ReportKept /\ OkMeansWritten
SenderInv == TypeOK /\ SenderOK
DetectedInv == SenderInv /\ ReplyTells /\ DetectedKept

(* A reply other than OK makes Send check, or cancel for that reason.      *)
LEMMA TakesError ==
  ASSUME TakesReply, NEW s \in Status, Head(reply) = s, s # "OK"
  PROVE  /\ \/ user' = "checking" /\ cause' = cause
            \/ user' = "cancelling" /\ cause' = s
         /\ UNCHANGED <<call, result, acked, task, packet, taskStatus, submission, strongest,
                         rpc, issued, written>>
  BY DEF TakesReply, taskVars

(* The steps of the caller keep the invariant.                             *)
LEMMA UserKeepsSender ==
  ASSUME SenderInv, UserStep, TypeOK'
  PROVE  SenderOK'
<1> USE DEF SenderInv
<1> USE DEF SenderOK, InOnePlace, PlaceTells, IdleIsSettled, CauseOK, NoInternal,
            ReportKept, OkMeansWritten, Holding, Pending, Sent, Settled
<1>1. CASE SendRefused
  BY <1>1 DEF SendRefused, MaySubmit, errors, taskVars
<1>2. CASE SendSubmits
  BY <1>2 DEF SendSubmits, MaySubmit, errors, taskVars, TypeOK
<1>3. CASE TakesReply
  <2>a. PICK s \in RpcStatus : reply = <<s>> /\ (s = "OK" => Sent)
    BY <1>3 DEF TakesReply
  <2>1. Head(reply) = s /\ reply' = <<>>
    BY <1>3, <2>a DEF TakesReply
  <2>2. CASE s = "OK"
    <3>1. Sent /\ acked' = Append(acked, issued)
      BY <1>3, <2>a, <2>1, <2>2 DEF TakesReply
    <3>2. Len(acked') = issued /\ written' = acked'
      BY <1>3, <3>1 DEF TakesReply, TypeOK
    <3> QED
      BY <1>3, <2>1, <2>2, <3>2 DEF TakesReply, taskVars
  <2>3. CASE s # "OK"
    <3>a. s \in Status /\ s # "INTERNAL"
      BY DEF RpcStatus
    <3> HIDE DEF SenderInv
    <3>1. \/ user' = "checking" /\ cause' = cause
          \/ user' = "cancelling" /\ cause' = s
      BY <1>3, <2>1, <2>3, <3>a, TakesError
    <3>2. UNCHANGED <<call, result, acked, task, packet, taskStatus, submission, strongest,
                      rpc, issued, written>>
      BY <1>3, <2>1, <2>3, <3>a, TakesError
    <3> USE DEF SenderInv
    <3>3. InOnePlace' /\ PlaceTells'
      BY <2>1, <3>2
    <3>4. IdleIsSettled' /\ ReportKept' /\ OkMeansWritten'
      BY <3>1, <3>2
    <3>5. user = "waiting"
      BY <1>3 DEF TakesReply
    <3>6. CauseOK' /\ NoInternal'
      BY <2>3, <3>a, <3>1, <3>2, <3>5
    <3> QED
      BY <3>3, <3>4, <3>6
  <2> QED
    BY <2>2, <2>3
<1>4. CASE WaitExpires
  BY <1>4 DEF WaitExpires, taskVars
<1>5. CASE Checks
  BY <1>5 DEF Checks, errors, taskVars
<1>6. CASE Destroys
  BY <1>6 DEF Destroys, errors, taskVars
<1>7. CASE RequestsCancel
  BY <1>7 DEF RequestsCancel, errors, taskVars
<1>8. CASE Finalizes
  <2> DEFINE status == IF task = "done" THEN taskStatus ELSE "CANCELLED"
             known == Stronger(strongest, status)
  <2>1. status \in Status /\ strongest \in Status /\ cause \in Status
    BY DEF TypeOK, Status, Error
  <2>2. /\ known \in {strongest, status}
        /\ known \in {"OK", "CANCELLED"} <=> {strongest, status} \subseteq {"OK", "CANCELLED"}
    BY <2>1, StrongerFacts
  <2>3. known \in Status
    BY <2>1, <2>2
  <2>4. strongest' = Stronger(known, cause)
    BY <1>8 DEF Finalizes
  <2>5. /\ strongest' \in {known, cause}
        /\ strongest' = "OK" <=> known = "OK" /\ cause = "OK"
        /\ strongest' \in {"OK", "CANCELLED"} <=> {known, cause} \subseteq {"OK", "CANCELLED"}
    BY <2>1, <2>3, <2>4, StrongerFacts
  <2>6. strongest' # "INTERNAL"
    BY <2>2, <2>5
  <2>7. strongest' \in {"OK", "CANCELLED"} => strongest \in {"OK", "CANCELLED"}
    BY <2>2, <2>5
  <2>8. call = "send" => strongest' # "OK"
    BY <1>8, <2>5 DEF Finalizes
  <2> HIDE DEF status, known
  <2> QED
    BY <1>8, <2>6, <2>7, <2>8 DEF Finalizes, taskVars
<1> QED
  BY <1>1, <1>2, <1>3, <1>4, <1>5, <1>6, <1>7, <1>8 DEF UserStep, UserInCall

(* The steps of the task, and the end of the RPC.                          *)
LEMMA TaskKeepsSender ==
  ASSUME SenderInv, TaskStep \/ RpcEnds, TypeOK'
  PROVE  SenderOK'
<1> USE DEF SenderInv
<1> USE DEF SenderOK, InOnePlace, PlaceTells, IdleIsSettled, CauseOK, NoInternal,
            ReportKept, OkMeansWritten, Holding, Pending, Sent, Settled
<1>1. CASE TaskCreates
  BY <1>1 DEF TaskCreates, TaskUnchanged, userVars, errors, RpcError
<1>2. CASE TaskWrites
  BY <1>2 DEF TaskWrites, TaskUnchanged, userVars, errors
<1>3. CASE TaskCloses
  BY <1>3 DEF TaskCloses, TaskUnchanged, userVars, errors
<1>4. CASE TaskTests
  BY <1>4 DEF TaskTests, TaskUnchanged, userVars, errors
<1>5. CASE TaskPops
  <2>1. UNCHANGED <<user, call, cause, result, acked, taskStatus, reply, strongest, rpc,
                    issued, written>>
    BY <1>5 DEF TaskPops, TaskUnchanged, userVars, errors
  <2>2. CASE submission # <<>>
    <3>1. task' = "sending" /\ packet' = issued /\ submission' = <<>>
      BY <1>5, <2>2 DEF TaskPops
    <3> QED
      BY <2>1, <2>2, <3>1
  <2>3. CASE submission = <<>>
    <3>1. task' = "loop" /\ submission' = submission
      BY <1>5, <2>3 DEF TaskPops
    <3> QED
      BY <2>1, <2>3, <3>1
  <2> QED
    BY <2>2, <2>3
<1>6. CASE TaskReplies
  <2>1. reply = <<>> /\ taskStatus \in Status /\ taskStatus # "INTERNAL"
    BY <1>6 DEF TaskReplies, TypeOK
  <2>2. /\ reply' = <<taskStatus>> /\ taskStatus' = taskStatus
        /\ task' = IF taskStatus = "OK" THEN "loop" ELSE "reporting"
    BY <1>6, <2>1 DEF TaskReplies
  <2>3. taskStatus = "OK" => Sent'
    BY <1>6 DEF TaskReplies, TaskUnchanged, userVars, errors
  <2>4. UNCHANGED <<user, call, cause, result, acked, packet, submission, strongest, rpc,
                    issued, written>>
    BY <1>6 DEF TaskReplies, TaskUnchanged, userVars, errors
  <2>5. submission = <<>> /\ task' \notin {"sending", "replying", "returning", "done"}
    BY <1>6, <2>2 DEF TaskReplies
  <2>6. ~(user = "idle" /\ strongest = "OK")
    BY <1>6 DEF TaskReplies
  <2>7. InOnePlace' /\ IdleIsSettled' /\ CauseOK' /\ NoInternal' /\ ReportKept' /\ OkMeansWritten'
    BY <2>2, <2>4, <2>5, <2>6
  <2>8. \E s \in RpcStatus : reply' = <<s>> /\ (s = "OK" => Sent')
    BY <2>1, <2>2, <2>3 DEF RpcStatus
  <2>9. PlaceTells'
    BY <2>4, <2>5, <2>8
  <2> QED
    BY <2>7, <2>9
<1>7. CASE TaskReports
  <2>1. /\ strongest' \in {strongest, taskStatus}
        /\ strongest' = "OK" <=> strongest = "OK" /\ taskStatus = "OK"
        /\ strongest' \in {"OK", "CANCELLED"} <=>
             {strongest, taskStatus} \subseteq {"OK", "CANCELLED"}
    BY <1>7, StrongerFacts DEF TaskReports, TypeOK
  <2> QED
    BY <1>7, <2>1 DEF TaskReports, TaskUnchanged, userVars, errors
<1>8. CASE TaskReturns
  BY <1>8 DEF TaskReturns, TaskUnchanged, userVars, errors
<1>9. CASE RpcEnds
  BY <1>9 DEF RpcEnds, TaskUnchanged, userVars, errors, taskVars, RpcError
<1> QED
  BY <1>1, <1>2, <1>3, <1>4, <1>5, <1>6, <1>7, <1>8, <1>9 DEF TaskStep, TaskLocal

(* A new sender meets the invariant.                                       *)
LEMMA SenderInitially ==
  ASSUME Init
  PROVE  SenderInv
<1> USE DEF Init
<1>1. Len(acked) = issued
  OBVIOUS
<1>2. InOnePlace /\ PlaceTells /\ IdleIsSettled
  BY <1>1 DEF InOnePlace, PlaceTells, IdleIsSettled, Settled, Holding
<1>3. CauseOK /\ NoInternal /\ ReportKept /\ OkMeansWritten
  BY <1>1 DEF CauseOK, NoInternal, ReportKept, OkMeansWritten
<1> QED
  BY <1>2, <1>3, TypeInit DEF SenderInv, SenderOK

(* Every step keeps it.                                                    *)
LEMMA SenderStep ==
  ASSUME SenderInv, [Next]_vars
  PROVE  SenderInv'
<1>1. TypeOK'
  BY TypeStep DEF SenderInv
<1>2. CASE Next
  BY <1>1, <1>2, UserKeepsSender, TaskKeepsSender DEF Next, SenderInv
<1>3. CASE UNCHANGED vars
  BY <1>1, <1>3 DEF vars, errors, userVars, taskVars, SenderInv, SenderOK, InOnePlace,
       PlaceTells, IdleIsSettled, CauseOK, NoInternal, ReportKept, OkMeansWritten, Holding,
       Pending, Sent, Settled
<1> QED
  BY <1>2, <1>3

(* SenderInv holds in every state of the sender, with any interleaving of  *)
(* the caller, the task and the end of the RPC.                            *)
THEOREM SenderInvariant == Spec => []SenderInv
<1>1. Init => SenderInv
  BY SenderInitially
<1>2. SenderInv /\ [Next]_vars => SenderInv'
  BY SenderStep
<1> QED
  BY <1>1, <1>2, PTL DEF Spec

(* Send returns OK exactly for packets that were written, in order, and no *)
(* packet is written after one that failed.                                *)
THEOREM AcknowledgedIsWritten == Spec => []OkMeansWritten
<1>1. SenderInv => OkMeansWritten
  BY DEF SenderInv, SenderOK
<1> QED
  BY <1>1, SenderInvariant, PTL

(* The errors that report a full queue never occur.                        *)
THEOREM QueuesAreNeverFull == Spec => []QueuesNeverFull
<1>1. SenderInv => QueuesNeverFull
  BY DEF SenderInv, SenderOK, NoInternal, QueuesNeverFull
<1> QED
  BY <1>1, SenderInvariant, PTL

(* The caller keeps ReplyTells and DetectedKept.                           *)
LEMMA UserKeepsDetected ==
  ASSUME DetectedInv, UserStep
  PROVE  ReplyTells' /\ DetectedKept'
<1> USE DEF DetectedInv, ReplyTells, DetectedKept, Weak
<1>1. CASE SendRefused
  BY <1>1 DEF SendRefused, errors, taskVars
<1>2. CASE SendSubmits
  BY <1>2 DEF SendSubmits, MaySubmit, errors, taskVars
<1>3. CASE TakesReply
  <2>1. PICK s \in RpcStatus : reply = <<s>>
    BY <1>3 DEF SenderInv, SenderOK, PlaceTells, TakesReply
  <2>2. Head(reply) = s /\ reply' = <<>> /\ detected' = detected \cup {s}
    BY <1>3, <2>1 DEF TakesReply
  <2>3. /\ UNCHANGED <<call, strongest, task, taskStatus>> /\ user = "waiting"
        /\ s \notin {"OK", "UNAVAILABLE"} => user' = "cancelling" /\ cause' = s
    BY <1>3, <2>2 DEF TakesReply, taskVars
  <2>4. call = "send"
    BY <2>3 DEF SenderInv, SenderOK, CauseOK
  <2>5. s = "UNAVAILABLE" =>
          strongest \notin Weak \/ (task = "reporting" /\ taskStatus = "UNAVAILABLE")
    BY <2>1, <2>2 DEF SenderInv, SenderOK, ReportKept
  <2>6. DetectedKept'
    BY <2>2, <2>3, <2>4, <2>5
  <2> QED
    BY <2>2, <2>6
<1>4. CASE WaitExpires
  BY <1>4 DEF WaitExpires, taskVars
<1>5. CASE Checks
  BY <1>5 DEF Checks, errors, taskVars
<1>6. CASE Destroys
  BY <1>6 DEF Destroys, errors, taskVars
<1>7. CASE RequestsCancel
  BY <1>7 DEF RequestsCancel, errors, taskVars
<1>8. CASE Finalizes
  <2>1. PICK status : /\ status \in {taskStatus, "CANCELLED"}
                      /\ strongest' = Stronger(Stronger(strongest, status), cause)
                      /\ detected' = detected \cup {status}
    BY <1>8 DEF Finalizes
  <2>2. strongest' \in Weak => {strongest, status, cause} \subseteq Weak
    BY <2>1, FinalError DEF SenderInv, TypeOK, Status, Error
  <2>3. UNCHANGED <<reply, task, taskStatus>> /\ user = "finalizing"
    BY <1>8 DEF Finalizes, taskVars
  <2> QED
    BY <2>1, <2>2, <2>3
<1> QED
  BY <1>1, <1>2, <1>3, <1>4, <1>5, <1>6, <1>7, <1>8 DEF UserStep, UserInCall

(* The task and the environment keep them.                                 *)
LEMMA TaskKeepsDetected ==
  ASSUME DetectedInv, TaskStep \/ RpcEnds
  PROVE  ReplyTells' /\ DetectedKept'
<1> USE DEF DetectedInv, ReplyTells, DetectedKept, Weak
<1>1. CASE TaskReplies
  <2>1. reply = <<>>
    BY <1>1 DEF TaskReplies, SenderInv, SenderOK, InOnePlace, Holding
  <2>2. /\ task = "replying" /\ reply' = <<taskStatus>> /\ taskStatus' = taskStatus
        /\ task' = IF taskStatus = "OK" THEN "loop" ELSE "reporting"
        /\ UNCHANGED <<user, call, cause, strongest, detected>>
    BY <1>1, <2>1 DEF TaskReplies, TaskUnchanged, userVars, errors
  <2>3. Head(reply') = taskStatus
    BY <2>2
  <2> QED
    BY <2>2, <2>3
<1>2. CASE TaskReports
  <2>1. strongest' \in Weak => {strongest, taskStatus} \subseteq Weak
    BY <1>2, StrongerFacts DEF TaskReports, SenderInv, TypeOK
  <2> QED
    BY <1>2, <2>1 DEF TaskReports, TaskUnchanged, userVars
<1>3. CASE TaskReturns
  BY <1>3 DEF TaskReturns, TaskUnchanged, userVars, errors
<1>4. CASE RpcEnds
  BY <1>4 DEF RpcEnds, TaskUnchanged, userVars, taskVars, errors
<1>5. CASE TaskCreates \/ TaskWrites \/ TaskCloses \/ TaskTests \/ TaskPops
  <2>1. /\ task \notin {"reporting", "returning", "done"}
        /\ UNCHANGED <<reply, user, call, cause, strongest, detected>>
    BY <1>5 DEF TaskCreates, TaskWrites, TaskCloses, TaskTests, TaskPops, TaskUnchanged,
                userVars, errors
  <2> QED
    BY <2>1
<1> QED
  BY <1>1, <1>2, <1>3, <1>4, <1>5 DEF TaskStep, TaskLocal

(* An error that Send returns is weaker than one it was given or the task  *)
(* has reported only while the task is about to report an UNAVAILABLE.     *)
THEOREM StrongestIsReturned == Spec => WeakerOnlyIfUnreported
<1> DEFINE Unreported == task = "reporting" /\ taskStatus = "UNAVAILABLE"
<1>1. Init => DetectedInv
  BY SenderInitially DEF Init, DetectedInv, ReplyTells, DetectedKept, Weak
<1>2. DetectedInv /\ [Next]_vars => DetectedInv'
  <2> SUFFICES ASSUME DetectedInv, [Next]_vars
               PROVE  DetectedInv'
    OBVIOUS
  <2>1. SenderInv'
    BY SenderStep DEF DetectedInv
  <2>2. CASE UserStep
    BY <2>1, <2>2, UserKeepsDetected DEF DetectedInv
  <2>3. CASE TaskStep \/ RpcEnds
    BY <2>1, <2>3, TaskKeepsDetected DEF DetectedInv
  <2>4. CASE UNCHANGED vars
    BY <2>1, <2>4 DEF vars, errors, userVars, taskVars, DetectedInv, ReplyTells, DetectedKept
  <2> QED
    BY <2>2, <2>3, <2>4 DEF Next
<1>3. DetectedInv /\ [Next]_vars => [ReturnsWeaker => Unreported]_vars
  <2> SUFFICES ASSUME DetectedInv, Next, ReturnsWeaker
               PROVE  Unreported
    OBVIOUS
  <2> USE DEF DetectedInv, DetectedKept, ReturnsWeaker, Weak
  <2>1. CASE SendRefused
    BY <2>1 DEF SendRefused, errors
  <2>2. CASE TakesReply
    BY <2>2 DEF TakesReply, SendReturns, SendRefused
  <2>3. CASE Checks
    BY <2>3 DEF Checks, SendReturns, SendRefused, errors
  <2>4. CASE Finalizes
    <3>1. PICK status : /\ status \in {taskStatus, "CANCELLED"}
                        /\ strongest' = Stronger(Stronger(strongest, status), cause)
                        /\ detected' = detected \cup {status}
      BY <2>4 DEF Finalizes
    <3>2. strongest' = "CANCELLED"
      BY <2>4 DEF Finalizes, SendReturns, SendRefused
    <3>3. status \in Status /\ strongest \in Status /\ cause \in Status
      BY <3>1 DEF SenderInv, TypeOK, Status, Error
    <3>4. Stronger(Stronger(strongest, status), cause) \in Weak
      BY <3>1, <3>2
    <3>5. {strongest, status, cause} \subseteq Weak
      BY ONLY <3>3, <3>4, FinalError
    <3> QED
      BY <3>1, <3>5
  <2>5. SendRefused \/ TakesReply \/ Checks \/ Finalizes
    BY DEF SendReturns, Next, UserStep, UserInCall, TaskStep, TaskLocal, SendSubmits,
           WaitExpires, Destroys, RequestsCancel, TaskCreates, TaskWrites, TaskCloses,
           TaskTests, TaskPops, TaskReplies, TaskReports, TaskReturns, RpcEnds,
           TaskUnchanged, userVars
  <2> QED
    BY <2>1, <2>2, <2>3, <2>4, <2>5
<1> QED
  BY <1>1, <1>2, <1>3, PTL DEF Spec, WeakerOnlyIfUnreported
=============================================================================
