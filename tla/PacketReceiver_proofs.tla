------------------------ MODULE PacketReceiver_proofs ------------------------
(***************************************************************************)
(* What PacketReceiver.tla says of a session, for any number of packets,   *)
(* commits and heartbeats and whatever the user calls.                     *)
(***************************************************************************)
EXTENDS PacketReceiver, Channel_proofs, TLAPS

(* Every variable begins with its type, and each party keeps the types.    *)
LEMMA TypeInit == Init => TypeOK
<1> SUFFICES ASSUME Init
             PROVE  TypeOK
  OBVIOUS
<1>1. /\ delivered \in Seq(Nat) /\ inbound \in Seq(Response) /\ committed \in Seq(Nat)
  BY EmptySeq DEF Init
<1>2. /\ mainStatus \in ChannelOf(Code) /\ committerStatus \in ChannelOf(Code)
      /\ transferrerStatus \in ChannelOf(Code)
      /\ receive \in ChannelOf(Nat) /\ commit \in ChannelOf(Nat)
      /\ response \in ChannelOf(Response)
  BY NewChannelType DEF Init
<1>3. transferrerResponse \in Response /\ responderResponse \in Response
  BY DEF Init, NoResponse, Response
<1>4. "OK" \in Code
  BY DEF Code
<1> QED
  BY <1>1, <1>2, <1>3, <1>4
  DEF Init, TypeOK, UserPc, MainPc, CommitterPc, TransferrerPc, ResponderPc, Workers

(* The status of a worker is a code, also when there is none.              *)
LEMMA StatusReadType ==
  ASSUME NEW ch \in ChannelOf(Code)
  PROVE  StatusRead(ch) \in Code /\ AfterRead(ch) \in ChannelOf(Code)
  BY PopType DEF StatusRead, AfterRead, Code

(* The user, in a call or between two.                                     *)
LEMMA UserTypes ==
  ASSUME TypeOK, UserActs \/ UserReturns
  PROVE  TypeOK'
<1> USE DEF TypeOK, userHistory, mainVars, committerVars, transferrerVars, responderVars,
            clientVars, rpcVars, serverVars
<1>1. CASE UserActs
  <2>1. user' \in UserPc
    BY <1>1 DEF UserActs, BeginReceive, UserTimesOut, BeginCommit, CommitsDone,
                BeginFinish, BeginCancel, Calls, Returns, UserPc
  <2>2. commit' \in ChannelOf(Nat)
    BY <1>1, CloseWritesType
    DEF UserActs, BeginReceive, UserTimesOut, BeginCommit, CommitsDone, BeginFinish, BeginCancel
  <2>3. UNCHANGED <<userHistory, committerCancelled, transferrerCancelled, mainStatus, receive>>
    BY <1>1
    DEF UserActs, BeginReceive, UserTimesOut, BeginCommit, CommitsDone, BeginFinish, BeginCancel
  <2> QED
    BY <1>1, <2>1, <2>2, <2>3 DEF UserActs
<1>2. CASE UserReturns
  <2>1. ReceiveGetsPacket \/ ReceiveEnds \/ CommitReturns \/ FinishReturns
        \/ CancelMainTask \/ CancelReturns
    BY <1>2 DEF UserReturns
  <2>2. user' \in UserPc /\ notJoined' \in BOOLEAN /\ endSeen' \in BOOLEAN /\ issued' \in Nat
    <3>1. CASE ReceiveGetsPacket \/ ReceiveEnds \/ FinishReturns
      BY <3>1 DEF ReceiveGetsPacket, ReceiveEnds, FinishReturns, Returns, UserPc
    <3>2. CASE CommitReturns
      BY <3>2 DEF CommitReturns, Returns, UserPc
    <3>3. CASE CancelMainTask \/ CancelReturns
      BY <3>3 DEF CancelMainTask, CancelReturns, Returns, UserPc
    <3> QED
      BY <2>1, <3>1, <3>2, <3>3
  <2>6. committerCancelled' \in BOOLEAN /\ transferrerCancelled' \in BOOLEAN
    BY <2>1 DEF ReceiveGetsPacket, ReceiveEnds, CommitReturns, FinishReturns, CancelMainTask,
                CancelReturns
  <2>3. receive' \in ChannelOf(Nat) /\ delivered' \in Seq(Nat)
    <3>1. CASE ReceiveGetsPacket
      BY <3>1, PopType, AppendProperties DEF ReceiveGetsPacket
    <3>2. CASE ReceiveEnds \/ CommitReturns \/ FinishReturns \/ CancelReturns
      BY <3>2 DEF ReceiveEnds, CommitReturns, FinishReturns, CancelReturns
    <3>3. CASE CancelMainTask
      BY <3>3, CancelWritersType DEF CancelMainTask
    <3> QED
      BY <2>1, <3>1, <3>2, <3>3
  <2>4. commit' \in ChannelOf(Nat)
    <3>1. CASE ReceiveGetsPacket \/ FinishReturns \/ CancelReturns
      BY <3>1 DEF ReceiveGetsPacket, FinishReturns, CancelReturns
    <3>2. CASE ReceiveEnds \/ CancelMainTask
      BY <3>2, CloseWritesType, CancelWritersType DEF ReceiveEnds, CancelMainTask
    <3>3. CASE CommitReturns
      BY <3>3, EmplaceType DEF CommitReturns
    <3> QED
      BY <2>1, <3>1, <3>2, <3>3
  <2>5. mainStatus' \in ChannelOf(Code) /\ finishReturn' \in Code \cup {"NONE"}
    BY <2>1, StatusReadType
    DEF ReceiveGetsPacket, ReceiveEnds, CommitReturns, FinishReturns, CancelMainTask, CancelReturns
  <2> QED
    BY <1>2, <2>2, <2>3, <2>4, <2>5, <2>6 DEF UserReturns
<1> QED
  BY <1>1, <1>2

(* MainTask.                                                               *)
LEMMA MainTypes ==
  ASSUME TypeOK, MainStep
  PROVE  TypeOK'
<1> USE DEF TypeOK, userVars, userHistory, committerVars, transferrerVars, responderVars,
            rpcVars, serverVars
<1>1. MainCollectsFirst \/ MainCancels \/ MainJoins \/ MainFinishesRpc \/ MainReturns
  BY DEF MainStep
<1>2. /\ main' \in MainPc /\ rpcOpen' \in BOOLEAN /\ collected' \in SUBSET Workers
      /\ committerCancelled' \in BOOLEAN /\ transferrerCancelled' \in BOOLEAN
  BY <1>1 DEF MainCollectsFirst, RecordStatus, MainCancels, MainJoins, MainFinishesRpc,
              MainReturns, MainPc, Workers
<1>3. /\ committerStatus' \in ChannelOf(Code) /\ transferrerStatus' \in ChannelOf(Code)
      /\ returnStatus' \in Code
  BY <1>1, StatusReadType
  DEF MainCollectsFirst, RecordStatus, MainCancels, MainJoins, MainFinishesRpc, MainReturns,
      Code, RpcCode
<1>4. mainStatus' \in ChannelOf(Code) /\ commit' \in ChannelOf(Nat)
  <2>1. Emplace(mainStatus, returnStatus) \in ChannelOf(Code)
    BY EmplaceType
  <2> QED
    BY <1>1, <2>1, CloseWritesType, CancelWritersType
    DEF MainCollectsFirst, MainCancels, MainJoins, MainFinishesRpc, MainReturns
<1> QED
  BY <1>2, <1>3, <1>4 DEF MainStep

(* Cancel of the gRPC client, called by several of the threads.            *)
LEMMA ClientCancelTypes ==
  ASSUME TypeOK, ClientCancel
  PROVE  /\ rpcOpen' \in BOOLEAN /\ readTerminated' \in BOOLEAN /\ writeTerminated' \in BOOLEAN
         /\ tryCancelled' \in BOOLEAN /\ rpc' \in RpcCode \cup {"open"}
  BY DEF TypeOK, ClientCancel, RpcCode, clientVars, rpcVars

(* The commit writer.                                                      *)
LEMMA CommitterTypes ==
  ASSUME TypeOK, CommitterStep
  PROVE  TypeOK'
<1> USE DEF TypeOK, userVars, userHistory, mainVars, transferrerVars, responderVars, cancelVars,
            clientVars, rpcVars
<1>1. CommitterLoops \/ CommitterReads \/ CommitterWrites \/ CommitterWritesDone
      \/ CommitterCancelsRpc \/ CommitterReturns
  BY DEF CommitterStep
<1>2. committer' \in CommitterPc /\ halfClosed' \in BOOLEAN
  BY <1>1 DEF CommitterLoops, CommitterReads, CommitterWrites, CommitterWritesDone,
              CommitterCancelsRpc, CommitterReturns, CommitterPc
<1>3. /\ rpcOpen' \in BOOLEAN /\ readTerminated' \in BOOLEAN /\ writeTerminated' \in BOOLEAN
      /\ tryCancelled' \in BOOLEAN /\ rpc' \in RpcCode \cup {"open"}
  BY <1>1, ClientCancelTypes
  DEF CommitterLoops, CommitterReads, CommitterWrites, CommitterWritesDone, CommitterCancelsRpc,
      CommitterReturns
<1>4. commit' \in ChannelOf(Nat) /\ committerOffset' \in Nat /\ committed' \in Seq(Nat)
  <2>1. CASE CommitterReads
    <3>1. CASE PopsItem(commit)
      <4>1. Pop(commit) \in ChannelOf(Nat) /\ Front(commit) \in Nat
        BY <3>1, PopType
      <4> QED
        BY <2>1, <4>1 DEF CommitterReads
    <3>2. CASE ~PopsItem(commit)
      BY <2>1, <3>2 DEF CommitterReads
    <3> QED
      BY <3>1, <3>2
  <2>2. CASE CommitterWrites
    <3>1. Append(committed, committerOffset) \in Seq(Nat)
      BY AppendProperties
    <3> QED
      BY <2>2, <3>1 DEF CommitterWrites
  <2>3. CASE CommitterLoops \/ CommitterWritesDone \/ CommitterCancelsRpc \/ CommitterReturns
    BY <2>3 DEF CommitterLoops, CommitterWritesDone, CommitterCancelsRpc, CommitterReturns
  <2> QED
    BY <1>1, <2>1, <2>2, <2>3
<1>5. committerStatus' \in ChannelOf(Code)
  <2>1. Emplace(committerStatus, "OK") \in ChannelOf(Code)
    BY EmplaceType DEF Code
  <2> QED
    BY <1>1, <2>1, CloseWritesType
    DEF CommitterLoops, CommitterReads, CommitterWrites, CommitterWritesDone,
        CommitterCancelsRpc, CommitterReturns
<1> QED
  BY <1>2, <1>3, <1>4, <1>5 DEF CommitterStep

(* The transferrer.                                                        *)
LEMMA TransferrerTypes ==
  ASSUME TypeOK, TransferrerStep \/ MissHeartbeat
  PROVE  TypeOK'
<1> USE DEF TypeOK, userVars, userHistory, mainVars, committerVars, responderVars,
            clientVars, rpcVars, serverVars, TransferrerFrame
<1>1. CASE MissHeartbeat
  BY <1>1 DEF MissHeartbeat, TransferrerMissesHeartbeat, TransferrerPc
<1>2. CASE TransferrerStep
  <2>1. TransferrerLoops \/ TransferrerPolls \/ TransferrerHandles
        \/ TransferrerAwaitsEnd \/ TransferrerCancels \/ TransferrerReturns
    BY <1>2 DEF TransferrerStep
  <2>2. transferrer' \in TransferrerPc
    BY <2>1 DEF TransferrerLoops, TransferrerPolls, TransferrerHandles, TransferrerAwaitsEnd,
                TransferrerCancels, TransferrerReturns, TransferrerPc
  <2>3. /\ readChannelClosed' \in BOOLEAN /\ responderCancelled' \in BOOLEAN
        /\ transferrerFinal' \in Code
    BY <2>1 DEF TransferrerLoops, TransferrerPolls, TransferrerHandles, TransferrerAwaitsEnd,
                TransferrerCancels, TransferrerReturns, Code
  <2>4. transferrerResponse' \in Response /\ response' \in ChannelOf(Response)
    <3>1. CASE TransferrerPolls
      <4>1. PopsItem(response) => Pop(response) \in ChannelOf(Response) /\ Front(response) \in Response
        BY PopType
      <4> QED
        BY <3>1, <4>1 DEF TransferrerPolls
    <3>2. CASE TransferrerAwaitsEnd
      <4>1. PopsItem(response) => Pop(response) \in ChannelOf(Response)
        BY PopType
      <4> QED
        BY <3>2, <4>1 DEF TransferrerAwaitsEnd
    <3>3. CASE TransferrerHandles
      BY <3>3 DEF TransferrerHandles, NoResponse, Response
    <3>4. CASE TransferrerLoops \/ TransferrerCancels \/ TransferrerReturns
      BY <3>4, CancelWritersType DEF TransferrerLoops, TransferrerCancels, TransferrerReturns
    <3> QED
      BY <2>1, <3>1, <3>2, <3>3, <3>4
  <2>5. receive' \in ChannelOf(Nat)
    <3>1. CASE TransferrerHandles
      <4>1. transferrerResponse.packet \in Nat
        BY DEF Response
      <4>2. Emplace(receive, transferrerResponse.packet) \in ChannelOf(Nat)
        BY <4>1, EmplaceType
      <4> QED
        BY <3>1, <4>2, CloseWritesType DEF TransferrerHandles
    <3>2. CASE ~TransferrerHandles
      BY <2>1, <3>2, CloseWritesType
      DEF TransferrerLoops, TransferrerPolls, TransferrerAwaitsEnd, TransferrerCancels,
          TransferrerReturns
    <3> QED
      BY <3>1, <3>2
  <2>6. transferrerStatus' \in ChannelOf(Code)
    <3>1. Emplace(transferrerStatus, transferrerFinal) \in ChannelOf(Code)
      BY EmplaceType
    <3> QED
      BY <2>1, <3>1, CloseWritesType
      DEF TransferrerLoops, TransferrerPolls, TransferrerHandles, TransferrerAwaitsEnd,
          TransferrerCancels, TransferrerReturns
  <2>7. /\ rpcOpen' \in BOOLEAN /\ readTerminated' \in BOOLEAN /\ writeTerminated' \in BOOLEAN
        /\ tryCancelled' \in BOOLEAN /\ rpc' \in RpcCode \cup {"open"}
    BY <2>1, ClientCancelTypes
    DEF TransferrerLoops, TransferrerPolls, TransferrerHandles, TransferrerAwaitsEnd,
        TransferrerCancels, TransferrerReturns
  <2> QED
    BY <1>2, <2>2, <2>3, <2>4, <2>5, <2>6, <2>7 DEF TransferrerStep
<1> QED
  BY <1>1, <1>2

(* The response reader.                                                    *)
LEMMA ResponderTypes ==
  ASSUME TypeOK, ResponderStep
  PROVE  TypeOK'
<1> USE DEF TypeOK, userVars, userHistory, mainVars, committerVars, transferrerVars, cancelVars,
            rpcVars
<1>1. ResponderLoops \/ ResponderReads \/ ResponderWrites
  BY DEF ResponderStep
<1>2. responder' \in ResponderPc /\ readTerminated' \in BOOLEAN
  BY <1>1 DEF ResponderLoops, ResponderReads, ResponderWrites, ResponderReturns, ResponderPc
<1>3. responderResponse' \in Response /\ inbound' \in Seq(Response)
  <2>1. inbound # <<>> => Head(inbound) \in Response /\ Tail(inbound) \in Seq(Response)
    BY HeadTailProperties
  <2>2. NoResponse \in Response
    BY DEF NoResponse, Response
  <2> QED
    BY <1>1, <2>1, <2>2 DEF ResponderLoops, ResponderReads, ResponderWrites
<1>4. response' \in ChannelOf(Response)
  <2>1. Emplace(response, responderResponse) \in ChannelOf(Response)
    BY EmplaceType
  <2> QED
    BY <1>1, <2>1, CloseWritesType
    DEF ResponderLoops, ResponderReads, ResponderWrites, ResponderReturns
<1> QED
  BY <1>2, <1>3, <1>4 DEF ResponderStep

(* The server and the transport.                                           *)
LEMMA EnvironmentTypes ==
  ASSUME TypeOK, EnvironmentStep
  PROVE  TypeOK'
<1> USE DEF TypeOK
<1>1. ServerSendsPacket \/ ServerSendsHeartbeat \/ ServerRequestsWritesDone
      \/ ServerEnds \/ RpcBreaks
  BY DEF EnvironmentStep
<1>2. rpc' \in RpcCode \cup {"open"} /\ writesDoneRequested' \in BOOLEAN
  BY <1>1 DEF ServerSendsPacket, ServerSendsHeartbeat, ServerRequestsWritesDone, ServerEnds,
              RpcBreaks, ServerSends, RpcCode
<1>4. sent' \in Nat
  BY <1>1 DEF ServerSendsPacket, ServerSendsHeartbeat, ServerRequestsWritesDone, ServerEnds,
              RpcBreaks
<1>3. inbound' \in Seq(Response)
  <2>1. /\ PacketResponse(sent + 1) \in Response /\ Heartbeat \in Response
        /\ WritesDoneRequest \in Response
    BY DEF PacketResponse, Heartbeat, WritesDoneRequest, Response
  <2>2. \A r \in Response : Append(inbound, r) \in Seq(Response)
    BY AppendProperties
  <2>3. <<>> \in Seq(Response)
    BY EmptySeq
  <2> QED
    BY <1>1, <2>1, <2>2, <2>3
    DEF ServerSendsPacket, ServerSendsHeartbeat, ServerRequestsWritesDone, ServerEnds,
        RpcBreaks, ServerSends
<1> QED
  BY <1>2, <1>3, <1>4
  DEF EnvironmentStep, EnvironmentFrame, threadVars, cancelVars, channels, clientVars, userVars,
      userHistory, mainVars, committerVars, transferrerVars, responderVars

(* Every step.                                                             *)
LEMMA TypeStep ==
  ASSUME TypeOK, [Next]_vars
  PROVE  TypeOK'
<1>1. CASE UNCHANGED vars
  BY <1>1
  DEF TypeOK, vars, threadVars, cancelVars, channels, clientVars, rpcVars, serverVars, userVars,
      userHistory, mainVars, committerVars, transferrerVars, responderVars
<1> QED
  BY <1>1, UserTypes, MainTypes, CommitterTypes, TransferrerTypes, ResponderTypes,
     EnvironmentTypes DEF Next

(* Every reachable state is well typed.                                    *)
THEOREM TypeCorrect == Spec => []TypeOK
<1>1. TypeOK /\ [Next]_vars => TypeOK'
  BY TypeStep
<1> QED
  BY TypeInit, <1>1, PTL DEF Spec

-----------------------------------------------------------------------------
(* The end of the session: who has closed what by the time MainTask asks   *)
(* the RPC for its status.                                                 *)

(* The responder ends only when the reads have ended or the transferrer is *)
(* just about to cancel the RPC, which ends them.                          *)
ReadSide ==
  /\ response.closed => responder = "done"
  /\ responder = "done" \/ responderCancelled \/ response.cancelled =>
       readTerminated \/ transferrer = "cancel_rpc"
  /\ readChannelClosed => readTerminated
  /\ transferrer \in {"join", "done"} => readTerminated
  /\ transferrer = "done" => responder = "done"

(* Whichever way the committer ends, it has closed the writes.             *)
WriteSide == committer \in {"return", "done"} => writeTerminated

(* MainTask is past its join only when both workers are, and only then may *)
(* the stream be gone.                                                     *)
MainSide ==
  /\ main \in {"finish_rpc", "return", "done"} =>
       committer = "done" /\ transferrer = "done"
  /\ ~rpcOpen => main \in {"return", "done"}

EndInv == TypeOK /\ ReadSide /\ WriteSide /\ MainSide

(* EndInv holds at the beginning ...                                       *)
LEMMA EndInit == Init => EndInv
  BY TypeInit DEF Init, EndInv, ReadSide, WriteSide, MainSide, NewChannel

(* What the transferrer and the responder do to the response channel.      *)
LEMMA ResponseFields ==
  ASSUME TypeOK
  PROVE  /\ Pop(response).closed = response.closed
         /\ Pop(response).cancelled = response.cancelled
         /\ Emplace(response, responderResponse).closed = response.closed
         /\ Emplace(response, responderResponse).cancelled = response.cancelled
         /\ CloseWrites(response).cancelled = response.cancelled
         /\ CancelWriters(response).closed = response.closed
  BY ChannelFields, EmplaceFields DEF TypeOK

(* ... and every step keeps it.                                            *)
LEMMA EndStep ==
  ASSUME EndInv, [Next]_vars
  PROVE  EndInv'
<1> USE DEF EndInv, ReadSide, WriteSide, MainSide
<1>1. TypeOK'
  BY TypeStep
<1>2. CASE UserActs \/ UserReturns
  BY <1>1, <1>2
  DEF UserActs, UserReturns, mainVars, committerVars, transferrerVars, responderVars, clientVars
<1>3. CASE MainStep
  <2>1. UNCHANGED <<committer, transferrer, responder, responderCancelled, readChannelClosed,
                    response, readTerminated, writeTerminated>>
    BY <1>3 DEF MainStep, committerVars, transferrerVars, responderVars
  <2>2. MainSide'
    BY <1>3, <2>1
    DEF MainStep, MainCollectsFirst, RecordStatus, MainCancels, MainJoins, MainFinishesRpc,
        MainReturns
  <2> QED
    BY <1>1, <2>1, <2>2
<1>4. CASE CommitterStep
  <2>1. UNCHANGED <<main, transferrer, responder, responderCancelled, readChannelClosed,
                    response, rpcOpen>>
    BY <1>4
    DEF CommitterStep, CommitterLoops, CommitterReads, CommitterWrites, CommitterWritesDone,
        CommitterCancelsRpc, CommitterReturns, ClientCancel, mainVars, transferrerVars,
        responderVars, cancelVars, clientVars
  <2>2. readTerminated => readTerminated'
    BY <1>4
    DEF CommitterStep, CommitterLoops, CommitterReads, CommitterWrites, CommitterWritesDone,
        CommitterCancelsRpc, CommitterReturns, ClientCancel, clientVars
  <2>3. WriteSide' /\ (committer = "done" => committer' = "done")
    BY <1>4
    DEF CommitterStep, CommitterLoops, CommitterReads, CommitterWrites, CommitterWritesDone,
        CommitterCancelsRpc, CommitterReturns, ClientCancel, clientVars
  <2> QED
    BY <1>1, <2>1, <2>2, <2>3
<1>5. CASE MissHeartbeat
  BY <1>1, <1>5
  DEF MissHeartbeat, TransferrerMissesHeartbeat, TransferrerFrame, mainVars, committerVars,
      responderVars, clientVars
<1>6. CASE TransferrerStep
  <2>1. TransferrerLoops \/ TransferrerPolls \/ TransferrerHandles
        \/ TransferrerAwaitsEnd \/ TransferrerCancels \/ TransferrerReturns
    BY <1>6 DEF TransferrerStep
  <2>2. UNCHANGED <<main, committer, responder>>
    BY <1>6 DEF TransferrerStep, TransferrerFrame, mainVars, committerVars, responderVars
  <2>3. UNCHANGED rpcOpen /\ (writeTerminated => writeTerminated')
    BY <2>1
    DEF TransferrerLoops, TransferrerPolls, TransferrerHandles, TransferrerAwaitsEnd,
        TransferrerCancels, TransferrerReturns, ClientCancel, clientVars
  <2>4. transferrer # "done" /\ rpcOpen
    BY <2>1
    DEF TransferrerLoops, TransferrerPolls, TransferrerHandles, TransferrerAwaitsEnd,
        TransferrerCancels, TransferrerReturns
  <2>5. ReadSide'
    <3>1. CASE TransferrerLoops \/ TransferrerHandles
      BY <2>2, <3>1 DEF TransferrerLoops, TransferrerHandles, clientVars
    <3>2. CASE TransferrerPolls
      BY <2>2, <3>2, ResponseFields DEF TransferrerPolls, PopsEnd, clientVars
    <3>3. CASE TransferrerAwaitsEnd
      BY <2>2, <3>3, ResponseFields DEF TransferrerAwaitsEnd, PopsEnd, clientVars
    <3>4. CASE TransferrerCancels
      BY <2>2, <2>4, <3>4, ResponseFields DEF TransferrerCancels, ClientCancel, clientVars
    <3>5. CASE TransferrerReturns
      BY <2>2, <3>5 DEF TransferrerReturns, clientVars
    <3> QED
      BY <2>1, <3>1, <3>2, <3>3, <3>4, <3>5
  <2>6. MainSide'
    BY <2>2, <2>3, <2>4
  <2>7. WriteSide'
    BY <2>2, <2>3
  <2> QED
    BY <1>1, <2>5, <2>6, <2>7
<1>7. CASE ResponderStep
  <2>1. UNCHANGED <<main, committer, transferrer, readChannelClosed, responderCancelled,
                    rpcOpen, writeTerminated>>
    BY <1>7 DEF ResponderStep, mainVars, committerVars, transferrerVars, cancelVars
  <2>2. ResponderLoops \/ ResponderReads \/ ResponderWrites
    BY <1>7 DEF ResponderStep
  <2>3. ReadSide'
    BY <2>1, <2>2, ResponseFields
    DEF ResponderLoops, ResponderReads, ResponderWrites, ResponderReturns, EmplaceRefused, TypeOK
  <2> QED
    BY <1>1, <2>1, <2>3
<1>8. CASE EnvironmentStep
  BY <1>1, <1>8
  DEF EnvironmentStep, EnvironmentFrame, threadVars, cancelVars, channels, clientVars, mainVars,
      committerVars, transferrerVars, responderVars
<1>9. CASE UNCHANGED vars
  BY <1>1, <1>9
  DEF vars, threadVars, cancelVars, channels, clientVars, mainVars, committerVars,
      transferrerVars, responderVars
<1> QED
  BY <1>2, <1>3, <1>4, <1>5, <1>6, <1>7, <1>8, <1>9 DEF Next

(* MainTask asks for the status of the RPC only when both directions are   *)
(* closed and the stream is there.                                         *)
THEOREM FinishMeetsItsPrecondition == Spec => []FinishPreconditionMet
<1>1. EndInv /\ [Next]_vars => EndInv'
  BY EndStep
<1>2. EndInv => FinishPreconditionMet
  BY DEF EndInv, ReadSide, WriteSide, MainSide, FinishPreconditionMet, FinishPrecondition
<1> QED
  BY EndInit, <1>1, <1>2, PTL DEF Spec

(* No thread that uses the stream is left when it is given up.             *)
THEOREM NobodyUsesFinishedRpc == Spec => []NoUseAfterFinish
<1>1. EndInv /\ [Next]_vars => EndInv'
  BY EndStep
<1>2. EndInv => NoUseAfterFinish
  BY DEF EndInv, ReadSide, MainSide, NoUseAfterFinish
<1> QED
  BY EndInit, <1>1, <1>2, PTL DEF Spec

-----------------------------------------------------------------------------
(* After Cancel.  A thread that is done stays done, and what it closed or  *)
(* cancelled stays so.                                                     *)
QuietSide ==
  /\ ~notJoined => main = "done"
  /\ main = "done" => commit.cancelled /\ mainStatus.closed
  /\ transferrer = "done" => receive.closed

QuietInv == EndInv /\ QuietSide

(* Nothing reopens a channel or takes a cancellation back.                 *)
LEMMA ClosedForGood ==
  ASSUME TypeOK
  PROVE  /\ \A x \in Nat : /\ Emplace(commit, x).cancelled = commit.cancelled
                          /\ Emplace(receive, x).closed = receive.closed
         /\ Pop(commit).cancelled = commit.cancelled
         /\ CloseWrites(commit).cancelled = commit.cancelled
         /\ CancelWriters(commit).cancelled = TRUE
         /\ Pop(receive).closed = receive.closed
         /\ CancelWriters(receive).closed = receive.closed
         /\ CloseWrites(receive).closed = TRUE
         /\ AfterRead(mainStatus).closed = mainStatus.closed
         /\ CloseWrites(Emplace(mainStatus, returnStatus)).closed = TRUE
<1> USE DEF TypeOK
<1>1. CloseWrites(Emplace(mainStatus, returnStatus)).closed = TRUE
  BY EmplaceType, ChannelFields
<1>2. AfterRead(mainStatus).closed = mainStatus.closed
  BY ChannelFields DEF AfterRead
<1> QED
  BY <1>1, <1>2, ChannelFields, EmplaceFields

(* QuietInv holds at the beginning ...                                     *)
LEMMA QuietInit == Init => QuietInv
  BY EndInit DEF Init, QuietInv, QuietSide

(* ... and every step keeps it.                                            *)
LEMMA QuietStep ==
  ASSUME QuietInv, [Next]_vars
  PROVE  QuietInv'
<1> USE DEF QuietInv, QuietSide
<1>1. EndInv' /\ TypeOK
  BY EndStep DEF EndInv
<1>2. CASE UserActs
  <2>1. UNCHANGED <<notJoined, main, transferrer, mainStatus, receive>>
    BY <1>2
    DEF UserActs, BeginReceive, UserTimesOut, BeginCommit, CommitsDone, BeginFinish, BeginCancel,
        userHistory, mainVars, transferrerVars
  <2>2. commit' = commit \/ commit' = CloseWrites(commit)
    BY <1>2
    DEF UserActs, BeginReceive, UserTimesOut, BeginCommit, CommitsDone, BeginFinish, BeginCancel
  <2> QED
    BY <1>1, <2>1, <2>2, ClosedForGood
<1>3. CASE UserReturns
  <2>1. ReceiveGetsPacket \/ ReceiveEnds \/ CommitReturns \/ FinishReturns
        \/ CancelMainTask \/ CancelReturns
    BY <1>3 DEF UserReturns
  <2>2. UNCHANGED <<main, transferrer>>
    BY <1>3 DEF UserReturns, mainVars, transferrerVars
  <2>3. ~notJoined' => main = "done"
    BY <2>1
    DEF ReceiveGetsPacket, ReceiveEnds, CommitReturns, FinishReturns, CancelMainTask,
        CancelReturns, userHistory
  <2>4. commit.cancelled => commit'.cancelled
    <3>1. issued + 1 \in Nat
      BY <1>1 DEF TypeOK
    <3> QED
      BY <1>1, <2>1, <3>1, ClosedForGood
    DEF ReceiveGetsPacket, ReceiveEnds, CommitReturns, FinishReturns, CancelMainTask,
        CancelReturns
  <2>5. receive.closed => receive'.closed
    BY <1>1, <2>1, ClosedForGood
    DEF ReceiveGetsPacket, ReceiveEnds, CommitReturns, FinishReturns, CancelMainTask,
        CancelReturns
  <2>6. mainStatus.closed => mainStatus'.closed
    BY <1>1, <2>1, ClosedForGood
    DEF ReceiveGetsPacket, ReceiveEnds, CommitReturns, FinishReturns, CancelMainTask,
        CancelReturns
  <2> QED
    BY <1>1, <2>2, <2>3, <2>4, <2>5, <2>6
<1>4. CASE MainStep
  <2>1. UNCHANGED <<notJoined, transferrer, receive>>
    BY <1>4 DEF MainStep, userVars, userHistory, transferrerVars
  <2>2. main # "done" /\ (main' = "done" => MainReturns)
    BY <1>4
    DEF MainStep, MainCollectsFirst, RecordStatus, MainCancels, MainJoins, MainFinishesRpc,
        MainReturns
  <2>3. main' = "done" => commit'.cancelled /\ mainStatus'.closed
    BY <1>1, <2>2, ClosedForGood DEF MainReturns
  <2> QED
    BY <1>1, <2>1, <2>2, <2>3
<1>5. CASE CommitterStep
  <2>1. UNCHANGED <<notJoined, main, transferrer, mainStatus, receive>>
    BY <1>5 DEF CommitterStep, userVars, userHistory, mainVars, transferrerVars
  <2>2. commit' = commit \/ commit' = Pop(commit)
    BY <1>5
    DEF CommitterStep, CommitterLoops, CommitterReads, CommitterWrites, CommitterWritesDone,
        CommitterCancelsRpc, CommitterReturns
  <2> QED
    BY <1>1, <2>1, <2>2, ClosedForGood
<1>6. CASE TransferrerStep \/ MissHeartbeat
  <2>1. UNCHANGED <<notJoined, main, mainStatus, commit>>
    BY <1>6
    DEF TransferrerStep, MissHeartbeat, TransferrerFrame, userVars, userHistory, mainVars
  <2>2. transferrer' = "done" => receive' = CloseWrites(receive)
    BY <1>6
    DEF TransferrerStep, MissHeartbeat, TransferrerMissesHeartbeat, TransferrerLoops,
        TransferrerPolls, TransferrerHandles, TransferrerAwaitsEnd, TransferrerCancels,
        TransferrerReturns
  <2> QED
    BY <1>1, <2>1, <2>2, ClosedForGood
<1>7. CASE ResponderStep
  BY <1>1, <1>7 DEF ResponderStep, userVars, userHistory, mainVars, transferrerVars
<1>8. CASE EnvironmentStep
  BY <1>1, <1>8
  DEF EnvironmentStep, EnvironmentFrame, threadVars, channels, userVars, userHistory, mainVars,
      transferrerVars
<1>9. CASE UNCHANGED vars
  BY <1>1, <1>9
  DEF vars, threadVars, channels, userVars, userHistory, mainVars, transferrerVars
<1> QED
  BY <1>2, <1>3, <1>4, <1>5, <1>6, <1>7, <1>8, <1>9 DEF Next

(* When Cancel has returned all the threads are done, and no later call    *)
(* can block for ever: every channel the user waits on is closed or        *)
(* cancelled.                                                              *)
THEOREM CancelLeavesQuiet == Spec => []QuietAfterCancel
<1>1. QuietInv /\ [Next]_vars => QuietInv'
  BY QuietStep
<1>2. QuietInv => QuietAfterCancel
  BY DEF QuietInv, QuietSide, EndInv, MainSide, ReadSide, QuietAfterCancel
<1> QED
  BY QuietInit, <1>1, <1>2, PTL DEF Spec

-----------------------------------------------------------------------------
(* The commits.  What the server has, what the committer holds and what is *)
(* in the commit channel are together the offsets issued, in order, until  *)
(* the committer gives up.                                                 *)
Writing == IF committer = "write" THEN 1 ELSE 0
GivenUp == committer \in {"return", "done"}

CommitSide ==
  /\ CountsFrom(committed, 0)
  /\ committer = "write" => committerOffset = Len(committed) + 1
  /\ GivenUp => Len(committed) <= issued
  /\ ~GivenUp =>
       /\ CountsFrom(commit.q, Len(committed) + Writing)
       /\ Len(committed) + Writing + Len(commit.q) = issued
  /\ committer = "writes_done" => commit.closed /\ commit.q = <<>>
  /\ commit.closed => user # "committing"
  /\ halfClosed => commit.closed /\ GivenUp /\ Len(committed) = issued

CommitInv == TypeOK /\ CommitSide

(* CommitInv holds at the beginning.                                       *)
LEMMA CommitInit == Init => CommitInv
<1> SUFFICES ASSUME Init
             PROVE  CommitSide
  BY TypeInit DEF CommitInv
<1>1. committed = <<>> /\ commit.q = <<>> /\ ~commit.closed /\ Len(<<>>) = 0
  BY DEF Init, NewChannel
<1>2. committer = "loop" /\ issued = 0 /\ ~halfClosed
  BY DEF Init
<1> QED
  BY <1>1, <1>2 DEF CommitSide, CountsFrom, Writing, GivenUp

(* A step that leaves the commits where they are.                          *)
LEMMA CommitsStay ==
  ASSUME CommitInv,
         UNCHANGED <<issued, committer, committerOffset, committed, halfClosed>>,
         commit'.q = commit.q, commit.closed => commit'.closed,
         commit'.closed => user' # "committing"
  PROVE  CommitSide'
  BY DEF CommitInv, CommitSide, Writing, GivenUp

(* The steps of the user keep it.                                          *)
LEMMA UserKeepsCommits ==
  ASSUME CommitInv, UserActs \/ UserReturns
  PROVE  CommitSide'
<1> USE DEF CommitInv
<1>1. UNCHANGED <<committer, committerOffset, committed, halfClosed>>
  BY DEF UserActs, UserReturns, committerVars, serverVars
<1>2. /\ CloseWrites(commit).q = commit.q /\ CloseWrites(commit).closed
      /\ CancelWriters(commit).q = commit.q
      /\ CancelWriters(commit).closed = commit.closed
  BY ChannelFields DEF TypeOK
<1>3. CASE UserActs
  <2>1. /\ UNCHANGED issued
        /\ \/ commit' = commit
           \/ commit' = CloseWrites(commit) /\ user' = "idle"
        /\ user' = "committing" => ~commit.closed /\ commit' = commit
    BY <1>3
    DEF UserActs, BeginReceive, UserTimesOut, BeginCommit, CommitsDone, BeginFinish, BeginCancel,
        Calls, Returns, userHistory
  <2> QED
    BY <1>1, <1>2, <2>1, CommitsStay
<1>4. CASE UserReturns /\ ~CommitReturns
  <2>1. ReceiveGetsPacket \/ ReceiveEnds \/ FinishReturns \/ CancelMainTask \/ CancelReturns
    BY <1>4 DEF UserReturns
  <2>2. /\ UNCHANGED issued
        /\ commit' \in {commit, CloseWrites(commit), CancelWriters(commit)}
        /\ user' # "committing"
    BY <2>1
    DEF ReceiveGetsPacket, ReceiveEnds, FinishReturns, CancelMainTask, CancelReturns, Returns,
        userHistory
  <2> QED
    BY <1>1, <1>2, <2>2, CommitsStay
<1>5. CASE CommitReturns
  <2>1. ~commit.closed /\ user' = "idle"
    BY <1>5 DEF CommitReturns, CommitSide, Returns
  <2>2. CASE EmplaceRefused(commit)
    BY <1>1, <1>5, <2>1, <2>2, CommitsStay DEF CommitReturns
  <2>3. CASE ~EmplaceRefused(commit)
    <3> DEFINE base == Len(committed) + Writing
    <3>1. /\ issued \in Nat /\ base \in Nat /\ Len(committed) \in Nat
          /\ commit.q \in Seq(Nat) /\ Len(commit.q) \in Nat
      BY LenProperties DEF TypeOK, ChannelOf, Writing
    <3>2. commit' = Emplace(commit, issued + 1) /\ issued' = issued + 1
      BY <1>5, <2>3 DEF CommitReturns
    <3>3. commit'.q = Append(commit.q, issued + 1) /\ commit'.closed = commit.closed
      <4>1. commit \in ChannelOf(Nat) /\ issued + 1 \in Nat
        BY <3>1 DEF TypeOK
      <4> QED
        BY <3>2, <4>1, EmplaceFields
    <3>4. ~GivenUp => CountsFrom(commit'.q, base) /\ base + Len(commit'.q) = issued + 1
      <4> SUFFICES ASSUME ~GivenUp
                   PROVE  CountsFrom(commit'.q, base) /\ base + Len(commit'.q) = issued + 1
        OBVIOUS
      <4>1. CountsFrom(commit.q, base) /\ issued + 1 = base + Len(commit.q) + 1
        BY <3>1 DEF CommitSide
      <4> HIDE DEF base
      <4>2. commit'.q = Append(commit.q, base + Len(commit.q) + 1)
        BY <3>3, <4>1
      <4>3. CountsFrom(commit'.q, base) /\ Len(commit'.q) = Len(commit.q) + 1
        BY <3>1, <4>1, <4>2, AppendCounts
      <4> QED
        BY <3>1, <4>1, <4>3
    <3>5. committer # "writes_done" /\ ~halfClosed
      BY <2>1 DEF CommitSide
    <3>6. GivenUp' = GivenUp /\ base' = base
      BY <1>1 DEF GivenUp, Writing
    <3> QED
      BY <1>1, <2>1, <3>1, <3>2, <3>3, <3>4, <3>5, <3>6 DEF CommitSide
  <2> QED
    BY <2>2, <2>3
<1> QED
  BY <1>3, <1>4, <1>5

(* The steps of the commit writer.                                         *)
LEMMA CommitterKeepsCommits ==
  ASSUME CommitInv, CommitterStep
  PROVE  CommitSide'
<1> USE DEF CommitInv
<1>1. UNCHANGED <<user, issued>>
  BY DEF CommitterStep, userVars, userHistory
<1>2. /\ commit.q \in Seq(Nat) /\ committed \in Seq(Nat)
      /\ Len(commit.q) \in Nat /\ Len(committed) \in Nat /\ issued \in Nat
  BY LenProperties DEF TypeOK, ChannelOf
<1>4. CASE CommitterLoops
  BY <1>1, <1>4 DEF CommitterLoops, CommitSide, Writing, GivenUp
<1>5. CASE CommitterReads /\ ~PopsItem(commit)
  BY <1>1, <1>5 DEF CommitterReads, PopsEnd, PopsItem, CommitSide, Writing, GivenUp
<1>6. CASE CommitterReads /\ PopsItem(commit)
  <2>1. /\ commit' = Pop(commit) /\ committerOffset' = Head(commit.q)
        /\ committer = "read" /\ committer' = "write" /\ commit.q # <<>>
        /\ UNCHANGED <<committed, halfClosed>>
    BY <1>6 DEF CommitterReads, HasItemOrClosed, PopsEnd, PopsItem, Front
  <2>2. commit'.q = Tail(commit.q) /\ commit'.closed = commit.closed
    BY <2>1, ChannelFields DEF TypeOK
  <2>3. CountsFrom(commit.q, Len(committed)) /\ Len(committed) + Len(commit.q) = issued
    BY <1>2, <2>1 DEF CommitSide, Writing, GivenUp
  <2>4. /\ committerOffset' = Len(committed) + 1
        /\ CountsFrom(commit'.q, Len(committed) + 1)
        /\ Len(commit'.q) = Len(commit.q) - 1
    BY <1>2, <2>1, <2>2, <2>3, TailCounts
  <2>5. Len(committed) + 1 + Len(commit'.q) = issued
    <3>1. \A a, b \in Nat : a + 1 + (b - 1) = a + b
      OBVIOUS
    <3>2. Len(committed) + 1 + (Len(commit.q) - 1) = Len(committed) + Len(commit.q)
      BY <1>2, <3>1
    <3> QED
      BY <2>3, <2>4, <3>2
  <2> QED
    BY <1>1, <2>1, <2>2, <2>4, <2>5 DEF CommitSide, Writing, GivenUp
<1>7. CASE CommitterWrites /\ rpc = "open"
  <2>1. /\ committer = "write" /\ committer' = "loop"
        /\ committed' = Append(committed, committerOffset)
        /\ UNCHANGED <<commit, halfClosed>>
    BY <1>7 DEF CommitterWrites
  <2>2. committerOffset = 0 + Len(committed) + 1 /\ ~halfClosed
    BY <1>2, <2>1 DEF CommitSide, GivenUp
  <2>3. CountsFrom(committed', 0) /\ Len(committed') = Len(committed) + 1
    BY <1>2, <2>1, <2>2, AppendCounts DEF CommitSide
  <2>4. /\ CountsFrom(commit.q, Len(committed) + 1)
        /\ Len(committed) + 1 + Len(commit.q) = issued
    BY <2>1 DEF CommitSide, Writing, GivenUp
  <2>5. Len(committed') + 0 = Len(committed) + 1
    BY <1>2, <2>3
  <2> QED
    BY <1>1, <2>1, <2>2, <2>3, <2>4, <2>5 DEF CommitSide, Writing, GivenUp
<1>8. CASE \/ CommitterWrites /\ rpc # "open"
          \/ CommitterCancelsRpc \/ CommitterReturns
  <2>1. GivenUp' /\ committer # "done" /\ committer' \in {"return", "done"}
    BY <1>8 DEF CommitterWrites, CommitterCancelsRpc, CommitterReturns, GivenUp
  <2>2. UNCHANGED <<commit, committed, halfClosed>>
    BY <1>8 DEF CommitterWrites, CommitterCancelsRpc, CommitterReturns
  <2>3. Len(committed) <= issued
    <3>1. Writing \in Nat
      BY DEF Writing
    <3>2. \A a, b, c \in Nat : a <= a + b + c
      OBVIOUS
    <3>3. Len(committed) <= Len(committed) + Writing + Len(commit.q)
      BY <1>2, <3>1, <3>2
    <3> QED
      BY <3>3 DEF CommitSide
  <2> QED
    BY <1>1, <2>1, <2>2, <2>3 DEF CommitSide, GivenUp
<1>9. CASE CommitterWritesDone
  <2>1. Len(committed) = issued /\ commit.closed
    <3>1. Len(commit.q) = 0
      BY <1>9, EmptySeq DEF CommitterWritesDone, CommitSide
    <3> QED
      BY <1>2, <1>9, <3>1 DEF CommitterWritesDone, CommitSide, Writing, GivenUp
  <2> QED
    BY <1>1, <1>2, <1>9, <2>1 DEF CommitterWritesDone, CommitSide, Writing, GivenUp
<1> QED
  BY <1>4, <1>5, <1>6, <1>7, <1>8, <1>9 DEF CommitterStep

(* Every step; the other parties do not touch the commits.                 *)
LEMMA CommitStep ==
  ASSUME CommitInv, [Next]_vars
  PROVE  CommitInv'
<1>1. TypeOK'
  BY TypeStep DEF CommitInv
<1>2. CASE UserActs \/ UserReturns
  BY <1>1, <1>2, UserKeepsCommits DEF CommitInv
<1>3. CASE CommitterStep
  BY <1>1, <1>3, CommitterKeepsCommits DEF CommitInv
<1>4. CASE MainStep
  <2>1. UNCHANGED <<user, issued, committer, committerOffset, committed, halfClosed>>
    BY <1>4 DEF MainStep, userVars, userHistory, committerVars, serverVars
  <2>2. commit' = commit \/ commit' = CancelWriters(commit)
    BY <1>4
    DEF MainStep, MainCollectsFirst, MainCancels, MainJoins, MainFinishesRpc, MainReturns
  <2>3. commit'.q = commit.q /\ commit'.closed = commit.closed
    BY <2>2, ChannelFields DEF CommitInv, TypeOK
  <2>4. commit'.closed => user' # "committing"
    BY <2>1, <2>3 DEF CommitInv, CommitSide
  <2> QED
    BY <1>1, <2>1, <2>3, <2>4, CommitsStay DEF CommitInv
<1>5. CASE \/ TransferrerStep \/ MissHeartbeat \/ ResponderStep \/ EnvironmentStep
           \/ UNCHANGED vars
  <2>1. UNCHANGED <<user, issued, committer, committerOffset, committed, halfClosed, commit>>
    BY <1>5
    DEF TransferrerStep, MissHeartbeat, TransferrerFrame, ResponderStep, EnvironmentStep,
        EnvironmentFrame, vars, threadVars, channels, userVars, userHistory, committerVars,
        serverVars
  <2>2. commit'.closed => user' # "committing"
    BY <2>1 DEF CommitInv, CommitSide
  <2> QED
    BY <1>1, <2>1, <2>2, CommitsStay DEF CommitInv
<1> QED
  BY <1>2, <1>3, <1>4, <1>5 DEF Next

(* The server gets the offsets in the order of the commits, and a clean    *)
(* half-close comes only after all of them.                                *)
THEOREM CommitsAreFlushed == Spec => []HalfCloseFlushes
<1>1. CommitInv /\ [Next]_vars => CommitInv'
  BY CommitStep
<1>2. CommitInv => HalfCloseFlushes
  <2> SUFFICES ASSUME CommitInv
               PROVE  HalfCloseFlushes
    OBVIOUS
  <2>1. Len(committed) \in Nat /\ Len(commit.q) \in Nat /\ Writing \in Nat
    BY LenProperties DEF CommitInv, TypeOK, ChannelOf, Writing
  <2>2. \A a, b, c \in Nat : a <= a + b + c
    OBVIOUS
  <2>3. Len(committed) <= Len(committed) + Writing + Len(commit.q)
    BY <2>1, <2>2
  <2>4. Len(committed) <= issued
    BY <2>3 DEF CommitInv, CommitSide
  <2>5. \A i \in 1..Len(committed) : committed[i] = i
    BY <2>1 DEF CommitInv, CommitSide, CountsFrom
  <2> QED
    BY <2>4, <2>5 DEF CommitInv, CommitSide, HalfCloseFlushes
<1> QED
  BY CommitInit, <1>1, <1>2, PTL DEF Spec

-----------------------------------------------------------------------------
(***************************************************************************)
(* Which packets are delivered.  A packet passes the transport, the        *)
(* response reader, the response channel, the transferrer and the receive  *)
(* channel; each of these holds a run of consecutive packets among other   *)
(* responses, and the runs join without a gap.                             *)
(***************************************************************************)
(* Responses and the packets among them.                                   *)
IsPacket(x)  == x.kind = "packet"
IsRequest(x) == x.kind = "writes_done_request"

(* The number of the last packet up to and including the response x, when  *)
(* `a` is the last one before it.                                          *)
Past(x, a) == IF IsPacket(x) THEN a + 1 ELSE a

(* The response x continues after packet a, when w is the last there is:   *)
(* nothing follows a writes done request.                                  *)
Held(x, a, w) ==
  /\ IsPacket(x) => x.packet = a + 1 /\ a + 1 <= w
  /\ IsRequest(x) => a = w

(* The packets of s are those after a up to b, in order.                   *)
Carries(s, a, b, w) ==
  /\ a <= b /\ b <= w
  /\ \A i \in 1..Len(s) : IsPacket(s[i]) => a < s[i].packet /\ s[i].packet <= b
  /\ \A p \in (a + 1)..b : \E i \in 1..Len(s) : IsPacket(s[i]) /\ s[i].packet = p
  /\ \A i, j \in 1..Len(s) :
       i < j /\ IsPacket(s[j]) =>
         ~IsRequest(s[i]) /\ (IsPacket(s[i]) => s[i].packet < s[j].packet)
  /\ \A i \in 1..Len(s) : IsRequest(s[i]) => b = w

(* An empty sequence carries nothing.                                      *)
LEMMA EmptyCarries ==
  ASSUME NEW a \in Nat, NEW b \in Nat, NEW w \in Nat
  PROVE  Carries(<<>>, a, b, w) <=> a = b /\ b <= w
<1>1. Len(<<>>) = 0 /\ 1..0 = {}
  OBVIOUS
<1>2. ASSUME Carries(<<>>, a, b, w), a # b PROVE FALSE
  <2>1. a + 1 \in (a + 1)..b
    BY <1>2 DEF Carries
  <2> QED
    BY <1>1, <1>2, <2>1 DEF Carries
<1>3. ASSUME a = b, b <= w PROVE Carries(<<>>, a, b, w)
  BY <1>1, <1>3 DEF Carries
<1> QED
  BY <1>2, <1>3 DEF Carries

(* The next response is appended.                                          *)
LEMMA AppendCarries ==
  ASSUME NEW s \in Seq(Response), NEW x \in Response,
         NEW a \in Nat, NEW b \in Nat, NEW w \in Nat,
         Carries(s, a, b, w), Held(x, b, w)
  PROVE  Carries(Append(s, x), a, Past(x, b), w)
<1> DEFINE t == Append(s, x)  n == Len(s)
<1>1. /\ n \in Nat /\ Len(t) = n + 1 /\ t[n + 1] = x
      /\ \A i \in 1..n : t[i] = s[i]
  BY LenProperties, AppendProperties
<1>2. 1..(n + 1) = (1..n) \cup {n + 1}
  BY <1>1
<1> HIDE DEF t, n
<1>3. CASE IsPacket(x)
  <2>1. x.packet = b + 1 /\ b + 1 <= w /\ Past(x, b) = b + 1 /\ ~IsRequest(x)
    BY <1>3 DEF Held, Past, IsPacket, IsRequest
  <2>2. \A i \in 1..n : ~IsRequest(s[i])
    BY <2>1 DEF Carries, n
  <2>3. \A i \in 1..n : IsPacket(s[i]) => a < s[i].packet /\ s[i].packet <= b
    BY DEF Carries, n
  <2>4. \A i \in 1..Len(t) : ~IsRequest(t[i])
    BY <1>1, <1>2, <2>1, <2>2
  <2>5. \A i \in 1..n : IsPacket(s[i]) => s[i].packet \in Nat
    <3>1. \A i \in 1..n : s[i] \in Response
      BY ElementOfSeq DEF n
    <3> QED
      BY <3>1 DEF Response
  <2>6. \A i \in 1..Len(t) : IsPacket(t[i]) => a < t[i].packet /\ t[i].packet <= b + 1
    <3>1. a <= b
      BY DEF Carries
    <3>2. \A i \in 1..n : IsPacket(t[i]) => a < t[i].packet /\ t[i].packet <= b + 1
      BY <1>1, <2>3, <2>5
    <3> QED
      BY <1>1, <1>2, <2>1, <3>1, <3>2
  <2>7. \A p \in (a + 1)..(b + 1) : \E i \in 1..Len(t) : IsPacket(t[i]) /\ t[i].packet = p
    <3> TAKE p \in (a + 1)..(b + 1)
    <3>1. CASE p = b + 1
      BY <1>1, <1>3, <2>1, <3>1
    <3>2. CASE p # b + 1
      <4>1. p \in (a + 1)..b
        BY <3>2
      <4>2. PICK i \in 1..n : IsPacket(s[i]) /\ s[i].packet = p
        BY <4>1 DEF Carries, n
      <4> QED
        BY <1>1, <4>2
    <3> QED
      BY <3>1, <3>2
  <2>8. \A i, j \in 1..Len(t) :
          i < j /\ IsPacket(t[j]) /\ IsPacket(t[i]) => t[i].packet < t[j].packet
    <3> TAKE i, j \in 1..Len(t)
    <3> HAVE i < j /\ IsPacket(t[j]) /\ IsPacket(t[i])
    <3>1. i \in 1..n /\ t[i] = s[i]
      BY <1>1
    <3>2. CASE j = n + 1
      BY <1>1, <2>1, <2>3, <2>5, <3>1, <3>2
    <3>3. CASE j # n + 1
      <4>1. j \in 1..n /\ t[j] = s[j]
        BY <1>1, <3>3
      <4> QED
        BY <3>1, <4>1 DEF Carries, n
    <3> QED
      BY <3>2, <3>3
  <2>9. a <= b + 1
    BY DEF Carries
  <2> QED
    BY <2>1, <2>4, <2>6, <2>7, <2>8, <2>9 DEF Carries, t
<1>4. CASE ~IsPacket(x)
  <2>1. Past(x, b) = b /\ (IsRequest(x) => b = w)
    BY <1>4 DEF Held, Past
  <2>2. \A i \in 1..Len(t) : IsPacket(t[i]) => i \in 1..n /\ t[i] = s[i]
    BY <1>1, <1>2, <1>4
  <2>3. \A i \in 1..Len(t) : IsPacket(t[i]) => a < t[i].packet /\ t[i].packet <= b
    BY <2>2 DEF Carries, n
  <2>4. \A p \in (a + 1)..b : \E i \in 1..Len(t) : IsPacket(t[i]) /\ t[i].packet = p
    <3> TAKE p \in (a + 1)..b
    <3>1. PICK i \in 1..n : IsPacket(s[i]) /\ s[i].packet = p
      BY DEF Carries, n
    <3> QED
      BY <1>1, <3>1
  <2>5. \A i, j \in 1..Len(t) :
          i < j /\ IsPacket(t[j]) =>
            ~IsRequest(t[i]) /\ (IsPacket(t[i]) => t[i].packet < t[j].packet)
    <3> TAKE i, j \in 1..Len(t)
    <3> HAVE i < j /\ IsPacket(t[j])
    <3>1. j \in 1..n /\ t[j] = s[j]
      BY <2>2
    <3>2. i \in 1..n /\ t[i] = s[i]
      BY <1>1, <3>1
    <3> QED
      BY <3>1, <3>2 DEF Carries, n
  <2>6. \A i \in 1..Len(t) : IsRequest(t[i]) => b = w
    BY <1>1, <1>2, <2>1 DEF Carries, n
  <2> QED
    BY <2>1, <2>3, <2>4, <2>5, <2>6 DEF Carries, t
<1> QED
  BY <1>3, <1>4

(* What is left when the first item is taken.                              *)
LEMMA HeadAndTail ==
  ASSUME NEW S, NEW s \in Seq(S), s # <<>>
  PROVE  /\ Len(s) \in Nat /\ Len(s) > 0 /\ Head(s) = s[1]
         /\ Tail(s) \in Seq(S) /\ Len(Tail(s)) = Len(s) - 1
         /\ \A i \in 1..Len(Tail(s)) : Tail(s)[i] = s[i + 1]
  BY LenProperties, EmptySeq, HeadTailProperties

(* The first response is taken.                                            *)
LEMMA TailCarries ==
  ASSUME NEW s \in Seq(Response), s # <<>>,
         NEW a \in Nat, NEW b \in Nat, NEW w \in Nat,
         Carries(s, a, b, w)
  PROVE  Held(Head(s), a, w) /\ Carries(Tail(s), Past(Head(s), a), b, w)
<1> DEFINE t == Tail(s)  n == Len(s)  x == Head(s)
<1>1. n \in Nat /\ n > 0 /\ Len(t) = n - 1 /\ \A i \in 1..Len(t) : t[i] = s[i + 1]
  BY HeadAndTail
<1>2. x = s[1] /\ 1 \in 1..n
  BY <1>1, HeadAndTail
<1>3. \A i \in 1..n : s[i] \in Response
  BY ElementOfSeq
<1>4. \A i \in 1..n : s[i].packet \in Nat
  BY <1>3 DEF Response
<1>5. /\ a <= b /\ b <= w
      /\ \A i \in 1..n : IsPacket(s[i]) => a < s[i].packet /\ s[i].packet <= b
      /\ \A p \in (a + 1)..b : \E i \in 1..n : IsPacket(s[i]) /\ s[i].packet = p
      /\ \A i, j \in 1..n :
           i < j /\ IsPacket(s[j]) =>
             ~IsRequest(s[i]) /\ (IsPacket(s[i]) => s[i].packet < s[j].packet)
      /\ \A i \in 1..n : IsRequest(s[i]) => b = w
  BY DEF Carries
<1>6. \A i \in 1..Len(t) : i + 1 \in 1..n /\ t[i] = s[i + 1]
  BY <1>1
<1> HIDE DEF t, n, x
<1>7. Held(x, a, w)
  <2>1. IsPacket(x) => x.packet = a + 1 /\ a + 1 <= w
    <3> SUFFICES ASSUME IsPacket(x)
                 PROVE  x.packet = a + 1 /\ a + 1 <= w
      OBVIOUS
    <3>1. a < s[1].packet /\ s[1].packet <= b
      BY <1>2, <1>5
    <3>2. a + 1 \in (a + 1)..b
      BY <1>2, <1>4, <3>1
    <3>3. PICK i \in 1..n : IsPacket(s[i]) /\ s[i].packet = a + 1
      BY <1>5, <3>2
    <3>4. i = 1
      BY <1>1, <1>2, <1>4, <1>5, <3>1, <3>3
    <3> QED
      BY <1>2, <1>5, <3>1, <3>3, <3>4
  <2>2. IsRequest(x) => a = w
    <3> SUFFICES ASSUME IsRequest(x), a # w
                 PROVE  FALSE
      OBVIOUS
    <3>1. b = w /\ a + 1 \in (a + 1)..b
      BY <1>2, <1>5
    <3>2. PICK i \in 1..n : IsPacket(s[i]) /\ s[i].packet = a + 1
      BY <1>5, <3>1
    <3>3. i # 1
      BY <1>2, <3>2 DEF IsPacket, IsRequest
    <3> QED
      BY <1>1, <1>2, <1>5, <3>2, <3>3
  <2> QED
    BY <2>1, <2>2 DEF Held
<1>8. Carries(t, Past(x, a), b, w)
  <2> DEFINE c == Past(x, a)
  <2>1. c \in Nat /\ c <= b /\ (IsPacket(x) => x.packet = c)
    BY <1>2, <1>4, <1>5, <1>7 DEF Past, Held
  <2>2. \A i \in 1..Len(t) : IsPacket(t[i]) => c < t[i].packet /\ t[i].packet <= b
    <3> TAKE i \in 1..Len(t)
    <3> HAVE IsPacket(t[i])
    <3>1. 1 < i + 1
      BY <1>1
    <3>2. CASE IsPacket(x)
      BY <1>2, <1>5, <1>6, <2>1, <3>1, <3>2
    <3>3. CASE ~IsPacket(x)
      BY <1>5, <1>6, <3>3 DEF Past
    <3> QED
      BY <3>2, <3>3
  <2>3. \A p \in (c + 1)..b : \E i \in 1..Len(t) : IsPacket(t[i]) /\ t[i].packet = p
    <3> TAKE p \in (c + 1)..b
    <3>1. p \in (a + 1)..b
      BY <2>1 DEF Past
    <3>2. PICK i \in 1..n : IsPacket(s[i]) /\ s[i].packet = p
      BY <1>5, <3>1
    <3>3. i # 1
      BY <1>2, <2>1, <3>2
    <3>4. i - 1 \in 1..Len(t) /\ i - 1 + 1 = i
      BY <1>1, <3>3
    <3>5. t[i - 1] = s[i]
      BY <1>6, <3>4
    <3> QED
      BY <3>2, <3>4, <3>5
  <2>4. \A i, j \in 1..Len(t) :
          i < j /\ IsPacket(t[j]) =>
            ~IsRequest(t[i]) /\ (IsPacket(t[i]) => t[i].packet < t[j].packet)
    <3> TAKE i, j \in 1..Len(t)
    <3> HAVE i < j /\ IsPacket(t[j])
    <3>1. i + 1 < j + 1
      BY <1>1
    <3> QED
      BY <1>5, <1>6, <3>1
  <2>5. \A i \in 1..Len(t) : IsRequest(t[i]) => b = w
    BY <1>5, <1>6
  <2> QED
    BY <1>5, <2>1, <2>2, <2>3, <2>4, <2>5 DEF Carries
<1> QED
  BY <1>7, <1>8 DEF t, x

(* Before the request there may always be more to come.                    *)
LEMMA MoreCarries ==
  ASSUME NEW s, NEW a \in Nat, NEW b \in Nat, NEW w \in Nat, Carries(s, a, b, w),
         \A i \in 1..Len(s) : ~IsRequest(s[i])
  PROVE  Carries(s, a, b, w + 1)
  BY DEF Carries

-----------------------------------------------------------------------------
(* The order of the packets in the receiver.                               *)

(* The last packet that has reached the receive channel.                   *)
Received == Len(delivered) + Len(receive.q)

(* Responses may have been lost on the way to the response reader.         *)
Lossy == tryCancelled \/ rpc = "UNAVAILABLE"

(* The stages join: u is the last packet that has reached the response     *)
(* channel, w the last that can still be received.                         *)
Flow(u, w) ==
  /\ Held(transferrerResponse, Received, w)
  /\ Carries(response.q, Past(transferrerResponse, Received), u, w)
  /\ responder # "done" =>
       Held(responderResponse, u, w) /\ Carries(inbound, Past(responderResponse, u), w, w)
  /\ responder = "done" /\ ~Lossy => u = w
  /\ w <= sent
  /\ ~Lossy => w = sent
  /\ receive.closed /\ transferrer # "done" => Received = w

(* The transferrer has not begun to cancel, which discards responses.      *)
Flowing ==
  \/ transferrer \in {"loop", "poll", "handle", "await_end", "await_cancel"}
  \/ transferrer \in {"join", "done"} /\ ~tryCancelled

Order ==
  /\ CountsFrom(delivered, 0)
  /\ CountsFrom(receive.q, Len(delivered))
  /\ Received <= sent
  /\ Flowing => \E u, w \in Nat : Flow(u, w)

(* Who holds a response, and what has happened by the time a thread ends.  *)
ThreadSide ==
  /\ tryCancelled => rpc # "open"
  /\ transferrer # "handle" => transferrerResponse = NoResponse
  /\ responder # "write" => responderResponse = NoResponse
  /\ responder = "done" => tryCancelled \/ transferrer = "cancel_rpc" \/ rpc # "open"
  /\ responderCancelled \/ response.cancelled \/ (readTerminated /\ responder # "done") =>
       tryCancelled \/ transferrer = "cancel_rpc"
  /\ transferrer \in {"await_end", "await_cancel"} => receive.closed
  /\ readChannelClosed => responder = "done" /\ response.q = <<>>
  /\ transferrer \in {"join", "done"} => readChannelClosed \/ tryCancelled
  /\ endSeen => receive.closed /\ receive.q = <<>>

(* A writes done request is somewhere only if the server has sent it.      *)
RequestSide ==
  /\ receive.closed => writesDoneRequested \/ transferrer = "done"
  /\ IsRequest(transferrerResponse) \/ IsRequest(responderResponse) => writesDoneRequested
  /\ \A i \in 1..Len(response.q) : IsRequest(response.q[i]) => writesDoneRequested
  /\ \A i \in 1..Len(inbound) : IsRequest(inbound[i]) => writesDoneRequested

OrderInv == EndInv /\ ThreadSide /\ RequestSide /\ Order

(* At the start nothing is under way.                                      *)
LEMMA OrderInit == Init => OrderInv
<1> SUFFICES ASSUME Init
             PROVE  OrderInv
  OBVIOUS
<1>1. EndInv
  BY EndInit
<1>2. /\ delivered = <<>> /\ receive.q = <<>> /\ ~receive.closed /\ response.q = <<>>
      /\ ~response.cancelled /\ inbound = <<>> /\ Len(<<>>) = 0
  BY DEF Init, NewChannel
<1>3. ~IsPacket(NoResponse) /\ ~IsRequest(NoResponse)
  BY DEF NoResponse, IsPacket, IsRequest
<1>4. ThreadSide /\ RequestSide
  BY <1>2, <1>3 DEF Init, ThreadSide, RequestSide
<1>5. Received = 0 /\ Past(NoResponse, 0) = 0 /\ Held(NoResponse, 0, 0)
  BY <1>2, <1>3 DEF Received, Past, Held
<1>6. Carries(<<>>, 0, 0, 0)
  BY EmptyCarries
<1>7. Flow(0, 0)
  BY <1>2, <1>5, <1>6 DEF Init, Flow
<1>8. CountsFrom(<<>>, 0) /\ Len(delivered) = 0
  BY <1>2 DEF CountsFrom
<1>9. Received <= sent
  BY <1>5 DEF Init
<1> QED
  BY <1>1, <1>2, <1>4, <1>7, <1>8, <1>9 DEF OrderInv, Order

(* The types of what carries packets.                                      *)
LEMMA StageTypes ==
  ASSUME TypeOK
  PROVE  /\ receive \in ChannelOf(Nat) /\ response \in ChannelOf(Response)
         /\ receive.q \in Seq(Nat) /\ response.q \in Seq(Response) /\ inbound \in Seq(Response)
         /\ delivered \in Seq(Nat) /\ Len(delivered) \in Nat /\ Len(receive.q) \in Nat
         /\ Received \in Nat /\ sent \in Nat
         /\ transferrerResponse \in Response /\ responderResponse \in Response
         /\ \A x \in Response : \A a \in Nat : Past(x, a) \in Nat
         /\ ~IsPacket(NoResponse) /\ ~IsRequest(NoResponse)
         /\ \A a, w : Past(NoResponse, a) = a /\ Held(NoResponse, a, w)
<1>1. /\ receive.q \in Seq(Nat) /\ response.q \in Seq(Response)
      /\ Len(delivered) \in Nat /\ Len(receive.q) \in Nat
  BY LenProperties DEF TypeOK, ChannelOf
<1>2. ~IsPacket(NoResponse) /\ ~IsRequest(NoResponse)
  BY DEF NoResponse, IsPacket, IsRequest
<1> QED
  BY <1>1, <1>2 DEF TypeOK, Received, Past, Held

(* A step that moves no response.                                          *)
LEMMA FlowStays ==
  ASSUME UNCHANGED <<transferrerResponse, responder, responderResponse, inbound, sent>>,
         Received' = Received, response'.q = response.q, receive'.closed = receive.closed,
         Lossy => Lossy', transferrer = "done" => transferrer' = "done",
         NEW u, NEW w, Flow(u, w)
  PROVE  Flow(u, w)'
  BY DEF Flow

(* The user's calls move packets from the receive channel to the program.  *)
LEMMA UserKeepsOrder ==
  ASSUME OrderInv, UserActs \/ UserReturns
  PROVE  ThreadSide' /\ RequestSide' /\ Order'
<1> USE DEF OrderInv, EndInv
<1>1. UNCHANGED <<transferrer, transferrerResponse, readChannelClosed, responder,
                  responderResponse, responderCancelled, response, readTerminated, rpc,
                  tryCancelled, inbound, sent, writesDoneRequested>>
  BY DEF UserActs, UserReturns, transferrerVars, responderVars, clientVars, rpcVars, serverVars
<1>2. receive'.closed = receive.closed
  <2>1. receive' \in {receive, Pop(receive), CancelWriters(receive)}
    BY DEF UserActs, BeginReceive, UserTimesOut, BeginCommit, CommitsDone, BeginFinish,
           BeginCancel, UserReturns, ReceiveGetsPacket, ReceiveEnds, CommitReturns,
           FinishReturns, CancelMainTask, CancelReturns
  <2> QED
    BY <2>1, StageTypes, ChannelFields
<1>3. \/ ReceiveGetsPacket
      \/ UNCHANGED delivered /\ receive'.q = receive.q
         /\ (endSeen' => endSeen \/ PopsEnd(receive))
  <2>1. CancelWriters(receive).q = receive.q
    BY StageTypes, ChannelFields
  <2> QED
    BY <2>1
    DEF UserActs, BeginReceive, UserTimesOut, BeginCommit, CommitsDone, BeginFinish,
        BeginCancel, UserReturns, ReceiveEnds, CommitReturns, FinishReturns, CancelMainTask,
        CancelReturns, userHistory
<1>4. CASE ReceiveGetsPacket
  <2>1. /\ delivered' = Append(delivered, Head(receive.q)) /\ receive'.q = Tail(receive.q)
        /\ receive.q # <<>> /\ endSeen' = endSeen
    BY <1>4, StageTypes, ChannelFields DEF ReceiveGetsPacket, PopsItem, Front
  <2>2. /\ Head(receive.q) = Len(delivered) + 1
        /\ CountsFrom(receive'.q, Len(delivered) + 1)
        /\ Len(receive'.q) = Len(receive.q) - 1
    BY <2>1, StageTypes, TailCounts DEF Order
  <2>3. CountsFrom(delivered', 0) /\ Len(delivered') = Len(delivered) + 1
    <3>1. Head(receive.q) = 0 + Len(delivered) + 1
      BY <2>2, StageTypes
    <3> QED
      BY <2>1, <3>1, StageTypes, AppendCounts DEF Order
  <2>4. Received' = Received
    <3>1. \A m, n \in Nat : (m + 1) + (n - 1) = m + n
      OBVIOUS
    <3>2. (Len(delivered) + 1) + (Len(receive.q) - 1) = Len(delivered) + Len(receive.q)
      BY <3>1, StageTypes
    <3> QED
      BY <2>2, <2>3, <3>2 DEF Received
  <2>5. Flowing => \E u, w \in Nat : Flow(u, w)'
    BY <1>1, <1>2, <2>4, FlowStays DEF Order, Lossy
  <2>6. Order'
    BY <1>1, <2>2, <2>3, <2>4, <2>5 DEF Order, Flowing
  <2> QED
    BY <1>1, <1>2, <2>1, <2>6 DEF ThreadSide, RequestSide
<1>5. CASE UNCHANGED delivered /\ receive'.q = receive.q
           /\ (endSeen' => endSeen \/ PopsEnd(receive))
  <2>1. Received' = Received
    BY <1>5 DEF Received
  <2>2. Flowing => \E u, w \in Nat : Flow(u, w)'
    BY <1>1, <1>2, <2>1, FlowStays DEF Order, Lossy
  <2>3. Order'
    BY <1>1, <1>5, <2>1, <2>2 DEF Order, Flowing
  <2> QED
    BY <1>1, <1>2, <1>5, <2>3 DEF ThreadSide, RequestSide, PopsEnd
<1> QED
  BY <1>3, <1>4, <1>5

(* MainTask and the committer move no packet; the committer may cancel the *)
(* RPC.                                                                    *)
LEMMA OthersKeepOrder ==
  ASSUME OrderInv, MainStep \/ CommitterStep
  PROVE  ThreadSide' /\ RequestSide' /\ Order'
<1> USE DEF OrderInv, EndInv
<1>1. UNCHANGED <<delivered, endSeen, receive, transferrer, transferrerResponse,
                  readChannelClosed, responder, responderResponse, responderCancelled,
                  response, inbound, sent, writesDoneRequested>>
  BY DEF MainStep, CommitterStep, userVars, userHistory, transferrerVars, responderVars,
         cancelVars, serverVars
<1>2. \/ UNCHANGED <<rpc, tryCancelled, readTerminated>>
      \/ tryCancelled' /\ rpc' # "open" /\ (rpc # "open" => rpc' = rpc)
  BY DEF MainStep, CommitterStep, CommitterLoops, CommitterReads, CommitterWrites,
         CommitterWritesDone, CommitterCancelsRpc, CommitterReturns, ClientCancel, clientVars,
         rpcVars
<1>3. ThreadSide'
  BY <1>1, <1>2 DEF ThreadSide
<1>4. RequestSide'
  BY <1>1 DEF RequestSide
<1>5. (Lossy => Lossy') /\ (Flowing' => Flowing) /\ Received' = Received
  BY <1>1, <1>2 DEF Lossy, Flowing, Received
<1>6. Flowing => \E u, w \in Nat : Flow(u, w)'
  BY <1>1, <1>5, FlowStays DEF Order
<1>7. Order'
  BY <1>1, <1>5, <1>6 DEF Order
<1> QED
  BY <1>3, <1>4, <1>7

(* The transferrer takes a response: the next one of the response channel. *)
LEMMA TransferrerTakes ==
  ASSUME TypeOK, NEW u \in Nat, NEW w \in Nat, Flow(u, w),
         transferrerResponse = NoResponse, response.q # <<>>
  PROVE  /\ Held(Head(response.q), Received, w)
         /\ Carries(Tail(response.q), Past(Head(response.q), Received), u, w)
<1>1. Carries(response.q, Received, u, w)
  BY StageTypes DEF Flow
<1> QED
  BY <1>1, StageTypes, TailCarries

(* A dropped response is never a packet, unless the receiver is closing.   *)
LEMMA TransferrerKeepsOrder ==
  ASSUME OrderInv, TransferrerStep \/ MissHeartbeat
  PROVE  ThreadSide' /\ RequestSide' /\ Order'
<1> USE DEF OrderInv, EndInv
<1>1. UNCHANGED <<delivered, endSeen, responder, responderResponse, inbound, sent,
                  writesDoneRequested>>
  BY DEF TransferrerStep, MissHeartbeat, TransferrerFrame, userVars, userHistory,
         responderVars, serverVars
<1>2. transferrer # "done" /\ rpcOpen
  BY DEF TransferrerStep, MissHeartbeat, TransferrerMissesHeartbeat, TransferrerLoops,
         TransferrerPolls, TransferrerHandles, TransferrerAwaitsEnd, TransferrerCancels,
         TransferrerReturns, MainSide
<1>3. CASE MissHeartbeat \/ TransferrerLoops
  <2>1. /\ UNCHANGED <<transferrerResponse, readChannelClosed, responderCancelled, receive,
                       response, readTerminated, rpc, tryCancelled>>
        /\ transferrer \in {"loop", "poll"}
        /\ transferrer' \in {"poll", "join", "cancel_responder"}
        /\ transferrer' = "join" => readChannelClosed
    BY <1>3
    DEF MissHeartbeat, TransferrerMissesHeartbeat, TransferrerLoops, clientVars, rpcVars
  <2>2. Received' = Received /\ (Lossy => Lossy') /\ Flowing
    BY <1>1, <2>1 DEF Received, Lossy, Flowing
  <2>3. Order'
    BY <1>1, <1>2, <2>1, <2>2, FlowStays DEF Order
  <2> QED
    BY <1>1, <1>2, <2>1, <2>3 DEF ThreadSide, RequestSide
<1>4. CASE \/ TransferrerPolls /\ ~PopsItem(response)
           \/ TransferrerAwaitsEnd /\ (transferrer = "await_cancel" \/ ~PopsItem(response))
  <2>1. /\ UNCHANGED <<transferrerResponse, responderCancelled, receive, response,
                       readTerminated, rpc, tryCancelled>>
        /\ transferrer \in {"poll", "await_end", "await_cancel"}
        /\ transferrer' \in {"loop", "await_end", "await_cancel", "join"}
        /\ transferrer' \in {"await_end", "await_cancel"} =>
             transferrer \in {"await_end", "await_cancel"}
        /\ transferrer' = "join" => readChannelClosed'
        /\ readChannelClosed' => readChannelClosed \/ PopsEnd(response)
    BY <1>4 DEF TransferrerPolls, TransferrerAwaitsEnd, HasItemOrClosed, PopsItem, PopsEnd,
                clientVars, rpcVars
  <2>2. Received' = Received /\ (Lossy => Lossy') /\ Flowing
    BY <1>1, <2>1 DEF Received, Lossy, Flowing
  <2>3. Order'
    BY <1>1, <1>2, <2>1, <2>2, FlowStays DEF Order
  <2>4. readChannelClosed' => responder = "done" /\ response.q = <<>>
    BY <2>1 DEF ThreadSide, ReadSide, PopsEnd
  <2>5. ThreadSide'
    BY <1>1, <2>1, <2>4 DEF ThreadSide
  <2> QED
    BY <1>1, <1>2, <2>1, <2>3, <2>5 DEF RequestSide
<1>5. CASE \/ TransferrerPolls /\ PopsItem(response)
           \/ TransferrerAwaitsEnd /\ PopsItem(response) /\ transferrer = "await_end"
  <2>1. /\ response.q # <<>> /\ response' = Pop(response)
        /\ UNCHANGED <<readChannelClosed, responderCancelled, receive, readTerminated, rpc,
                       tryCancelled>>
        /\ \/ /\ transferrer = "poll" /\ transferrer' = "handle"
              /\ transferrerResponse' = Head(response.q)
           \/ /\ transferrer = "await_end" /\ transferrer' = "loop"
              /\ UNCHANGED transferrerResponse
    BY <1>5 DEF TransferrerPolls, TransferrerAwaitsEnd, HasItemOrClosed, PopsItem, PopsEnd,
                Front, clientVars, rpcVars
  <2>2. response'.q = Tail(response.q) /\ response'.cancelled = response.cancelled
    BY <2>1, StageTypes, ChannelFields
  <2>3. transferrerResponse = NoResponse /\ Flowing /\ Received' = Received
    BY <1>1, <2>1 DEF ThreadSide, Flowing, Received
  <2>4. PICK u, w \in Nat : Flow(u, w)
    BY <2>3 DEF Order
  <2>5. /\ Held(Head(response.q), Received, w)
        /\ Carries(Tail(response.q), Past(Head(response.q), Received), u, w)
    BY <2>1, <2>3, <2>4, TransferrerTakes
  <2>6. Held(transferrerResponse', Received, w)
        /\ Carries(response'.q, Past(transferrerResponse', Received), u, w)
    <3>1. CASE transferrer = "poll"
      BY <2>1, <2>2, <2>5, <3>1
    <3>2. CASE transferrer = "await_end"
      <4>1. Received = w
        BY <2>4, <3>2 DEF ThreadSide, Flow
      <4>2. Past(Head(response.q), Received) = Received
        BY <2>4, <2>5, <4>1 DEF Held, Past
      <4> QED
        BY <2>1, <2>2, <2>3, <2>5, <3>2, <4>2, StageTypes
    <3> QED
      BY <2>1, <3>1, <3>2
  <2>7. Flow(u, w)'
    BY <1>1, <1>2, <2>1, <2>3, <2>4, <2>6 DEF Flow, Lossy
  <2>8. Order'
    BY <1>1, <2>1, <2>3, <2>7 DEF Order
  <2>9. ThreadSide'
    BY <1>1, <2>1, <2>2, <2>3 DEF ThreadSide
  <2>10. RequestSide'
    <3>1. /\ Len(response.q) \in Nat /\ Len(response.q) > 0 /\ Head(response.q) = response.q[1]
          /\ Len(Tail(response.q)) = Len(response.q) - 1
          /\ \A i \in 1..Len(Tail(response.q)) : Tail(response.q)[i] = response.q[i + 1]
      BY <2>1, StageTypes, HeadAndTail
    <3>2. \A i \in 1..Len(Tail(response.q)) :
            IsRequest(Tail(response.q)[i]) => writesDoneRequested
      BY <3>1 DEF RequestSide
    <3>3. IsRequest(Head(response.q)) => writesDoneRequested
      BY <3>1 DEF RequestSide
    <3> QED
      BY <1>1, <1>2, <2>1, <2>2, <3>2, <3>3 DEF RequestSide
  <2> QED
    BY <2>8, <2>9, <2>10
<1>6. CASE TransferrerHandles
  <2>1. /\ transferrer = "handle" /\ Flowing /\ transferrerResponse' = NoResponse
        /\ UNCHANGED <<readChannelClosed, responderCancelled, response, readTerminated, rpc,
                       tryCancelled>>
        /\ transferrer' \in {"loop", "cancel_responder", "await_end"}
    BY <1>6 DEF TransferrerHandles, Flowing, clientVars, rpcVars
  <2>2. PICK u, w \in Nat : Flow(u, w)
    BY <2>1 DEF Order
  <2>3. CASE transferrer' = "cancel_responder"
    <3>1. UNCHANGED receive
      BY <1>6, <2>3 DEF TransferrerHandles
    <3>2. ~Flowing' /\ Received' = Received
      BY <1>1, <2>3, <3>1 DEF Flowing, Received
    <3> QED
      BY <1>1, <1>2, <2>1, <2>3, <3>1, <3>2, StageTypes DEF Order, ThreadSide, RequestSide
  <2>4. CASE transferrerResponse.kind = "packet" /\ transferrer' # "cancel_responder"
    <3>1. receive' = Emplace(receive, transferrerResponse.packet) /\ transferrer' = "loop"
      BY <1>6, <2>4 DEF TransferrerHandles
    <3>2. transferrerResponse.packet = Received + 1 /\ Received + 1 <= w
      BY <2>2, <2>4 DEF Flow, Held, IsPacket
    <3>3. receive'.q = Append(receive.q, Received + 1) /\ receive'.closed = receive.closed
      <4>1. receive \in ChannelOf(Nat) /\ Received \in Nat
        BY StageTypes
      <4>2. Received + 1 \in Nat
        BY <4>1
      <4> QED
        BY <3>1, <3>2, <4>1, <4>2, EmplaceFields
    <3>4. ~receive.closed /\ ~endSeen
      <4>1. Received # w
        BY <3>2, StageTypes
      <4> QED
        BY <1>2, <2>2, <4>1 DEF Flow, ThreadSide
    <3>5. CountsFrom(receive'.q, Len(delivered)) /\ Len(receive'.q) = Len(receive.q) + 1
      BY <3>3, StageTypes, AppendCounts DEF Order, Received
    <3>6. Received' = Received + 1
      BY <1>1, <3>5, StageTypes DEF Received
    <3>7. Carries(response.q, Received + 1, u, w)
      BY <2>2, <2>4 DEF Flow, Past, IsPacket
    <3>8. Held(NoResponse, Received + 1, w) /\ Past(NoResponse, Received + 1) = Received + 1
      BY StageTypes
    <3>9. Flow(u, w)'
      BY <1>1, <1>2, <2>1, <2>2, <3>3, <3>4, <3>6, <3>7, <3>8 DEF Flow, Lossy
    <3>10. Received' <= sent'
      BY <1>1, <2>2, <3>2, <3>6, StageTypes DEF Flow
    <3>11. Order'
      BY <1>1, <3>5, <3>9, <3>10 DEF Order
    <3> QED
      BY <1>1, <1>2, <2>1, <3>1, <3>3, <3>4, <3>11, StageTypes DEF ThreadSide, RequestSide
  <2>5. CASE transferrerResponse.kind = "heartbeat"
    <3>1. UNCHANGED receive /\ transferrer' = "loop"
      BY <1>6, <2>5 DEF TransferrerHandles
    <3>2. Received' = Received
      BY <1>1, <3>1 DEF Received
    <3>3. Carries(response.q, Past(NoResponse, Received), u, w)
      BY <2>2, <2>5, StageTypes DEF Flow, Past, IsPacket
    <3>4. Flow(u, w)'
      BY <1>1, <1>2, <2>1, <2>2, <3>1, <3>2, <3>3, StageTypes DEF Flow, Lossy
    <3>5. Order'
      BY <1>1, <3>1, <3>2, <3>4 DEF Order
    <3> QED
      BY <1>1, <1>2, <2>1, <3>1, <3>5, StageTypes DEF ThreadSide, RequestSide
  <2>6. CASE transferrerResponse.kind = "writes_done_request"
    <3>1. receive' = CloseWrites(receive) /\ transferrer' = "await_end"
      BY <1>6, <2>6 DEF TransferrerHandles
    <3>2. receive'.q = receive.q /\ receive'.closed
      BY <3>1, StageTypes, ChannelFields
    <3>3. Received' = Received
      BY <1>1, <3>2 DEF Received
    <3>4. Received = w
      BY <2>2, <2>6 DEF Flow, Held, IsRequest
    <3>5. Carries(response.q, Past(NoResponse, Received), u, w)
      BY <2>2, <2>6, StageTypes DEF Flow, Past, IsPacket
    <3>6. Flow(u, w)'
      BY <1>1, <2>1, <2>2, <3>3, <3>4, <3>5, StageTypes DEF Flow, Lossy
    <3>7. Order'
      BY <1>1, <3>2, <3>3, <3>6 DEF Order
    <3>8. writesDoneRequested
      BY <2>6 DEF RequestSide, IsRequest
    <3> QED
      BY <1>1, <2>1, <3>1, <3>2, <3>7, <3>8, StageTypes DEF ThreadSide, RequestSide
  <2> QED
    BY <1>6, <2>3, <2>4, <2>5, <2>6 DEF TransferrerHandles
<1>7. CASE TransferrerCancels
  <2>1. /\ UNCHANGED <<transferrerResponse, readChannelClosed, receive>>
        /\ transferrer \in {"cancel_responder", "cancel_rpc"}
    BY <1>7 DEF TransferrerCancels
  <2>2. ~Flowing' /\ response'.q = response.q /\ Received' = Received
    <3>1. CancelWriters(response).q = response.q
      BY StageTypes, ChannelFields
    <3> QED
      BY <1>1, <1>2, <1>7, <2>1, <3>1 DEF TransferrerCancels, ClientCancel, Flowing, Received
  <2>3. Order'
    BY <1>1, <2>1, <2>2 DEF Order
  <2>4. RequestSide'
    BY <1>1, <1>2, <2>1, <2>2 DEF RequestSide
  <2>5. CASE transferrer = "cancel_responder"
    <3>1. transferrer' = "cancel_rpc" /\ UNCHANGED <<readTerminated, rpc, tryCancelled>>
      BY <1>7, <2>5 DEF TransferrerCancels, clientVars, rpcVars
    <3> QED
      BY <1>1, <2>1, <2>2, <2>3, <2>4, <2>5, <3>1 DEF ThreadSide
  <2>6. CASE transferrer = "cancel_rpc"
    <3>1. transferrer' = "join" /\ tryCancelled' /\ rpc' # "open"
      BY <1>2, <1>7, <2>6 DEF TransferrerCancels, ClientCancel
    <3> QED
      BY <1>1, <2>1, <2>2, <2>3, <2>4, <2>6, <3>1 DEF ThreadSide
  <2> QED
    BY <2>1, <2>5, <2>6
<1>8. CASE TransferrerReturns
  <2>1. /\ transferrer = "join" /\ transferrer' = "done" /\ receive' = CloseWrites(receive)
        /\ UNCHANGED <<transferrerResponse, readChannelClosed, responderCancelled, response,
                       readTerminated, rpc, tryCancelled>>
    BY <1>8 DEF TransferrerReturns, clientVars, rpcVars
  <2>2. receive'.q = receive.q /\ receive'.closed
    BY <2>1, StageTypes, ChannelFields
  <2>3. Received' = Received /\ (Flowing' => Flowing)
    BY <1>1, <2>1, <2>2 DEF Received, Flowing
  <2>4. ASSUME NEW u, NEW w, Flow(u, w) PROVE Flow(u, w)'
    BY <1>1, <2>1, <2>3, <2>4 DEF Flow, Lossy
  <2>5. Order'
    BY <1>1, <2>2, <2>3, <2>4 DEF Order
  <2> QED
    BY <1>1, <2>1, <2>2, <2>5 DEF ThreadSide, RequestSide
<1>9. TransferrerAwaitsEnd => transferrer \in {"await_end", "await_cancel"}
  BY DEF TransferrerAwaitsEnd
<1> QED
  BY <1>3, <1>4, <1>5, <1>6, <1>7, <1>8, <1>9 DEF TransferrerStep

(* The reader moves one response on, and drops one only when cancelled.    *)
LEMMA ResponderKeepsOrder ==
  ASSUME OrderInv, ResponderStep
  PROVE  ThreadSide' /\ RequestSide' /\ Order'
<1> USE DEF OrderInv, EndInv
<1>1. UNCHANGED <<delivered, endSeen, receive, transferrer, transferrerResponse,
                  readChannelClosed, responderCancelled, rpc, tryCancelled, sent,
                  writesDoneRequested>>
  BY DEF ResponderStep, userVars, userHistory, transferrerVars, cancelVars, rpcVars
<1>2. responder # "done"
  BY DEF ResponderStep, ResponderLoops, ResponderReads, ResponderWrites
<1>3. Received' = Received /\ (Flowing' <=> Flowing) /\ (Lossy' <=> Lossy)
  BY <1>1 DEF Received, Flowing, Lossy
<1>4. CASE responder' = "done"
  <2>1. /\ response' = CloseWrites(response) /\ responderResponse' = NoResponse
        /\ inbound' = inbound
        /\ responderCancelled \/ response.cancelled \/ readTerminated \/ tryCancelled
           \/ (responder = "stream_read" /\ rpc # "open" /\ inbound = <<>>)
    BY <1>2, <1>4
    DEF ResponderStep, ResponderLoops, ResponderReads, ResponderWrites, ResponderReturns,
        EmplaceRefused, ThreadSide
  <2>2. response'.q = response.q /\ response'.cancelled = response.cancelled
    BY <2>1, StageTypes, ChannelFields
  <2>3. \/ tryCancelled \/ transferrer = "cancel_rpc"
        \/ (responderResponse = NoResponse /\ rpc # "open" /\ inbound = <<>>)
    BY <1>2, <2>1 DEF ThreadSide
  <2>4. ASSUME NEW u \in Nat, NEW w \in Nat, Flow(u, w), Flowing
        PROVE  Flow(u, w)'
    <3>1. ~Lossy => u = w
      <4>1. ASSUME ~Lossy PROVE Carries(<<>>, u, w, w)
        BY <1>2, <2>3, <2>4, <4>1, StageTypes DEF Flow, Lossy, Flowing
      <4> QED
        BY <4>1, EmptyCarries
    <3> QED
      BY <1>1, <1>3, <1>4, <2>2, <2>4, <3>1 DEF Flow
  <2>5. Order'
    BY <1>1, <1>3, <2>4 DEF Order
  <2> QED
    BY <1>1, <1>2, <1>4, <2>1, <2>2, <2>3, <2>5, StageTypes DEF ThreadSide, RequestSide
<1>5. CASE responder' = "stream_read"
  <2>1. UNCHANGED <<responderResponse, response, inbound, readTerminated>>
    BY <1>5 DEF ResponderStep, ResponderLoops, ResponderReads, ResponderWrites,
                ResponderReturns
  <2>2. responder = "loop"
    BY <1>5 DEF ResponderStep, ResponderLoops, ResponderReads, ResponderWrites,
                ResponderReturns
  <2>3. ASSUME NEW u, NEW w, Flow(u, w) PROVE Flow(u, w)'
    BY <1>1, <1>2, <1>3, <1>5, <2>1, <2>3 DEF Flow
  <2>4. Order'
    BY <1>1, <1>3, <2>3 DEF Order
  <2> QED
    BY <1>1, <1>2, <1>5, <2>1, <2>2, <2>4 DEF ThreadSide, RequestSide
<1>6. CASE responder' = "write"
  <2>1. /\ responder = "stream_read" /\ inbound # <<>>
        /\ responderResponse' = Head(inbound) /\ inbound' = Tail(inbound)
        /\ UNCHANGED <<response, readTerminated>>
    BY <1>6 DEF ResponderStep, ResponderLoops, ResponderReads, ResponderWrites,
                ResponderReturns
  <2>2. ASSUME NEW u \in Nat, NEW w \in Nat, Flow(u, w)
        PROVE  Flow(u, w)'
    <3>1. Carries(inbound, u, w, w)
      BY <1>2, <2>1, <2>2, StageTypes DEF Flow, ThreadSide
    <3>2. Held(Head(inbound), u, w) /\ Carries(Tail(inbound), Past(Head(inbound), u), w, w)
      BY <2>1, <3>1, StageTypes, TailCarries
    <3> QED
      BY <1>1, <1>2, <1>3, <1>6, <2>1, <2>2, <3>2 DEF Flow
  <2>3. Order'
    BY <1>1, <1>3, <2>2 DEF Order
  <2>4. /\ Len(inbound) > 0 /\ Len(inbound) \in Nat /\ Head(inbound) = inbound[1]
        /\ Len(Tail(inbound)) = Len(inbound) - 1
        /\ \A i \in 1..Len(Tail(inbound)) : Tail(inbound)[i] = inbound[i + 1]
    BY <2>1, StageTypes, HeadAndTail
  <2>5. /\ IsRequest(Head(inbound)) => writesDoneRequested
        /\ \A i \in 1..Len(Tail(inbound)) : IsRequest(Tail(inbound)[i]) => writesDoneRequested
    BY <2>4 DEF RequestSide
  <2>6. RequestSide'
    BY <1>1, <2>1, <2>5 DEF RequestSide
  <2>7. ThreadSide'
    BY <1>1, <1>2, <1>6, <2>1 DEF ThreadSide
  <2> QED
    BY <2>3, <2>6, <2>7
<1>7. CASE responder' = "loop"
  <2>1. /\ responder = "write" /\ responderResponse' = NoResponse
        /\ response' = Emplace(response, responderResponse)
        /\ UNCHANGED <<readTerminated, inbound>>
    BY <1>7 DEF ResponderStep, ResponderLoops, ResponderReads, ResponderWrites,
                ResponderReturns
  <2>2. /\ response'.q = Append(response.q, responderResponse)
        /\ response'.cancelled = response.cancelled
    BY <2>1, StageTypes, EmplaceFields
  <2>3. ASSUME NEW u \in Nat, NEW w \in Nat, Flow(u, w)
        PROVE  \E v \in Nat : Flow(v, w)'
    <3>1. PICK v \in Nat : v = Past(responderResponse, u)
      BY StageTypes
    <3>2. Held(responderResponse, u, w) /\ Carries(inbound, v, w, w)
      BY <1>2, <2>3, <3>1 DEF Flow
    <3>3. Carries(response'.q, Past(transferrerResponse, Received), v, w)
      <4>1. Carries(response.q, Past(transferrerResponse, Received), u, w)
        BY <2>3 DEF Flow
      <4>2. /\ Past(transferrerResponse, Received) \in Nat /\ response.q \in Seq(Response)
            /\ responderResponse \in Response
        BY StageTypes
      <4> QED
        BY <2>2, <3>1, <3>2, <4>1, <4>2, AppendCarries
    <3>4. Held(NoResponse, v, w) /\ Past(NoResponse, v) = v
      BY StageTypes
    <3>5. Flow(v, w)'
      BY <1>1, <1>3, <1>7, <2>1, <2>3, <3>2, <3>3, <3>4 DEF Flow
    <3> QED
      BY <3>1, <3>5
  <2>4. Order'
    BY <1>1, <1>3, <2>3 DEF Order
  <2>5. \A i \in 1..Len(response'.q) : IsRequest(response'.q[i]) => writesDoneRequested
    <3>1. /\ Len(response.q) \in Nat /\ Len(response'.q) = Len(response.q) + 1
          /\ \A i \in 1..Len(response.q) : response'.q[i] = response.q[i]
          /\ response'.q[Len(response.q) + 1] = responderResponse
      <4>1. response.q \in Seq(Response) /\ responderResponse \in Response
        BY StageTypes
      <4>2. Len(response.q) \in Nat
        BY <4>1, LenProperties
      <4>3. \A s \in Seq(Response), x \in Response :
              /\ Len(Append(s, x)) = Len(s) + 1
              /\ \A i \in 1..Len(s) : Append(s, x)[i] = s[i]
              /\ Append(s, x)[Len(s) + 1] = x
        BY AppendProperties
      <4>4. /\ Len(Append(response.q, responderResponse)) = Len(response.q) + 1
            /\ \A i \in 1..Len(response.q) :
                 Append(response.q, responderResponse)[i] = response.q[i]
            /\ Append(response.q, responderResponse)[Len(response.q) + 1] = responderResponse
        BY <4>1, <4>3, Zenon
      <4> QED
        BY <2>2, <4>2, <4>4, Zenon
    <3> QED
      BY <3>1 DEF RequestSide
  <2>6. RequestSide'
    BY <1>1, <2>1, <2>5, StageTypes DEF RequestSide
  <2>7. ThreadSide'
    BY <1>1, <1>2, <1>7, <2>1, <2>2 DEF ThreadSide
  <2> QED
    BY <2>4, <2>6, <2>7
<1> QED
  BY <1>2, <1>4, <1>5, <1>6, <1>7
  DEF ResponderStep, ResponderLoops, ResponderReads, ResponderWrites, ResponderReturns

(* What the server sends is appended to what the transport holds.          *)
LEMMA ServerSendsMore ==
  ASSUME TypeOK, NEW x \in Response, ServerSends(x),
         \A i \in 1..Len(inbound) : IsRequest(inbound[i]) => writesDoneRequested,
         IsRequest(x) => writesDoneRequested'
  PROVE  \A i \in 1..Len(inbound') :
           IsRequest(inbound'[i]) => writesDoneRequested \/ writesDoneRequested'
<1>1. /\ Len(inbound) \in Nat /\ Len(inbound') = Len(inbound) + 1
      /\ \A i \in 1..Len(inbound) : inbound'[i] = inbound[i]
      /\ inbound'[Len(inbound) + 1] = x
  BY LenProperties, AppendProperties DEF TypeOK, ServerSends
<1> QED
  BY <1>1

(* A break loses what is last in order: the rest remains a beginning.      *)
LEMMA EnvironmentKeepsOrder ==
  ASSUME OrderInv, EnvironmentStep
  PROVE  ThreadSide' /\ RequestSide' /\ Order'
<1> USE DEF OrderInv, EndInv
<1>1. UNCHANGED <<delivered, endSeen, receive, transferrer, transferrerResponse,
                  readChannelClosed, responder, responderResponse, responderCancelled,
                  response, readTerminated, tryCancelled>>
  BY DEF EnvironmentStep, EnvironmentFrame, threadVars, userVars, userHistory, transferrerVars,
         responderVars, cancelVars, channels, clientVars
<1>2. rpc = "open" /\ ~tryCancelled /\ ~Lossy
  BY DEF EnvironmentStep, ServerSendsPacket, ServerSendsHeartbeat, ServerRequestsWritesDone,
         ServerEnds, RpcBreaks, ServerSends, ThreadSide, Lossy
<1>3. Flowing => responder # "done"
  BY <1>2 DEF ThreadSide, Flowing
<1>4. ThreadSide'
  BY <1>1, <1>2 DEF ThreadSide
<1>5. Received' = Received /\ (Flowing' <=> Flowing)
  BY <1>1 DEF Received, Flowing
<1>6. /\ PacketResponse(sent + 1) \in Response /\ Heartbeat \in Response
      /\ WritesDoneRequest \in Response
  BY DEF TypeOK, PacketResponse, Heartbeat, WritesDoneRequest, Response
<1>7. CASE ServerSendsPacket
  <2>1. /\ ~writesDoneRequested /\ UNCHANGED <<rpc, writesDoneRequested>>
        /\ ServerSends(PacketResponse(sent + 1)) /\ sent' = sent + 1
        /\ inbound' = Append(inbound, PacketResponse(sent + 1))
    BY <1>7 DEF ServerSendsPacket, ServerSends
  <2>2. ~IsRequest(PacketResponse(sent + 1))
    BY DEF PacketResponse, IsRequest
  <2>3. ASSUME NEW u \in Nat, NEW w \in Nat, Flow(u, w), Flowing
        PROVE  Flow(u, w + 1)'
    <3>1. /\ w = sent /\ ~IsRequest(transferrerResponse) /\ ~IsRequest(responderResponse)
          /\ receive.closed => transferrer = "done"
      BY <1>2, <2>1, <2>3 DEF Flow, RequestSide
    <3>2. Carries(response.q, Past(transferrerResponse, Received), u, w + 1)
      <4>1. Past(transferrerResponse, Received) \in Nat
        BY StageTypes
      <4>2. \A i \in 1..Len(response.q) : ~IsRequest(response.q[i])
        BY <2>1 DEF RequestSide
      <4> QED
        BY <2>3, <4>1, <4>2, MoreCarries DEF Flow
    <3> DEFINE v == Past(responderResponse, u)
    <3>3. v \in Nat
      BY StageTypes
    <3>4. Carries(inbound', v, w + 1, w + 1)
      <4>1. Carries(inbound, v, w, w)
        BY <1>3, <2>3 DEF Flow
      <4>2. \A i \in 1..Len(inbound) : ~IsRequest(inbound[i])
        BY <2>1 DEF RequestSide
      <4>3. Carries(inbound, v, w, w + 1)
        BY <3>3, <4>1, <4>2, MoreCarries
      <4>4. Held(PacketResponse(sent + 1), w, w + 1) /\ Past(PacketResponse(sent + 1), w) = w + 1
        BY <3>1 DEF PacketResponse, Held, Past, IsPacket, IsRequest
      <4>5. Carries(Append(inbound, PacketResponse(sent + 1)), v,
                    Past(PacketResponse(sent + 1), w), w + 1)
        <5>1. inbound \in Seq(Response) /\ w + 1 \in Nat
          BY StageTypes
        <5> QED
          BY <1>6, <3>3, <4>3, <4>4, <5>1, AppendCarries
      <4> QED
        BY <2>1, <4>4, <4>5
    <3>5. /\ Held(transferrerResponse, Received, w + 1)
          /\ Held(responderResponse, u, w + 1)
      <4>1. \A a \in Nat : a + 1 <= w => a + 1 <= w + 1
        OBVIOUS
      <4>2. Held(transferrerResponse, Received, w) /\ Held(responderResponse, u, w)
        BY <1>3, <2>3 DEF Flow
      <4>3. Received \in Nat
        BY StageTypes
      <4> QED
        BY <3>1, <4>1, <4>2, <4>3 DEF Held
    <3>6. w + 1 <= sent' /\ w + 1 = sent'
      BY <2>1, <3>1
    <3> QED
      BY <1>1, <1>3, <1>5, <2>1, <2>3, <3>1, <3>2, <3>4, <3>5, <3>6 DEF Flow
  <2>4. Flowing => \E u, w \in Nat : Flow(u, w)'
    <3> SUFFICES ASSUME Flowing
                 PROVE  \E u, w \in Nat : Flow(u, w)'
      OBVIOUS
    <3>1. PICK u, w \in Nat : Flow(u, w)
      BY DEF Order
    <3> QED
      BY <2>3, <3>1
  <2>5. Order'
    <3>1. Received' <= sent'
      BY <1>5, <2>1, StageTypes DEF Order
    <3> QED
      BY <1>1, <1>5, <2>4, <3>1 DEF Order
  <2>6. RequestSide'
    BY <1>1, <1>6, <2>1, <2>2, ServerSendsMore DEF RequestSide
  <2> QED
    BY <1>4, <2>5, <2>6
<1>8. ASSUME NEW x \in Response, ServerSends(x), sent' = sent, ~IsPacket(x),
             writesDoneRequested => writesDoneRequested', IsRequest(x) => writesDoneRequested'
      PROVE  ThreadSide' /\ RequestSide' /\ Order'
  <2>1. inbound' = Append(inbound, x) /\ rpc' = rpc
    BY <1>8 DEF ServerSends
  <2>2. ASSUME NEW u \in Nat, NEW w \in Nat, Flow(u, w), Flowing
        PROVE  Flow(u, w)'
    <3>1. Carries(inbound, Past(responderResponse, u), w, w)
      BY <1>3, <2>2 DEF Flow
    <3>2. Held(x, w, w) /\ Past(x, w) = w
      BY <1>8 DEF Held, Past
    <3>3. Carries(Append(inbound, x), Past(responderResponse, u), Past(x, w), w)
      <4>1. inbound \in Seq(Response) /\ Past(responderResponse, u) \in Nat
        BY StageTypes
      <4> QED
        BY <3>1, <3>2, <4>1, AppendCarries
    <3> QED
      BY <1>1, <1>3, <1>5, <1>8, <2>1, <2>2, <3>2, <3>3 DEF Flow, Lossy
  <2>3. Order'
    BY <1>1, <1>5, <1>8, <2>2 DEF Order
  <2>4. RequestSide'
    BY <1>1, <1>8, ServerSendsMore DEF RequestSide
  <2> QED
    BY <1>4, <2>3, <2>4
<1>9. CASE ServerSendsHeartbeat
  <2>1. ~IsPacket(Heartbeat) /\ ~IsRequest(Heartbeat)
    BY DEF Heartbeat, IsPacket, IsRequest
  <2> QED
    BY <1>6, <1>8, <1>9, <2>1 DEF ServerSendsHeartbeat
<1>10. CASE ServerRequestsWritesDone
  <2>1. ~IsPacket(WritesDoneRequest)
    BY DEF WritesDoneRequest, IsPacket
  <2> QED
    BY <1>6, <1>8, <1>10, <2>1 DEF ServerRequestsWritesDone
<1>11. CASE ServerEnds
  <2>1. rpc' = "OUT_OF_RANGE" /\ UNCHANGED <<inbound, sent, writesDoneRequested>>
    BY <1>11 DEF ServerEnds
  <2>2. Flowing => \E u, w \in Nat : Flow(u, w)'
    BY <1>1, <1>2, <1>5, <2>1, FlowStays DEF Order
  <2>3. Order'
    BY <1>1, <1>5, <2>1, <2>2 DEF Order
  <2> QED
    BY <1>1, <1>4, <2>1, <2>3 DEF RequestSide
<1>12. CASE RpcBreaks
  <2>1. rpc' = "UNAVAILABLE" /\ inbound' = <<>> /\ UNCHANGED <<sent, writesDoneRequested>>
    BY <1>12 DEF RpcBreaks
  <2>2. ASSUME NEW u \in Nat, NEW w \in Nat, Flow(u, w), Flowing
        PROVE  \E v \in Nat : Flow(u, v)'
    <3> DEFINE t == Past(transferrerResponse, Received)
    <3>1. t \in Nat /\ Received \in Nat
      BY StageTypes
    <3>2. PICK v \in Nat : v = Past(responderResponse, u)
      BY StageTypes
    <3>3. /\ Received <= t /\ t <= u /\ u <= v /\ v <= w /\ w <= sent
          /\ IsPacket(transferrerResponse) => Received + 1 = t
          /\ IsPacket(responderResponse) => u + 1 = v
      <4>1. Carries(response.q, t, u, w) /\ Carries(inbound, v, w, w) /\ w <= sent
        BY <1>3, <2>2, <3>2 DEF Flow
      <4>2. t <= u /\ v <= w
        BY <4>1 DEF Carries
      <4> QED
        BY <3>1, <3>2, <4>1, <4>2 DEF Past
    <3>4. Held(transferrerResponse, Received, w) /\ Held(responderResponse, u, w)
      BY <1>3, <2>2 DEF Flow
    <3>5. Carries(response.q, t, u, w)
      BY <2>2 DEF Flow
    <3>6. receive.closed /\ transferrer # "done" => Received = w
      BY <2>2 DEF Flow
    <3> HIDE DEF t
    <3>7. Held(transferrerResponse, Received, v)
      BY <3>1, <3>3, <3>4 DEF Held
    <3>8. Held(responderResponse, u, v)
      BY <3>1, <3>3, <3>4 DEF Held
    <3>9. Carries(response.q, t, u, v)
      <4>1. \A i \in 1..Len(response.q) : IsRequest(response.q[i]) => u = v
        BY <3>1, <3>3, <3>5 DEF Carries
      <4> QED
        BY <3>3, <3>5, <4>1 DEF Carries
    <3>10. Carries(<<>>, v, v, v)
      BY <3>1, EmptyCarries
    <3>11. receive.closed /\ transferrer # "done" => Received = v
      BY <3>1, <3>3, <3>6
    <3>12. v <= sent
      BY <3>1, <3>3, StageTypes
    <3>13. Lossy'
      BY <2>1 DEF Lossy
    <3>14. Flow(u, v)'
      BY <1>1, <1>3, <1>5, <2>1, <2>2, <3>2, <3>7, <3>8, <3>9, <3>10, <3>11, <3>12, <3>13
      DEF Flow, t
    <3> QED
      BY <3>14
  <2>3. Order'
    BY <1>1, <1>5, <2>1, <2>2 DEF Order
  <2>4. Len(<<>>) = 0
    OBVIOUS
  <2> QED
    BY <1>1, <1>4, <2>1, <2>3, <2>4 DEF RequestSide
<1> QED
  BY <1>7, <1>9, <1>10, <1>11, <1>12 DEF EnvironmentStep

(* Every step keeps the order.                                             *)
LEMMA OrderStep ==
  ASSUME OrderInv, [Next]_vars
  PROVE  OrderInv'
<1>1. EndInv'
  BY EndStep DEF OrderInv
<1>2. CASE UNCHANGED vars
  <2>1. UNCHANGED <<delivered, endSeen, receive, transferrer, transferrerResponse,
                    readChannelClosed, responder, responderResponse, responderCancelled,
                    response, readTerminated, rpc, tryCancelled, inbound, sent,
                    writesDoneRequested>>
    BY <1>2
    DEF vars, threadVars, userVars, userHistory, transferrerVars, responderVars, cancelVars,
        channels, clientVars, rpcVars, serverVars
  <2>2. ASSUME NEW u, NEW w, Flow(u, w) PROVE Flow(u, w)'
    BY <2>1, <2>2 DEF Flow, Received, Lossy
  <2>3. Order'
    BY <2>1, <2>2 DEF OrderInv, Order, Received, Flowing
  <2> QED
    BY <1>1, <2>1, <2>3 DEF OrderInv, ThreadSide, RequestSide
<1> QED
  BY <1>1, <1>2, UserKeepsOrder, OthersKeepOrder, TransferrerKeepsOrder, ResponderKeepsOrder,
     EnvironmentKeepsOrder DEF Next, OrderInv

(* The packets reach the caller in the order they were sent, without gaps  *)
(* and repetitions, however many there are and whenever a thread, the RPC  *)
(* or the caller ends the session.                                         *)
THEOREM PacketsArriveInOrder == Spec => []DeliveredInOrder
<1>1. OrderInv /\ [Next]_vars => OrderInv'
  BY OrderStep
<1>2. OrderInv => DeliveredInOrder
  <2> SUFFICES ASSUME OrderInv
               PROVE  DeliveredInOrder
    OBVIOUS
  <2>1. /\ Len(delivered) \in Nat /\ Len(receive.q) \in Nat /\ sent \in Nat
        /\ Received <= sent
    BY StageTypes DEF OrderInv, EndInv, Order
  <2>2. Len(delivered) <= sent
    BY <2>1 DEF Received
  <2>3. \A i \in 1..Len(delivered) : delivered[i] = i
    BY <2>1 DEF OrderInv, Order, CountsFrom
  <2> QED
    BY <2>2, <2>3 DEF DeliveredInOrder
<1> QED
  BY OrderInit, <1>1, <1>2, PTL DEF Spec

(* The final status is never OK, MainTask leaves it in the channel when it *)
(* is done, and nobody has taken it before the first Finish returns.       *)
FinalStatus ==
  /\ main # "done" => mainStatus = NewChannel /\ finishReturn = "NONE"
  /\ main = "return" => returnStatus # "OK"
  /\ main = "done" /\ finishReturn = "NONE" => PopsItem(mainStatus) /\ Front(mainStatus) # "OK"

(* MainTask's steps keep that; the guard of phase 3 is that the workers    *)
(* reported no error.                                                      *)
LEMMA MainKeepsFinalStatus ==
  ASSUME TypeOK, FinalStatus, MainStep
  PROVE  FinalStatus'
<1>1. UNCHANGED finishReturn
  BY DEF MainStep, userVars, userHistory
<1>2. CASE MainReturns
  <2>1. /\ main = "return" /\ main' = "done" /\ returnStatus # "OK" /\ returnStatus' = returnStatus
        /\ mainStatus' = CloseWrites(Emplace(NewChannel, returnStatus))
    BY <1>2 DEF MainReturns, FinalStatus
  <2>2. Append(<<>>, returnStatus) = <<returnStatus>>
    OBVIOUS
  <2>3. mainStatus'.q = <<returnStatus>>
    BY <2>1, <2>2 DEF CloseWrites, Emplace, NewChannel
  <2>4. PopsItem(mainStatus') /\ Front(mainStatus') # "OK"
    BY <2>1, <2>3 DEF PopsItem, Front
  <2> QED
    BY <2>1, <2>4 DEF FinalStatus
<1>3. CASE MainCollectsFirst \/ MainCancels \/ MainJoins \/ MainFinishesRpc
  <2>1. main # "done" /\ main' # "done" /\ UNCHANGED mainStatus
    BY <1>3 DEF MainCollectsFirst, RecordStatus, MainCancels, MainJoins, MainFinishesRpc
  <2>2. main' = "return" => returnStatus' # "OK"
    BY <1>3 DEF MainCollectsFirst, RecordStatus, MainCancels, MainJoins, MainFinishesRpc,
                TypeOK, RpcCode
  <2> QED
    BY <1>1, <2>1, <2>2 DEF FinalStatus
<1> QED
  BY <1>2, <1>3 DEF MainStep

(* So do the user's: only Finish takes the status.                         *)
LEMMA UserKeepsFinalStatus ==
  ASSUME TypeOK, FinalStatus, UserActs \/ UserReturns
  PROVE  /\ FinalStatus'
         /\ finishReturn' = "OK" => finishReturn # "NONE" \/ UNCHANGED finishReturn
<1>1. UNCHANGED <<main, returnStatus>>
  BY DEF UserActs, UserReturns, mainVars
<1>2. CASE FinishReturns
  <2>1. finishReturn' = StatusRead(mainStatus) /\ HasItemOrClosed(mainStatus)
    BY <1>2 DEF FinishReturns
  <2>2. main = "done"
    BY <2>1 DEF FinalStatus, HasItemOrClosed, NewChannel
  <2>3. finishReturn = "NONE" => finishReturn' # "OK"
    BY <2>1, <2>2 DEF FinalStatus, StatusRead
  <2>4. finishReturn' # "NONE"
    BY <2>1, StatusReadType DEF TypeOK, Code, RpcCode
  <2> QED
    BY <1>1, <2>2, <2>3, <2>4 DEF FinalStatus
<1>3. CASE ~FinishReturns
  <2>1. UNCHANGED <<mainStatus, finishReturn>>
    BY <1>3
    DEF UserActs, BeginReceive, UserTimesOut, BeginCommit, CommitsDone, BeginFinish,
        BeginCancel, UserReturns, ReceiveGetsPacket, ReceiveEnds, CommitReturns,
        CancelMainTask, CancelReturns, userHistory
  <2> QED
    BY <1>1, <2>1 DEF FinalStatus
<1> QED
  BY <1>2, <1>3

(* A session whose end was reported delivers nothing any more: the receive *)
(* channel is closed and empty, and the transferrer, which may still hold  *)
(* responses, adds nothing to it.  What is reported first is the status    *)
(* that MainTask left, never the OK of an empty status channel.            *)
THEOREM EndStaysReported == Spec => ReceiveEndIsFinal
<1>1. OrderInv /\ [Next]_vars => OrderInv'
  BY OrderStep
<1>2. Init => FinalStatus
  BY DEF Init, FinalStatus
<1>3. TypeOK /\ FinalStatus /\ [Next]_vars => FinalStatus'
  <2> SUFFICES ASSUME TypeOK, FinalStatus, [Next]_vars
               PROVE  FinalStatus'
    OBVIOUS
  <2>1. CASE UserActs \/ UserReturns
    BY <2>1, UserKeepsFinalStatus
  <2>2. CASE MainStep
    BY <2>2, MainKeepsFinalStatus
  <2>3. CASE ~(UserActs \/ UserReturns \/ MainStep)
    <3>1. UNCHANGED <<main, returnStatus, mainStatus, finishReturn>>
      BY <2>3
      DEF Next, CommitterStep, TransferrerStep, MissHeartbeat, TransferrerFrame,
          ResponderStep, EnvironmentStep, EnvironmentFrame, threadVars, userVars, userHistory,
          mainVars, channels, vars
    <3> QED
      BY <3>1 DEF FinalStatus
  <2> QED
    BY <2>1, <2>2, <2>3
<1>4. OrderInv /\ TypeOK /\ FinalStatus /\ [Next]_vars =>
        [/\ endSeen => UNCHANGED delivered
         /\ finishReturn' = "OK" => finishReturn # "NONE"]_vars
  <2> SUFFICES ASSUME OrderInv, TypeOK, FinalStatus, Next
               PROVE  /\ endSeen => UNCHANGED delivered
                      /\ finishReturn' = "OK" => finishReturn # "NONE"
    OBVIOUS
  <2>1. endSeen => ~PopsItem(receive)
    BY DEF OrderInv, ThreadSide, PopsItem
  <2>2. UserActs \/ UserReturns => (endSeen => UNCHANGED delivered)
    BY <2>1
    DEF UserActs, BeginReceive, UserTimesOut, BeginCommit, CommitsDone, BeginFinish,
        BeginCancel, UserReturns, ReceiveGetsPacket, ReceiveEnds, CommitReturns,
        FinishReturns, CancelMainTask, CancelReturns, userHistory
  <2>3. UserActs \/ UserReturns => (finishReturn' = "OK" => finishReturn # "NONE")
    BY UserKeepsFinalStatus
  <2>4. ~(UserActs \/ UserReturns) => UNCHANGED <<delivered, finishReturn>>
    BY DEF Next, MainStep, CommitterStep, TransferrerStep, MissHeartbeat, TransferrerFrame,
        ResponderStep, EnvironmentStep, EnvironmentFrame, threadVars, userVars, userHistory
  <2> QED
    BY <2>2, <2>3, <2>4
<1>5. Spec => []TypeOK
  BY TypeCorrect
<1> QED
  BY OrderInit, <1>1, <1>2, <1>3, <1>4, <1>5, PTL DEF Spec, ReceiveEndIsFinal

-----------------------------------------------------------------------------
(* Where a status comes from: OUT_OF_RANGE is the server's own, read from  *)
(* the RPC by MainTask.                                                    *)
Ended == rpc = "OUT_OF_RANGE"

StatusSide ==
  /\ transferrerFinal # "OUT_OF_RANGE"
  /\ \A i \in 1..Len(committerStatus.q) : committerStatus.q[i] # "OUT_OF_RANGE"
  /\ \A i \in 1..Len(transferrerStatus.q) : transferrerStatus.q[i] # "OUT_OF_RANGE"
  /\ returnStatus = "OUT_OF_RANGE" => Ended /\ main \in {"return", "done"}
  /\ \A i \in 1..Len(mainStatus.q) :
       mainStatus.q[i] = "OUT_OF_RANGE" => Ended /\ main = "done"
  /\ finishReturn = "OUT_OF_RANGE" => Ended /\ main = "done"

StatusInv == OrderInv /\ StatusSide

(* Reading a status channel: what is read was in it, and so is the rest.   *)
LEMMA StatusesRead ==
  ASSUME NEW ch \in ChannelOf(Code)
  PROVE  /\ StatusRead(ch) = "OK" \/ \E i \in 1..Len(ch.q) : StatusRead(ch) = ch.q[i]
         /\ \A i \in 1..Len(AfterRead(ch).q) :
              \E j \in 1..Len(ch.q) : AfterRead(ch).q[i] = ch.q[j]
<1>1. CASE ch.q = <<>>
  BY <1>1 DEF StatusRead, AfterRead, PopsItem
<1>2. CASE ch.q # <<>>
  <2>1. ch.q \in Seq(Code) /\ Pop(ch).q = Tail(ch.q)
    <3>1. ch.q \in Seq(Code)
      BY DEF ChannelOf
    <3> QED
      BY <3>1, ChannelFields
  <2>2. /\ Len(ch.q) \in Nat /\ Len(ch.q) > 0 /\ Head(ch.q) = ch.q[1]
        /\ Len(Tail(ch.q)) = Len(ch.q) - 1
        /\ \A i \in 1..Len(Tail(ch.q)) : Tail(ch.q)[i] = ch.q[i + 1]
    BY <1>2, <2>1, HeadAndTail
  <2>3. StatusRead(ch) = ch.q[1] /\ AfterRead(ch).q = Tail(ch.q)
    BY <1>2, <2>1, <2>2 DEF StatusRead, AfterRead, PopsItem, Front
  <2> QED
    BY <2>2, <2>3
<1> QED
  BY <1>1, <1>2

(* Writing one: what is in it was in it before, or is the status written.  *)
LEMMA StatusesWritten ==
  ASSUME NEW ch \in ChannelOf(Code), NEW status \in Code
  PROVE  \A i \in 1..Len(CloseWrites(Emplace(ch, status)).q) :
           \/ CloseWrites(Emplace(ch, status)).q[i] = status
           \/ \E j \in 1..Len(ch.q) : CloseWrites(Emplace(ch, status)).q[i] = ch.q[j]
<1>1. CloseWrites(Emplace(ch, status)).q = Append(ch.q, status) /\ ch.q \in Seq(Code)
  <2>1. ch.q \in Seq(Code)
    BY DEF ChannelOf
  <2>2. Emplace(ch, status) \in ChannelOf(Code) /\ Emplace(ch, status).q = Append(ch.q, status)
    BY EmplaceType, EmplaceFields
  <2> QED
    BY <2>1, <2>2, ChannelFields
<1>2. /\ Len(ch.q) \in Nat /\ Len(Append(ch.q, status)) = Len(ch.q) + 1
      /\ \A i \in 1..Len(ch.q) : Append(ch.q, status)[i] = ch.q[i]
      /\ Append(ch.q, status)[Len(ch.q) + 1] = status
  BY <1>1, LenProperties, AppendProperties
<1> QED
  BY <1>1, <1>2

(* At the start there is no status.                                        *)
LEMMA StatusInit == Init => StatusInv
<1>1. \A i \in 1..Len(<<>>) : FALSE
  OBVIOUS
<1> QED
  BY <1>1, OrderInit DEF Init, NewChannel, StatusInv, StatusSide

(* An RPC that the server has ended stays ended.                           *)
LEMMA EndedForGood ==
  ASSUME [Next]_vars, Ended
  PROVE  Ended'
<1>1. UNCHANGED rpc \/ (ClientCancel /\ ~UNCHANGED <<clientVars, rpcVars>>) \/ EnvironmentStep
  BY DEF Next, vars, UserActs, UserReturns, MainStep, CommitterStep, CommitterLoops,
         CommitterReads, CommitterWrites, CommitterWritesDone, CommitterCancelsRpc,
         CommitterReturns, TransferrerStep, TransferrerLoops, TransferrerPolls,
         TransferrerHandles, TransferrerAwaitsEnd, TransferrerCancels, TransferrerReturns,
         MissHeartbeat, TransferrerMissesHeartbeat, ResponderStep, rpcVars
<1> QED
  BY <1>1
  DEF Ended, ClientCancel, EnvironmentStep, ServerSendsPacket, ServerSendsHeartbeat,
      ServerRequestsWritesDone, ServerEnds, RpcBreaks, ServerSends

(* No worker's status is OUT_OF_RANGE, and MainTask's is the RPC's.        *)
LEMMA StatusStep ==
  ASSUME StatusInv, [Next]_vars
  PROVE  StatusInv'
<1> USE DEF StatusInv
<1>1. OrderInv' /\ TypeOK /\ (Ended => Ended')
  BY OrderStep, EndedForGood DEF OrderInv, EndInv
<1>2. /\ mainStatus \in ChannelOf(Code) /\ committerStatus \in ChannelOf(Code)
      /\ transferrerStatus \in ChannelOf(Code) /\ returnStatus \in Code
      /\ transferrerFinal \in Code /\ "OK" \in Code
  BY <1>1 DEF TypeOK, Code
<1>3. CASE UserActs \/ (UserReturns /\ ~FinishReturns)
  <2>1. UNCHANGED <<main, returnStatus, transferrerFinal, mainStatus, committerStatus,
                    transferrerStatus, finishReturn>>
    BY <1>3
    DEF UserActs, BeginReceive, UserTimesOut, BeginCommit, CommitsDone, BeginFinish,
        BeginCancel, UserReturns, ReceiveGetsPacket, ReceiveEnds, CommitReturns,
        CancelMainTask, CancelReturns, userHistory, mainVars, transferrerVars
  <2> QED
    BY <1>1, <2>1 DEF StatusSide
<1>4. CASE UserReturns /\ FinishReturns
  <2>1. /\ UNCHANGED <<main, returnStatus, transferrerFinal, committerStatus, transferrerStatus>>
        /\ finishReturn' = StatusRead(mainStatus) /\ mainStatus' = AfterRead(mainStatus)
    BY <1>4 DEF UserReturns, FinishReturns, mainVars, transferrerVars
  <2>2. /\ \A i \in 1..Len(mainStatus'.q) :
             mainStatus'.q[i] = "OUT_OF_RANGE" => Ended /\ main = "done"
        /\ finishReturn' = "OUT_OF_RANGE" => Ended /\ main = "done"
    BY <1>2, <2>1, StatusesRead DEF StatusSide
  <2> QED
    BY <1>1, <2>1, <2>2 DEF StatusSide
<1>5. CASE MainStep
  <2>1. UNCHANGED <<transferrerFinal, finishReturn>> /\ main # "done" /\ finishReturn # "OUT_OF_RANGE"
    <3>1. UNCHANGED <<transferrerFinal, finishReturn>> /\ main # "done"
      BY <1>5
      DEF MainStep, MainCollectsFirst, MainCancels, MainJoins, MainFinishesRpc, MainReturns,
          transferrerVars, userVars, userHistory
    <3> QED
      BY <3>1 DEF StatusSide
  <2>2. /\ \A i \in 1..Len(committerStatus'.q) : committerStatus'.q[i] # "OUT_OF_RANGE"
        /\ \A i \in 1..Len(transferrerStatus'.q) : transferrerStatus'.q[i] # "OUT_OF_RANGE"
    <3>1. /\ committerStatus' \in {committerStatus, AfterRead(committerStatus)}
          /\ transferrerStatus' \in {transferrerStatus, AfterRead(transferrerStatus)}
      BY <1>5
      DEF MainStep, MainCollectsFirst, MainCancels, MainJoins, MainFinishesRpc, MainReturns
    <3> QED
      BY <1>2, <3>1, StatusesRead DEF StatusSide
  <2>3. returnStatus' = "OUT_OF_RANGE" => Ended' /\ main' \in {"return", "done"}
    <3>1. CASE MainCollectsFirst
      <4>1. /\ main = "collect_first"
            /\ returnStatus' \in {StatusRead(committerStatus), StatusRead(transferrerStatus)}
        BY <3>1 DEF MainCollectsFirst, RecordStatus
      <4> QED
        BY <1>2, <4>1, StatusesRead DEF StatusSide
    <3>2. CASE MainCancels \/ MainJoins \/ MainReturns
      BY <1>1, <3>2 DEF MainCancels, MainJoins, MainReturns, StatusSide
    <3>3. CASE MainFinishesRpc
      BY <1>1, <3>3 DEF MainFinishesRpc, FinishPrecondition, Ended, MainStep, rpcVars
    <3> QED
      BY <1>5, <3>1, <3>2, <3>3 DEF MainStep
  <2>4. \A i \in 1..Len(mainStatus'.q) :
          mainStatus'.q[i] = "OUT_OF_RANGE" => Ended' /\ main' = "done"
    <3>1. CASE UNCHANGED mainStatus
      BY <2>1, <3>1 DEF StatusSide
    <3>2. CASE MainReturns
      BY <1>1, <1>2, <2>1, <3>2, StatusesWritten DEF MainReturns, StatusSide
    <3> QED
      BY <1>5, <3>1, <3>2
      DEF MainStep, MainCollectsFirst, MainCancels, MainJoins, MainFinishesRpc
  <2> QED
    BY <1>1, <2>1, <2>2, <2>3, <2>4 DEF StatusSide
<1>6. CASE CommitterStep
  <2>1. UNCHANGED <<main, returnStatus, transferrerFinal, mainStatus, transferrerStatus,
                    finishReturn>>
    BY <1>6 DEF CommitterStep, userVars, userHistory, mainVars, transferrerVars
  <2>2. \/ UNCHANGED committerStatus
        \/ committerStatus' = CloseWrites(Emplace(committerStatus, "OK"))
    BY <1>6
    DEF CommitterStep, CommitterLoops, CommitterReads, CommitterWrites, CommitterWritesDone,
        CommitterCancelsRpc, CommitterReturns
  <2>3. \A i \in 1..Len(committerStatus'.q) : committerStatus'.q[i] # "OUT_OF_RANGE"
    BY <1>2, <2>2, StatusesWritten DEF StatusSide
  <2> QED
    BY <1>1, <2>1, <2>3 DEF StatusSide
<1>7. CASE TransferrerStep \/ MissHeartbeat
  <2>1. UNCHANGED <<main, returnStatus, mainStatus, committerStatus, finishReturn>>
    BY <1>7 DEF TransferrerStep, MissHeartbeat, TransferrerFrame, userVars, userHistory, mainVars
  <2>2. /\ \/ UNCHANGED transferrerStatus
           \/ transferrerStatus' = CloseWrites(Emplace(transferrerStatus, transferrerFinal))
        /\ transferrerFinal' \in {transferrerFinal, "INTERNAL"}
    BY <1>7
    DEF TransferrerStep, MissHeartbeat, TransferrerMissesHeartbeat, TransferrerLoops,
        TransferrerPolls, TransferrerHandles, TransferrerAwaitsEnd, TransferrerCancels,
        TransferrerReturns
  <2>3. \A i \in 1..Len(transferrerStatus'.q) : transferrerStatus'.q[i] # "OUT_OF_RANGE"
    BY <1>2, <2>2, StatusesWritten DEF StatusSide
  <2> QED
    BY <1>1, <2>1, <2>2, <2>3 DEF StatusSide
<1>8. CASE ResponderStep \/ EnvironmentStep \/ UNCHANGED vars
  <2>1. UNCHANGED <<main, returnStatus, transferrerFinal, mainStatus, committerStatus,
                    transferrerStatus, finishReturn>>
    BY <1>8
    DEF ResponderStep, EnvironmentStep, EnvironmentFrame, vars, threadVars, channels, userVars,
        userHistory, mainVars, transferrerVars
  <2> QED
    BY <1>1, <2>1 DEF StatusSide
<1> QED
  BY <1>3, <1>4, <1>5, <1>6, <1>7, <1>8 DEF Next

(* A session that ends with OUT_OF_RANGE has delivered whatever the server *)
(* sent, unless it was cancelled on this side: nothing is left in a stage, *)
(* and none has dropped anything.                                          *)
THEOREM OutOfRangeIsComplete == Spec => []OutOfRangeMeansAll
<1>1. StatusInv /\ [Next]_vars => StatusInv'
  BY StatusStep
<1>2. StatusInv => OutOfRangeMeansAll
  <2> SUFFICES ASSUME StatusInv, finishReturn = "OUT_OF_RANGE", endSeen, ~tryCancelled
               PROVE  Len(delivered) = sent
    BY DEF OutOfRangeMeansAll
  <2>1. /\ rpc = "OUT_OF_RANGE" /\ transferrer = "done" /\ responder = "done"
        /\ receive.q = <<>> /\ response.q = <<>> /\ transferrerResponse = NoResponse
    BY DEF StatusInv, StatusSide, Ended, OrderInv, EndInv, MainSide, ReadSide, ThreadSide
  <2>2. Flowing /\ ~Lossy
    BY <2>1 DEF Flowing, Lossy
  <2>3. PICK u, w \in Nat : Flow(u, w)
    BY <2>2 DEF StatusInv, OrderInv, Order
  <2>4. u = w /\ w = sent
    BY <2>1, <2>2, <2>3 DEF Flow
  <2>5. TypeOK
    BY DEF StatusInv, OrderInv, EndInv
  <2>6. Carries(<<>>, Received, u, w) /\ Received \in Nat
    BY <2>1, <2>3, <2>5, StageTypes DEF Flow
  <2>7. Received = u
    BY <2>6, EmptyCarries
  <2>8. Received = Len(delivered)
    BY <2>1, <2>5, StageTypes DEF Received
  <2> QED
    BY <2>4, <2>7, <2>8
<1> QED
  BY StatusInit, <1>1, <1>2, PTL DEF Spec
=============================================================================
