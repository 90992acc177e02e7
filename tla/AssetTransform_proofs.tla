------------------------- MODULE AssetTransform_proofs -------------------------
(* What holds of AssetTransform for any number of programs, files,             *)
(* transformers and annotations.                                               *)
EXTENDS AssetTransform, TLAPS

Ends == {"succeeded", "failed", "dropped"}

(* Every write that has returned is stored, and the bound leaves room for the  *)
(* ones to come.                                                               *)
StoredCounts ==
  \A t \in Transforms :
    /\ written[t] <= stored[t]
    /\ stored[t] + (Annotations - written[t]) <= MaxStored

(* A callback writes the result of an operation that has succeeded, and it     *)
(* succeeds with the last annotation; before its transform is started there is *)
(* none.                                                                       *)
WritersFollow ==
  \A t \in Transforms :
    /\ writer[t] \in {"writing", "succeeded"} => op[t] = "succeeded"
    /\ writer[t] = "succeeded" => written[t] = Annotations
    /\ t[3] > started[JobOf(t)] => writer[t] = "none"

(* Why a thread reports success. *)
SuccessIsEarned ==
  \A j \in Jobs :
    /\ indexed[j] => worker[j] = "succeeded"
    /\ worker[j] \in {"indexing", "succeeded"} =>
         \A t \in Transforms : JobOf(t) = j =>
           op[t] = "succeeded" /\ (KindOf(t) = "write" => writer[t] = "succeeded")

(* A thread waits for the creation of the process it starts next, and what it  *)
(* has started exists.                                                         *)
CreationsAwaited ==
  /\ \A j \in Jobs : worker[j] = "creating" => started[j] < Len(TransformersOf[j[1]])
  /\ \A t \in Transforms : t[3] <= started[JobOf(t)] => op[t] \notin {"none", "creating"}

(* The threads of a program that tears down have ended, and when it deletes    *)
(* the analysis the processes they have started have, too.                     *)
TeardownIsLast ==
  /\ \A j \in Jobs : main[j[1]] \in {"listing", "deleting"} => worker[j] \in Ends
  /\ \A t \in Transforms :
       main[t[1]] = "deleting" /\ KindOf(t) = "lva" /\ t[3] <= started[JobOf(t)] =>
         op[t] # "running"

TransformInv ==
  /\ TypeOK /\ StoredCounts /\ CreationsAwaited
  /\ WritersFollow /\ SuccessIsEarned /\ TeardownIsLast

-----------------------------------------------------------------------------
(* A job is a pair of a program and one of its files. *)
LEMMA JobShape ==
  \A j \in Jobs : j = <<j[1], j[2]>> /\ j[1] \in Programs
  BY DEF Jobs

(* A transform belongs to a job and to one of its program's transformers. *)
LEMMA TransformShape ==
  \A t \in Transforms :
    /\ t = <<t[1], t[2], t[3]>>
    /\ t[3] \in Nat \ {0}
    /\ JobOf(t) \in Jobs
    /\ JobOf(t)[1] = t[1]
    /\ t[1] \in Programs
  <1> SUFFICES ASSUME NEW j \in Jobs, NEW k \in DOMAIN TransformersOf[j[1]], NEW t,
                      t = <<j[1], j[2], k>>
               PROVE  /\ t = <<t[1], t[2], t[3]>>
                      /\ t[3] \in Nat \ {0}
                      /\ JobOf(t) \in Jobs
                      /\ JobOf(t)[1] = t[1]
                      /\ t[1] \in Programs
    BY DEF Transforms
  <1>1. j = <<j[1], j[2]>> /\ j[1] \in Programs
    BY JobShape
  <1>2. k \in Nat \ {0}
    BY <1>1, TransformersAssumption
  <1> QED
    BY <1>1, <1>2 DEF JobOf

(* The transform that a thread starts next is one of its own. *)
LEMMA NextShape ==
  ASSUME NEW j \in Jobs, started[j] \in Nat, started[j] < Len(TransformersOf[j[1]])
  PROVE  /\ NextTransform(j) \in Transforms
         /\ JobOf(NextTransform(j)) = j
         /\ NextTransform(j)[3] = started[j] + 1
  <1>1. j = <<j[1], j[2]>> /\ j[1] \in Programs
    BY JobShape
  <1>2. TransformersOf[j[1]] \in Seq({"lro", "write", "lva"})
    BY <1>1, TransformersAssumption
  <1>3. started[j] + 1 \in DOMAIN TransformersOf[j[1]]
    BY <1>2
  <1> QED
    BY <1>1, <1>3 DEF Transforms, NextTransform, JobOf

-----------------------------------------------------------------------------
(* The type invariant, with the counts that bound what is stored. *)
LEMMA TypeStep ==
  ASSUME TypeOK, StoredCounts, CreationsAwaited, [Next]_vars
  PROVE  TypeOK' /\ StoredCounts'
  <1> USE AnnotationsAssumption DEF TypeOK, StoredCounts
  <1>1. ASSUME NEW p \in Programs, MainStep(p)
        PROVE  TypeOK' /\ StoredCounts'
    <2>1. CASE UploadsEnd(p)
      BY <2>1 DEF UploadsEnd, MainIs, jobVars, transformVars
    <2>2. CASE GetAnalysis(p)
      BY <2>2 DEF GetAnalysis, MainIs, jobVars, transformVars
    <2>3. CASE CreateAnalysis(p)
      BY <2>3 DEF CreateAnalysis, MainIs, jobVars, transformVars
    <2>4. CASE Submit(p)
      BY <2>4 DEF Submit, MainIs, jobVars, transformVars
    <2>5. CASE TransformsEnd(p)
      BY <2>5 DEF TransformsEnd, MainIs, jobVars, transformVars
    <2>6. CASE ListProcesses(p)
      BY <2>6 DEF ListProcesses, MainIs, jobVars, transformVars
    <2>7. CASE DeleteAnalysis(p)
      BY <2>7 DEF DeleteAnalysis, MainIs, jobVars, transformVars
    <2>8. CASE MainFails(p)
      BY <2>8 DEF MainFails, MainIs, jobVars, transformVars
    <2> QED
      BY <1>1, <2>1, <2>2, <2>3, <2>4, <2>5, <2>6, <2>7, <2>8 DEF MainStep
  <1>2. ASSUME NEW j \in Jobs, WorkerStep(j)
        PROVE  TypeOK' /\ StoredCounts'
    <2>1. CASE CreateAsset(j)
      BY <2>1 DEF CreateAsset, WorkerIs, jobVars, transformVars
    <2>2. CASE Upload(j)
      BY <2>2 DEF Upload, WorkerIs, jobVars, transformVars
    <2>3. CASE UploadFails(j)
      BY <2>3 DEF UploadFails, WorkerIs, jobVars, transformVars
    <2>4. CASE Start(j)
      <3>1. started[j] \in Nat /\ started[j] < Len(TransformersOf[j[1]])
        BY <2>4 DEF Start
      <3>2. NextTransform(j) \in Transforms
        BY <3>1, NextShape
      <3> QED
        BY <2>4, <3>1, <3>2 DEF Start
    <2>5. CASE StartFails(j)
      <3>1. started[j] \in Nat /\ started[j] < Len(TransformersOf[j[1]])
        BY <2>5 DEF StartFails, CreationsAwaited
      <3>2. NextTransform(j) \in Transforms
        BY <3>1, NextShape
      <3> QED
        BY <2>5, <3>1, <3>2 DEF StartFails, WorkerIs
    <2>6. CASE AllStarted(j)
      BY <2>6 DEF AllStarted, WorkerIs, jobVars, transformVars
    <2>7. CASE CombinedEnds(j)
      BY <2>7 DEF CombinedEnds, WorkerIs, jobVars, transformVars
    <2>8. CASE GivesUp(j)
      BY <2>8 DEF GivesUp, WorkerIs, jobVars, transformVars
    <2>9. CASE Index(j)
      BY <2>9 DEF Index, WorkerIs, jobVars, transformVars
    <2>10. CASE IndexFails(j)
      BY <2>10 DEF IndexFails, WorkerIs, jobVars, transformVars
    <2>11. CASE RequestProcess(j)
      <3>1. started[j] \in Nat /\ started[j] < Len(TransformersOf[j[1]])
        BY <2>11 DEF RequestProcess
      <3>2. NextTransform(j) \in Transforms /\ JobOf(NextTransform(j)) = j
            /\ NextTransform(j)[3] = started[j] + 1
        BY <3>1, NextShape
      <3> QED
        BY <2>11, <3>1, <3>2, TransformShape DEF RequestProcess, WorkerIs
    <2>12. CASE ProcessCreated(j)
      BY <2>12 DEF ProcessCreated, WorkerIs, transformVars, CreationsAwaited
    <2> QED
      BY <1>2, <2>1, <2>2, <2>3, <2>4, <2>5, <2>6, <2>7, <2>8, <2>9, <2>10, <2>11, <2>12
         DEF WorkerStep
  <1>3. ASSUME NEW t \in Transforms, ServiceStep(t) \/ WriterStep(t)
        PROVE  TypeOK' /\ StoredCounts'
    <2>1. CASE OperationEnds(t)
      BY <2>1 DEF OperationEnds, WriterIs, jobVars
    <2>2. CASE CallBack(t)
      BY <2>2 DEF CallBack, WriterIs, jobVars
    <2>3. CASE WriteIsLost(t)
      BY <2>3 DEF WriteIsLost, WriterIs, jobVars
    <2>4. CASE WriteOne(t)
      BY <2>4 DEF WriteOne, WriterIs, jobVars
    <2>5. CASE WriterSucceeds(t)
      BY <2>5 DEF WriterSucceeds, WriterIs, jobVars
    <2>6. CASE WriterFails(t)
      BY <2>6 DEF WriterFails, WriterIs, jobVars
    <2>7. CASE WriterDies(t)
      BY <2>7 DEF WriterDies, WriterIs, jobVars
    <2>8. CASE PollingFails(t)
      BY <2>8 DEF PollingFails, WriterIs, jobVars
    <2>9. CASE ProcessAppears(t)
      BY <2>9 DEF ProcessAppears, jobVars
    <2>10. CASE CreationFails(t)
      BY <2>10 DEF CreationFails, jobVars
    <2> QED
      BY <1>3, <2>1, <2>2, <2>3, <2>4, <2>5, <2>6, <2>7, <2>8, <2>9, <2>10 DEF ServiceStep, WriterStep
  <1>4. CASE UNCHANGED vars
    BY <1>4 DEF vars, jobVars, transformVars
  <1> QED
    BY <1>1, <1>2, <1>3, <1>4 DEF Next

(* What a thread has started was created for it. *)
LEMMA CreationsStep ==
  ASSUME TypeOK, CreationsAwaited, [Next]_vars
  PROVE  CreationsAwaited'
  <1> USE DEF TypeOK, CreationsAwaited
  <1>1. ASSUME NEW p \in Programs, MainStep(p)
        PROVE  CreationsAwaited'
    <2>1. UNCHANGED <<started, op>> /\ \A j \in Jobs : worker'[j] = worker[j] \/ worker'[j] = "starting"
      BY <1>1 DEF MainStep, UploadsEnd, GetAnalysis, CreateAnalysis, Submit, TransformsEnd,
                  ListProcesses, DeleteAnalysis, MainFails, jobVars, transformVars
    <2> QED
      BY <2>1
  <1>2. ASSUME NEW i \in Jobs, WorkerStep(i)
        PROVE  CreationsAwaited'
    <2>1. CASE Start(i)
      <3>1. started[i] \in Nat /\ started[i] < Len(TransformersOf[i[1]])
        BY <2>1 DEF Start
      <3>2. NextTransform(i) \in Transforms /\ JobOf(NextTransform(i)) = i
            /\ NextTransform(i)[3] = started[i] + 1
        BY <3>1, NextShape
      <3>3. \A j \in Jobs : worker'[j] = "creating" => started'[j] < Len(TransformersOf[j[1]])
        BY <2>1 DEF Start
      <3>4. ASSUME NEW t \in Transforms, t[3] <= started'[JobOf(t)], t # NextTransform(i)
            PROVE  op'[t] \notin {"none", "creating"}
        <4>1. t[3] <= started[JobOf(t)]
          <5>1. JobOf(t) # i => started'[JobOf(t)] = started[JobOf(t)]
            BY <2>1, TransformShape DEF Start
          <5>2. JobOf(t) = i => t[3] # started[i] + 1
            BY <3>4, TransformShape DEF NextTransform, JobOf
          <5>3. started'[i] = started[i] + 1 /\ t[3] \in Nat
            BY <2>1, TransformShape DEF Start
          <5> QED
            BY <3>1, <3>4, <5>1, <5>2, <5>3
        <4> QED
          BY <2>1, <3>4, <4>1 DEF Start
      <3>5. op'[NextTransform(i)] = "running"
        BY <2>1, <3>2 DEF Start
      <3> QED
        BY <3>3, <3>4, <3>5
    <2>2. CASE RequestProcess(i)
      <3>1. started[i] \in Nat /\ started[i] < Len(TransformersOf[i[1]])
        BY <2>2 DEF RequestProcess
      <3>2. NextTransform(i) \in Transforms /\ JobOf(NextTransform(i)) = i
            /\ NextTransform(i)[3] = started[i] + 1
        BY <3>1, NextShape
      <3> QED
        BY <2>2, <3>1, <3>2 DEF RequestProcess, WorkerIs
    <2>3. CASE ProcessCreated(i)
      <3>1. started[i] \in Nat /\ started[i] < Len(TransformersOf[i[1]])
        BY <2>3 DEF ProcessCreated
      <3>2. \A j \in Jobs : worker'[j] = "creating" => started'[j] < Len(TransformersOf[j[1]])
        BY <2>3 DEF ProcessCreated, WorkerIs
      <3>3. ASSUME NEW t \in Transforms, t[3] <= started'[JobOf(t)], t # NextTransform(i)
            PROVE  op'[t] \notin {"none", "creating"}
        <4>1. t[3] <= started[JobOf(t)]
          <5>1. JobOf(t) # i => started'[JobOf(t)] = started[JobOf(t)]
            BY <2>3, TransformShape DEF ProcessCreated
          <5>2. JobOf(t) = i => t[3] # started[i] + 1
            BY <3>3, TransformShape DEF NextTransform, JobOf
          <5>3. started'[i] = started[i] + 1 /\ t[3] \in Nat
            BY <2>3, TransformShape DEF ProcessCreated
          <5> QED
            BY <3>1, <3>3, <5>1, <5>2, <5>3
        <4> QED
          BY <2>3, <3>3, <4>1 DEF ProcessCreated, transformVars
      <3>4. op'[NextTransform(i)] \notin {"none", "creating"}
        BY <2>3 DEF ProcessCreated, transformVars
      <3> QED
        BY <3>2, <3>3, <3>4
    <2>4. CASE StartFails(i)
      <3>1. started[i] \in Nat /\ started[i] < Len(TransformersOf[i[1]])
        BY <2>4 DEF StartFails
      <3>2. NextTransform(i) \in Transforms /\ JobOf(NextTransform(i)) = i
            /\ NextTransform(i)[3] = started[i] + 1
        BY <3>1, NextShape
      <3>3. started' = started /\ \A j \in Jobs : worker'[j] = "creating" => worker[j] = "creating"
        BY <2>4 DEF StartFails, WorkerIs
      <3>4. \A t \in Transforms : t # NextTransform(i) => op'[t] = op[t]
        BY <2>4 DEF StartFails
      <3>5. \A t \in Transforms : t[3] <= started[JobOf(t)] => t # NextTransform(i)
        BY <3>1, <3>2
      <3> QED
        BY <3>3, <3>4, <3>5
    <2>5. CASE \/ CreateAsset(i) \/ Upload(i) \/ UploadFails(i) \/ AllStarted(i) \/ CombinedEnds(i)
               \/ GivesUp(i) \/ Index(i) \/ IndexFails(i)
      <3>1. UNCHANGED <<started, op>>
        BY <2>5 DEF CreateAsset, Upload, UploadFails, AllStarted, CombinedEnds, GivesUp, Index,
                    IndexFails, transformVars
      <3>2. \A j \in Jobs : worker'[j] = "creating" => worker[j] = "creating"
        BY <2>5 DEF CreateAsset, Upload, UploadFails, AllStarted, CombinedEnds, GivesUp, Index,
                    IndexFails, WorkerIs
      <3> QED
        BY <3>1, <3>2
    <2> QED
      BY <1>2, <2>1, <2>2, <2>3, <2>4, <2>5 DEF WorkerStep
  <1>3. ASSUME NEW t \in Transforms, ServiceStep(t) \/ WriterStep(t)
        PROVE  CreationsAwaited'
    <2>1. UNCHANGED <<worker, started>>
      BY <1>3 DEF ServiceStep, WriterStep, ProcessAppears, CreationFails, OperationEnds, CallBack,
                  WriteIsLost, WriteOne, WriterSucceeds, WriterFails, WriterDies, PollingFails, jobVars
    <2>2. \A s \in Transforms :
            op[s] \notin {"none", "creating"} => op'[s] \notin {"none", "creating"}
      BY <1>3 DEF ServiceStep, WriterStep, ProcessAppears, CreationFails, OperationEnds, CallBack,
                  WriteIsLost, WriteOne, WriterSucceeds, WriterFails, WriterDies, PollingFails
    <2> QED
      BY <2>1, <2>2
  <1>4. CASE UNCHANGED vars
    BY <1>4 DEF vars, jobVars, transformVars
  <1> QED
    BY <1>1, <1>2, <1>3, <1>4 DEF Next

(* Callbacks follow their operations. *)
LEMMA WritersStep ==
  ASSUME TypeOK, CreationsAwaited, WritersFollow, [Next]_vars
  PROVE  WritersFollow'
  <1> USE DEF TypeOK, WritersFollow
  <1>1. ASSUME NEW p \in Programs, MainStep(p)
        PROVE  WritersFollow'
    BY <1>1 DEF MainStep, UploadsEnd, GetAnalysis, CreateAnalysis, Submit, TransformsEnd,
                ListProcesses, DeleteAnalysis, MainFails, MainIs, jobVars, transformVars
  <1>2. ASSUME NEW i \in Jobs, WorkerStep(i)
        PROVE  WritersFollow'
    <2>1. CASE CreateAsset(i)
      BY <2>1 DEF CreateAsset, WorkerIs, jobVars, transformVars
    <2>2. CASE Upload(i)
      BY <2>2 DEF Upload, WorkerIs, jobVars, transformVars
    <2>3. CASE UploadFails(i)
      BY <2>3 DEF UploadFails, WorkerIs, jobVars, transformVars
    <2>4. CASE Start(i)
      <3>1. started[i] \in Nat /\ started[i] < Len(TransformersOf[i[1]])
        BY <2>4 DEF Start
      <3>2. NextTransform(i) \in Transforms /\ JobOf(NextTransform(i)) = i
            /\ NextTransform(i)[3] = started[i] + 1
        BY <3>1, NextShape
      <3> QED
        BY <2>4, <3>1, <3>2, TransformShape DEF Start, WorkerIs
    <2>5. CASE StartFails(i)
      <3>1. started[i] \in Nat /\ started[i] < Len(TransformersOf[i[1]])
        BY <2>5 DEF StartFails, CreationsAwaited
      <3>2. NextTransform(i) \in Transforms /\ JobOf(NextTransform(i)) = i
            /\ NextTransform(i)[3] = started[i] + 1
        BY <3>1, NextShape
      <3> QED
        BY <2>5, <3>1, <3>2, TransformShape DEF StartFails, WorkerIs
    <2>6. CASE AllStarted(i)
      BY <2>6 DEF AllStarted, WorkerIs, jobVars, transformVars
    <2>7. CASE CombinedEnds(i)
      BY <2>7 DEF CombinedEnds, WorkerIs, jobVars, transformVars
    <2>8. CASE GivesUp(i)
      BY <2>8 DEF GivesUp, WorkerIs, jobVars, transformVars
    <2>9. CASE Index(i)
      BY <2>9 DEF Index, WorkerIs, jobVars, transformVars
    <2>10. CASE IndexFails(i)
      BY <2>10 DEF IndexFails, WorkerIs, jobVars, transformVars
    <2>11. CASE RequestProcess(i)
      <3>1. started[i] \in Nat /\ started[i] < Len(TransformersOf[i[1]])
        BY <2>11 DEF RequestProcess
      <3>2. NextTransform(i) \in Transforms /\ JobOf(NextTransform(i)) = i
            /\ NextTransform(i)[3] = started[i] + 1
        BY <3>1, NextShape
      <3> QED
        BY <2>11, <3>1, <3>2, TransformShape DEF RequestProcess, WorkerIs
    <2>12. CASE ProcessCreated(i)
      BY <2>12, TransformShape DEF ProcessCreated, WorkerIs, transformVars
    <2> QED
      BY <1>2, <2>1, <2>2, <2>3, <2>4, <2>5, <2>6, <2>7, <2>8, <2>9, <2>10, <2>11, <2>12
         DEF WorkerStep
  <1>3. ASSUME NEW t \in Transforms, ServiceStep(t) \/ WriterStep(t)
        PROVE  WritersFollow'
    <2>1. CASE OperationEnds(t)
      BY <2>1 DEF OperationEnds, WriterIs, jobVars
    <2>2. CASE CallBack(t)
      BY <2>2 DEF CallBack, WriterIs, jobVars
    <2>3. CASE WriteIsLost(t)
      BY <2>3 DEF WriteIsLost, WriterIs, jobVars
    <2>4. CASE WriteOne(t)
      BY <2>4 DEF WriteOne, WriterIs, jobVars
    <2>5. CASE WriterSucceeds(t)
      BY <2>5 DEF WriterSucceeds, WriterIs, jobVars
    <2>6. CASE WriterFails(t)
      BY <2>6 DEF WriterFails, WriterIs, jobVars
    <2>7. CASE WriterDies(t)
      BY <2>7 DEF WriterDies, WriterIs, jobVars
    <2>8. CASE PollingFails(t)
      BY <2>8 DEF PollingFails, WriterIs, jobVars
    <2>9. CASE ProcessAppears(t)
      BY <2>9 DEF ProcessAppears, jobVars
    <2>10. CASE CreationFails(t)
      BY <2>10 DEF CreationFails, jobVars
    <2> QED
      BY <1>3, <2>1, <2>2, <2>3, <2>4, <2>5, <2>6, <2>7, <2>8, <2>9, <2>10 DEF ServiceStep, WriterStep
  <1>4. CASE UNCHANGED vars
    BY <1>4 DEF vars, jobVars, transformVars
  <1> QED
    BY <1>1, <1>2, <1>3, <1>4 DEF Next

(* Success is reported only for what has been done. *)
LEMMA SuccessStep ==
  ASSUME TypeOK, CreationsAwaited, WritersFollow, SuccessIsEarned, [Next]_vars
  PROVE  SuccessIsEarned'
  <1> USE DEF TypeOK, SuccessIsEarned
  <1>1. ASSUME NEW p \in Programs, MainStep(p)
        PROVE  SuccessIsEarned'
    <2>1. CASE UploadsEnd(p)
      BY <2>1 DEF UploadsEnd, MainIs, jobVars, transformVars
    <2>2. CASE GetAnalysis(p)
      BY <2>2 DEF GetAnalysis, MainIs, jobVars, transformVars
    <2>3. CASE CreateAnalysis(p)
      BY <2>3 DEF CreateAnalysis, MainIs, jobVars, transformVars
    <2>4. CASE Submit(p)
      BY <2>4 DEF Submit, MainIs, jobVars, transformVars
    <2>5. CASE TransformsEnd(p)
      BY <2>5 DEF TransformsEnd, MainIs, jobVars, transformVars
    <2>6. CASE ListProcesses(p)
      BY <2>6 DEF ListProcesses, MainIs, jobVars, transformVars
    <2>7. CASE DeleteAnalysis(p)
      BY <2>7 DEF DeleteAnalysis, MainIs, jobVars, transformVars
    <2>8. CASE MainFails(p)
      BY <2>8 DEF MainFails, MainIs, jobVars, transformVars
    <2> QED
      BY <1>1, <2>1, <2>2, <2>3, <2>4, <2>5, <2>6, <2>7, <2>8 DEF MainStep
  <1>2. ASSUME NEW i \in Jobs, WorkerStep(i)
        PROVE  SuccessIsEarned'
    <2>1. CASE CreateAsset(i)
      BY <2>1 DEF CreateAsset, WorkerIs, jobVars, transformVars
    <2>2. CASE Upload(i)
      BY <2>2 DEF Upload, WorkerIs, jobVars, transformVars
    <2>3. CASE UploadFails(i)
      BY <2>3 DEF UploadFails, WorkerIs, jobVars, transformVars
    <2>4. CASE Start(i)
      <3>1. started[i] \in Nat /\ started[i] < Len(TransformersOf[i[1]])
        BY <2>4 DEF Start
      <3>2. NextTransform(i) \in Transforms /\ JobOf(NextTransform(i)) = i
            /\ NextTransform(i)[3] = started[i] + 1
        BY <3>1, NextShape
      <3> QED
        BY <2>4, <3>1, <3>2, TransformShape DEF Start, WorkerIs
    <2>5. CASE StartFails(i)
      <3>1. started[i] \in Nat /\ started[i] < Len(TransformersOf[i[1]])
        BY <2>5 DEF StartFails, CreationsAwaited
      <3>2. NextTransform(i) \in Transforms /\ JobOf(NextTransform(i)) = i
            /\ NextTransform(i)[3] = started[i] + 1
        BY <3>1, NextShape
      <3> QED
        BY <2>5, <3>1, <3>2, TransformShape DEF StartFails, WorkerIs
    <2>6. CASE AllStarted(i)
      BY <2>6 DEF AllStarted, WorkerIs, jobVars, transformVars
    <2>7. CASE CombinedEnds(i)
      <3>1. ASSUME worker'[i] = "indexing", NEW t \in Transforms, JobOf(t) = i
            PROVE  op[t] = "succeeded" /\ (KindOf(t) = "write" => writer[t] = "succeeded")
        <4>1. IsDone(t) /\ ~HasFailed(t)
          BY <2>7, <3>1 DEF CombinedEnds, WorkerIs, AllDone, Raises, TransformsOf
        <4> QED
          BY <4>1 DEF IsDone, HasFailed, WritersFollow
      <3> QED
        BY <2>7, <3>1 DEF CombinedEnds, WorkerIs, transformVars
    <2>8. CASE GivesUp(i)
      BY <2>8 DEF GivesUp, WorkerIs, jobVars, transformVars
    <2>9. CASE Index(i)
      BY <2>9 DEF Index, WorkerIs, jobVars, transformVars
    <2>10. CASE IndexFails(i)
      BY <2>10 DEF IndexFails, WorkerIs, jobVars, transformVars
    <2>11. CASE RequestProcess(i)
      <3>1. started[i] \in Nat /\ started[i] < Len(TransformersOf[i[1]])
        BY <2>11 DEF RequestProcess
      <3>2. NextTransform(i) \in Transforms /\ JobOf(NextTransform(i)) = i
            /\ NextTransform(i)[3] = started[i] + 1
        BY <3>1, NextShape
      <3> QED
        BY <2>11, <3>1, <3>2, TransformShape DEF RequestProcess, WorkerIs
    <2>12. CASE ProcessCreated(i)
      BY <2>12, TransformShape DEF ProcessCreated, WorkerIs, transformVars
    <2> QED
      BY <1>2, <2>1, <2>2, <2>3, <2>4, <2>5, <2>6, <2>7, <2>8, <2>9, <2>10, <2>11, <2>12
         DEF WorkerStep
  <1>3. ASSUME NEW t \in Transforms, ServiceStep(t) \/ WriterStep(t)
        PROVE  SuccessIsEarned'
    <2>1. CASE OperationEnds(t)
      BY <2>1 DEF OperationEnds, WriterIs, jobVars
    <2>2. CASE CallBack(t)
      BY <2>2 DEF CallBack, WriterIs, jobVars
    <2>3. CASE WriteIsLost(t)
      BY <2>3 DEF WriteIsLost, WriterIs, jobVars
    <2>4. CASE WriteOne(t)
      BY <2>4 DEF WriteOne, WriterIs, jobVars
    <2>5. CASE WriterSucceeds(t)
      BY <2>5 DEF WriterSucceeds, WriterIs, jobVars
    <2>6. CASE WriterFails(t)
      BY <2>6 DEF WriterFails, WriterIs, jobVars
    <2>7. CASE WriterDies(t)
      BY <2>7 DEF WriterDies, WriterIs, jobVars
    <2>8. CASE PollingFails(t)
      BY <2>8 DEF PollingFails, WriterIs, jobVars
    <2>9. CASE ProcessAppears(t)
      BY <2>9 DEF ProcessAppears, jobVars
    <2>10. CASE CreationFails(t)
      BY <2>10 DEF CreationFails, jobVars
    <2> QED
      BY <1>3, <2>1, <2>2, <2>3, <2>4, <2>5, <2>6, <2>7, <2>8, <2>9, <2>10 DEF ServiceStep, WriterStep
  <1>4. CASE UNCHANGED vars
    BY <1>4 DEF vars, jobVars, transformVars
  <1> QED
    BY <1>1, <1>2, <1>3, <1>4 DEF Next

(* A program tears down after its threads. *)
LEMMA TeardownStep ==
  ASSUME TypeOK, CreationsAwaited, TeardownIsLast, [Next]_vars
  PROVE  TeardownIsLast'
  <1> USE DEF TypeOK, TeardownIsLast, Ends
  <1>1. ASSUME NEW p \in Programs, MainStep(p)
        PROVE  TeardownIsLast'
    <2>1. CASE UploadsEnd(p)
      BY <2>1 DEF UploadsEnd, MainIs, jobVars, transformVars
    <2>2. CASE GetAnalysis(p)
      BY <2>2 DEF GetAnalysis, MainIs, jobVars, transformVars
    <2>3. CASE CreateAnalysis(p)
      BY <2>3 DEF CreateAnalysis, MainIs, jobVars, transformVars
    <2>4. CASE Submit(p)
      BY <2>4 DEF Submit, MainIs, jobVars, transformVars
    <2>5. CASE TransformsEnd(p)
      BY <2>5, JobShape DEF TransformsEnd, JobsOf, MainIs, jobVars, transformVars
    <2>6. CASE ListProcesses(p)
      <3>1. ASSUME NEW t \in Transforms, main'[t[1]] = "deleting", KindOf(t) = "lva",
                   t[3] <= started[JobOf(t)], op[t] = "running"
            PROVE  FALSE
        <4>1. t \in Incomplete
          BY <3>1 DEF Incomplete
        <4>2. t[1] # p
          BY <2>6, <3>1, <4>1 DEF ListProcesses, MainIs
        <4> QED
          BY <2>6, <3>1, <4>2, TransformShape DEF ListProcesses, MainIs
      <3> QED
        BY <2>6, <3>1 DEF ListProcesses, MainIs, jobVars, transformVars
    <2>7. CASE DeleteAnalysis(p)
      BY <2>7 DEF DeleteAnalysis, MainIs, jobVars, transformVars
    <2>8. CASE MainFails(p)
      BY <2>8 DEF MainFails, MainIs, jobVars, transformVars
    <2> QED
      BY <1>1, <2>1, <2>2, <2>3, <2>4, <2>5, <2>6, <2>7, <2>8 DEF MainStep
  <1>2. ASSUME NEW i \in Jobs, WorkerStep(i)
        PROVE  TeardownIsLast'
    <2>1. CASE CreateAsset(i)
      BY <2>1 DEF CreateAsset, WorkerIs, jobVars, transformVars
    <2>2. CASE Upload(i)
      BY <2>2 DEF Upload, WorkerIs, jobVars, transformVars
    <2>3. CASE UploadFails(i)
      BY <2>3 DEF UploadFails, WorkerIs, jobVars, transformVars
    <2>4. CASE Start(i)
      <3>1. started[i] \in Nat /\ started[i] < Len(TransformersOf[i[1]])
        BY <2>4 DEF Start
      <3>2. NextTransform(i) \in Transforms /\ JobOf(NextTransform(i)) = i
            /\ NextTransform(i)[3] = started[i] + 1
        BY <3>1, NextShape
      <3>3. NextTransform(i)[1] = i[1] /\ main[i[1]] \notin {"listing", "deleting"}
        BY <2>4, <3>2, TransformShape DEF Start
      <3>4. \A j \in Jobs : main'[j[1]] \in {"listing", "deleting"} => worker'[j] \in Ends
        BY <2>4, <3>3 DEF Start, WorkerIs
      <3>5. ASSUME NEW t \in Transforms, main'[t[1]] = "deleting", KindOf(t) = "lva",
                   t[3] <= started'[JobOf(t)]
            PROVE  op'[t] # "running"
        <4>1. JobOf(t) \in Jobs /\ JobOf(t) # i /\ t # NextTransform(i) /\ main' = main
          BY <2>4, <3>2, <3>3, <3>5, TransformShape DEF Start
        <4>2. started'[JobOf(t)] = started[JobOf(t)] /\ op'[t] = op[t]
          BY <2>4, <4>1 DEF Start
        <4> QED
          BY <3>5, <4>1, <4>2
      <3> QED
        BY <3>4, <3>5
    <2>5. CASE StartFails(i)
      <3>1. started[i] \in Nat /\ started[i] < Len(TransformersOf[i[1]])
        BY <2>5 DEF StartFails, CreationsAwaited
      <3>2. NextTransform(i) \in Transforms /\ JobOf(NextTransform(i)) = i
            /\ NextTransform(i)[3] = started[i] + 1
        BY <3>1, NextShape
      <3>3. NextTransform(i)[1] = i[1] /\ main[i[1]] \notin {"listing", "deleting"}
        BY <2>5, <3>2, TransformShape DEF StartFails
      <3>4. \A j \in Jobs : main'[j[1]] \in {"listing", "deleting"} => worker'[j] \in Ends
        BY <2>5, <3>3 DEF StartFails, WorkerIs
      <3>5. \A t \in Transforms :
              main'[t[1]] = "deleting" /\ KindOf(t) = "lva" /\ t[3] <= started'[JobOf(t)] =>
                op'[t] # "running"
        BY <2>5, <3>2, <3>3 DEF StartFails, WorkerIs
      <3> QED
        BY <3>4, <3>5
    <2>6. CASE AllStarted(i)
      BY <2>6 DEF AllStarted, WorkerIs, jobVars, transformVars
    <2>7. CASE CombinedEnds(i)
      BY <2>7 DEF CombinedEnds, WorkerIs, jobVars, transformVars
    <2>8. CASE GivesUp(i)
      BY <2>8 DEF GivesUp, WorkerIs, jobVars, transformVars
    <2>9. CASE Index(i)
      BY <2>9 DEF Index, WorkerIs, jobVars, transformVars
    <2>10. CASE IndexFails(i)
      BY <2>10 DEF IndexFails, WorkerIs, jobVars, transformVars
    <2>11. CASE RequestProcess(i)
      <3>1. started[i] \in Nat /\ started[i] < Len(TransformersOf[i[1]])
        BY <2>11 DEF RequestProcess
      <3>2. NextTransform(i) \in Transforms /\ JobOf(NextTransform(i)) = i
            /\ NextTransform(i)[3] = started[i] + 1
        BY <3>1, NextShape
      <3>3. \A j \in Jobs : main'[j[1]] \in {"listing", "deleting"} => worker'[j] \in Ends
        BY <2>11, <3>1 DEF RequestProcess, WorkerIs
      <3>4. \A t \in Transforms : op'[t] = "running" => op[t] = "running"
        BY <2>11, <3>2 DEF RequestProcess
      <3> QED
        BY <2>11, <3>3, <3>4 DEF RequestProcess
    <2>12. CASE ProcessCreated(i)
      <3>1. \A j \in Jobs : main'[j[1]] \in {"listing", "deleting"} => worker'[j] \in Ends
        BY <2>12 DEF ProcessCreated, WorkerIs, transformVars
      <3>2. main[i[1]] \notin {"listing", "deleting"}
        BY <2>12 DEF ProcessCreated
      <3>3. ASSUME NEW t \in Transforms, main'[t[1]] = "deleting", KindOf(t) = "lva",
                   t[3] <= started'[JobOf(t)]
            PROVE  op'[t] # "running"
        <4>1. JobOf(t) \in Jobs /\ JobOf(t) # i /\ main'[t[1]] = main[t[1]]
          BY <2>12, <3>2, <3>3, TransformShape DEF ProcessCreated
        <4>2. started'[JobOf(t)] = started[JobOf(t)] /\ op' = op
          BY <2>12, <4>1 DEF ProcessCreated, transformVars
        <4> QED
          BY <3>3, <4>1, <4>2
      <3> QED
        BY <3>1, <3>3
    <2> QED
      BY <1>2, <2>1, <2>2, <2>3, <2>4, <2>5, <2>6, <2>7, <2>8, <2>9, <2>10, <2>11, <2>12
         DEF WorkerStep
  <1>3. ASSUME NEW t \in Transforms, ServiceStep(t) \/ WriterStep(t)
        PROVE  TeardownIsLast'
    <2>1. CASE OperationEnds(t)
      BY <2>1 DEF OperationEnds, WriterIs, jobVars
    <2>2. CASE CallBack(t)
      BY <2>2 DEF CallBack, WriterIs, jobVars
    <2>3. CASE WriteIsLost(t)
      BY <2>3 DEF WriteIsLost, WriterIs, jobVars
    <2>4. CASE WriteOne(t)
      BY <2>4 DEF WriteOne, WriterIs, jobVars
    <2>5. CASE WriterSucceeds(t)
      BY <2>5 DEF WriterSucceeds, WriterIs, jobVars
    <2>6. CASE WriterFails(t)
      BY <2>6 DEF WriterFails, WriterIs, jobVars
    <2>7. CASE WriterDies(t)
      BY <2>7 DEF WriterDies, WriterIs, jobVars
    <2>8. CASE PollingFails(t)
      BY <2>8 DEF PollingFails, WriterIs, jobVars
    <2>9. CASE ProcessAppears(t)
      BY <2>9 DEF ProcessAppears, CreationsAwaited, jobVars
    <2>10. CASE CreationFails(t)
      BY <2>10 DEF CreationFails, jobVars
    <2> QED
      BY <1>3, <2>1, <2>2, <2>3, <2>4, <2>5, <2>6, <2>7, <2>8, <2>9, <2>10 DEF ServiceStep, WriterStep
  <1>4. CASE UNCHANGED vars
    BY <1>4 DEF vars, jobVars, transformVars
  <1> QED
    BY <1>1, <1>2, <1>3, <1>4 DEF Next

-----------------------------------------------------------------------------
(* What the initial states and every step give. *)
LEMMA TransformInduction == Spec => []TransformInv
  <1>1. Init => TransformInv
    <2> SUFFICES ASSUME Init PROVE TransformInv
      OBVIOUS
    <2>1. \A j \in Jobs : started[j] <= Len(TransformersOf[j[1]])
      <3> SUFFICES ASSUME NEW j \in Jobs PROVE 0 <= Len(TransformersOf[j[1]])
        BY DEF Init
      <3>1. TransformersOf[j[1]] \in Seq({"lro", "write", "lva"})
        BY JobShape, TransformersAssumption
      <3> QED
        BY <3>1
    <2>2. TypeOK
      <3>1. 0 \in 0 .. Annotations /\ 0 \in 0 .. MaxStored
        BY AnnotationsAssumption
      <3>2. written \in [Transforms -> 0 .. Annotations] /\ stored \in [Transforms -> 0 .. MaxStored]
        BY <3>1 DEF Init
      <3>3. worker \in [Jobs -> {"new"}] /\ main \in [Programs -> {"uploading"}]
        BY DEF Init
      <3>4. op \in [Transforms -> {"none"}] /\ writer \in [Transforms -> {"none"}]
        BY DEF Init
      <3>5. started \in [Jobs -> Nat] /\ indexed \in [Jobs -> BOOLEAN] /\ analysis \in BOOLEAN
        BY DEF Init
      <3> QED
        BY <2>1, <3>2, <3>3, <3>4, <3>5 DEF TypeOK
    <2>3. StoredCounts
      BY AnnotationsAssumption DEF Init, StoredCounts
    <2>4. WritersFollow
      BY DEF Init, WritersFollow
    <2>5. SuccessIsEarned
      BY DEF Init, SuccessIsEarned
    <2>6. TeardownIsLast
      BY JobShape, TransformShape DEF Init, TeardownIsLast
    <2>7. CreationsAwaited
      BY TransformShape DEF Init, CreationsAwaited
    <2> QED
      BY <2>2, <2>3, <2>4, <2>5, <2>6, <2>7 DEF TransformInv
  <1>2. TransformInv /\ [Next]_vars => TransformInv'
    BY TypeStep, CreationsStep, WritersStep, SuccessStep, TeardownStep DEF TransformInv
  <1> QED
    BY <1>1, <1>2, PTL DEF Spec

(* Every variable keeps its type; no callback stores more than the bound.      *)
THEOREM TypeCorrect == Spec => []TypeOK
  BY TransformInduction, PTL DEF TransformInv

(* An asset is indexed, and reported as transformed, only when all of its      *)
(* transforms have finished without an error and every annotation is in the    *)
(* warehouse, whatever fails, gives up or dies on the way.                     *)
THEOREM SuccessIsWritten == Spec => []SuccessMeansWritten
  <1>1. TransformInv => SuccessMeansWritten
    BY DEF TransformInv, TypeOK, StoredCounts, WritersFollow, SuccessIsEarned,
           SuccessMeansWritten, TransformsOf
  <1> QED
    BY <1>1, TransformInduction, PTL

(* A program never deletes the analysis while a process that its threads have  *)
(* created, and waited for until it existed, is under way in it.               *)
THEOREM OwnProcessesStay == Spec => OwnProcessesAreSpared
  <1>1. TransformInv /\ [Next]_vars =>
          [\A p \in Programs :
             DeleteAnalysis(p) =>
               \A t \in Transforms :
                 t[1] = p /\ KindOf(t) = "lva" /\ t[3] <= started[JobOf(t)] =>
                   op[t] # "running"]_vars
    BY DEF TransformInv, TeardownIsLast, DeleteAnalysis
  <1> QED
    BY <1>1, TransformInduction, PTL DEF Spec, OwnProcessesAreSpared
=============================================================================
