----------------------------- MODULE AssetTransform -----------------------------
(* Programs that bring files into a warehouse (transform_gcs_files.py): every  *)
(* program uploads its assets on the threads of a pool, initializes its        *)
(* transformers, transforms and indexes the uploaded assets on the threads,    *)
(* and tears the transformers down.  A transform is an operation of a service, *)
(* waited for by the thread:                                                   *)
(*   "lro"    an operation of the warehouse (EmbeddingTransformer);            *)
(*   "write"  an operation of Video Intelligence whose result a callback of    *)
(*            the operation's polling thread writes to the warehouse, one      *)
(*            annotation after the other (speech, and OCR by default);         *)
(*   "lva"    a process of an analysis that the programs of a cluster share    *)
(*            (OCR by live video analytics).                                   *)
(* The services are external: calls fail at any time, operations end with a    *)
(* result or an error or not at all, and a call may be executed although its   *)
(* reply is lost.  A process is created by an operation of its own, which may  *)
(* end long after the thread has stopped waiting for it.                       *)
EXTENDS Integers, Sequences, FiniteSets

CONSTANTS
  Programs,
  AssetsOf,        \* the files of every program
  TransformersOf,  \* the kinds of its transformers, in the order they are run
  Annotations,     \* how many annotations an operation results in
  MaxStored        \* bound: what the attempts to write them store

ASSUME AnnotationsAssumption ==
  /\ Annotations \in Nat \ {0}
  /\ MaxStored \in Nat
  /\ MaxStored >= Annotations

ASSUME TransformersAssumption ==
  \A p \in Programs : TransformersOf[p] \in Seq({"lro", "write", "lva"})

VARIABLES
  main,      \* what the main thread of a program does
  worker,    \* what the thread of an asset does
  started,   \* how many transforms the thread has started
  op,        \* the operation behind a transform
  writer,    \* the callback that writes its result
  written,   \* the annotations whose write has returned
  stored,    \* the annotations that the warehouse has, duplicates included
  indexed,   \* what the warehouse had for the asset when it was indexed
  analysis   \* whether the shared analysis exists
jobVars == <<worker, started, indexed>>
transformVars == <<op, writer, written, stored>>
vars == <<main, jobVars, transformVars, analysis>>

Jobs == UNION {{<<p, a>> : a \in AssetsOf[p]} : p \in Programs}
Transforms == UNION {{<<j[1], j[2], k>> : k \in DOMAIN TransformersOf[j[1]]} : j \in Jobs}
KindOf(t) == TransformersOf[t[1]][t[3]]
JobOf(t) == <<t[1], t[2]>>
JobsOf(p) == {j \in Jobs : j[1] = p}
TransformsOf(j) == {t \in Transforms : JobOf(t) = j}
UsesAnalysis(p) == \E k \in DOMAIN TransformersOf[p] : TransformersOf[p][k] = "lva"

Init ==
  /\ main = [p \in Programs |-> "uploading"]
  /\ worker = [j \in Jobs |-> "new"]
  /\ started = [j \in Jobs |-> 0]
  /\ op = [t \in Transforms |-> "none"]
  /\ writer = [t \in Transforms |-> "none"]
  /\ written = [t \in Transforms |-> 0]
  /\ stored = [t \in Transforms |-> 0]
  /\ indexed = [j \in Jobs |-> FALSE]
  /\ analysis = FALSE

MainIs(p, state) == main' = [main EXCEPT ![p] = state]
WorkerIs(j, state) == worker' = [worker EXCEPT ![j] = state]

-----------------------------------------------------------------------------
(* create_and_upload_asset; how often create_asset is executed is GapicCall's. *)
CreateAsset(j) ==
  /\ worker[j] = "new"
  /\ WorkerIs(j, "created")
  /\ UNCHANGED <<main, started, indexed, transformVars, analysis>>

Upload(j) ==
  /\ worker[j] = "created"
  /\ WorkerIs(j, "uploaded")
  /\ UNCHANGED <<main, started, indexed, transformVars, analysis>>

UploadFails(j) ==
  /\ worker[j] \in {"new", "created"}
  /\ WorkerIs(j, "dropped")
  /\ UNCHANGED <<main, started, indexed, transformVars, analysis>>

(* futures.wait(ALL_COMPLETED); files that failed are logged and left out.     *)
UploadsEnd(p) ==
  /\ main[p] = "uploading"
  /\ \A j \in JobsOf(p) : worker[j] \in {"uploaded", "dropped"}
  /\ MainIs(p, IF UsesAnalysis(p) THEN "getting" ELSE "initialized")
  /\ UNCHANGED <<jobVars, transformVars, analysis>>

-----------------------------------------------------------------------------
(* get_or_create_analysis: another program may create it between the two calls *)
(* and then create_analysis raises AlreadyExists, which nobody handles.  It    *)
(* may also raise for an analysis that it creates.                             *)
GetAnalysis(p) ==
  /\ main[p] = "getting"
  /\ MainIs(p, IF analysis THEN "initialized" ELSE "creating")
  /\ UNCHANGED <<jobVars, transformVars, analysis>>

CreateAnalysis(p) ==
  /\ main[p] = "creating"
  /\ \E state \in {"initialized", "crashed"} : (analysis => state = "crashed") /\ MainIs(p, state)
  /\ analysis' = TRUE
  /\ UNCHANGED <<jobVars, transformVars>>

Submit(p) ==
  /\ main[p] = "initialized"
  /\ MainIs(p, "transforming")
  /\ worker' = [j \in Jobs |-> IF j[1] = p /\ worker[j] = "uploaded" THEN "starting" ELSE worker[j]]
  /\ UNCHANGED <<started, indexed, transformVars, analysis>>

-----------------------------------------------------------------------------
(* transform_single_asset *)
NextTransform(j) == <<j[1], j[2], started[j] + 1>>

Start(j) ==
  /\ worker[j] = "starting"
  /\ started[j] < Len(TransformersOf[j[1]])
  /\ KindOf(NextTransform(j)) # "lva"
  /\ started' = [started EXCEPT ![j] = @ + 1]
  /\ op' = [op EXCEPT ![NextTransform(j)] = "running"]
  /\ writer' = [writer EXCEPT ![NextTransform(j)] =
                  IF KindOf(NextTransform(j)) = "write" THEN "waiting" ELSE "none"]
  /\ UNCHANGED <<main, worker, indexed, written, stored, analysis>>

(* create_process: the request starts an operation, and the thread waits for   *)
(* the operation's end, by which the process exists.                           *)
RequestProcess(j) ==
  /\ worker[j] = "starting"
  /\ started[j] < Len(TransformersOf[j[1]])
  /\ KindOf(NextTransform(j)) = "lva"
  /\ analysis
  /\ WorkerIs(j, "creating")
  /\ op' = [op EXCEPT ![NextTransform(j)] = "creating"]
  /\ UNCHANGED <<main, started, indexed, writer, written, stored, analysis>>

ProcessCreated(j) ==
  /\ worker[j] = "creating"
  /\ op[NextTransform(j)] \notin {"none", "creating"}
  /\ WorkerIs(j, "starting")
  /\ started' = [started EXCEPT ![j] = @ + 1]
  /\ UNCHANGED <<main, indexed, transformVars, analysis>>

(* The exception leaves the thread; the transforms started so far go on, and   *)
(* the one that failed does if only the reply was lost, or if the wait for the *)
(* creation of its process ended before the creation did.                      *)
StartFails(j) ==
  /\ \/ /\ worker[j] = "starting"
        /\ started[j] < Len(TransformersOf[j[1]])
        /\ \/ UNCHANGED op
           \/ /\ KindOf(NextTransform(j)) # "lva"
              /\ op' = [op EXCEPT ![NextTransform(j)] = "running"]
           \/ /\ KindOf(NextTransform(j)) = "lva" /\ analysis
              /\ op' = [op EXCEPT ![NextTransform(j)] = "creating"]
     \/ worker[j] = "creating" /\ UNCHANGED op
  /\ WorkerIs(j, "failed")
  /\ UNCHANGED <<main, started, indexed, writer, written, stored, analysis>>

AllStarted(j) ==
  /\ worker[j] = "starting"
  /\ started[j] = Len(TransformersOf[j[1]])
  /\ WorkerIs(j, "waiting")
  /\ UNCHANGED <<main, started, indexed, transformVars, analysis>>

(* done() of a TransformProgress: whether its result or exception is set. *)
IsDone(t) ==
  IF KindOf(t) = "write" THEN writer[t] \in {"succeeded", "failed"} ELSE op[t] \in {"succeeded", "failed"}
HasFailed(t) == IF KindOf(t) = "write" THEN writer[t] = "failed" ELSE op[t] = "failed"

(* Mutant of Raises: only the transform that was started first is asked.       *)
MutRaises(j) == \E t \in TransformsOf(j) : t[3] = 1 /\ HasFailed(t)

(* CombinedTransformProgress waits for all its transforms, also when one has   *)
(* failed, and raises the error of the first that did.                         *)
AllDone(j) == \A t \in TransformsOf(j) : IsDone(t)
Raises(j) == \E t \in TransformsOf(j) : HasFailed(t)

CombinedEnds(j) ==
  /\ worker[j] = "waiting"
  /\ AllDone(j)
  /\ WorkerIs(j, IF Raises(j) THEN "failed" ELSE "indexing")
  /\ UNCHANGED <<main, started, indexed, transformVars, analysis>>

(* Mutant of GivesUp: the wait has no deadline.                                *)
MutGivesUp(j) ==
  /\ worker[j] = "waiting"
  /\ Raises(j)
  /\ WorkerIs(j, "failed")
  /\ UNCHANGED <<main, started, indexed, transformVars, analysis>>

(* The deadline of the wait passes, or a poll raises an error that is not      *)
(* retried: the thread ends and what it waited for goes on.                    *)
GivesUp(j) ==
  /\ worker[j] = "waiting"
  /\ WorkerIs(j, "failed")
  /\ UNCHANGED <<main, started, indexed, transformVars, analysis>>

Index(j) ==
  /\ worker[j] = "indexing"
  /\ indexed' = [indexed EXCEPT ![j] = TRUE]
  /\ WorkerIs(j, "succeeded")
  /\ UNCHANGED <<main, started, transformVars, analysis>>

IndexFails(j) ==
  /\ worker[j] = "indexing"
  /\ WorkerIs(j, "failed")
  /\ UNCHANGED <<main, started, indexed, transformVars, analysis>>

-----------------------------------------------------------------------------
(* A process is listed once it is created, whoever waits for it by then.       *)
ProcessAppears(t) ==
  /\ op[t] = "creating"
  /\ analysis
  /\ op' = [op EXCEPT ![t] = "running"]
  /\ UNCHANGED <<main, jobVars, writer, written, stored, analysis>>

CreationFails(t) ==
  /\ op[t] = "creating"
  /\ op' = [op EXCEPT ![t] = "none"]
  /\ UNCHANGED <<main, jobVars, writer, written, stored, analysis>>

OperationEnds(t) ==
  /\ op[t] = "running"
  /\ \E end \in {"succeeded", "failed"} : op' = [op EXCEPT ![t] = end]
  /\ UNCHANGED <<main, jobVars, writer, written, stored, analysis>>

WriterIs(t, state) == writer' = [writer EXCEPT ![t] = state]

(* The polling thread of the operation has seen its end and runs the callback: *)
(* result() returns, or raises an error that the callback reports.             *)
CallBack(t) ==
  /\ writer[t] = "waiting"
  /\ op[t] \in {"succeeded", "failed"}
  /\ WriterIs(t, IF op[t] = "succeeded" THEN "writing" ELSE "failed")
  /\ UNCHANGED <<main, jobVars, op, written, stored, analysis>>

(* create_annotation is retried: an attempt whose reply is lost stores the     *)
(* annotation, and the next one stores it again.                               *)
WriteIsLost(t) ==
  /\ writer[t] = "writing"
  /\ written[t] < Annotations
  /\ stored[t] + Annotations - written[t] < MaxStored
  /\ stored' = [stored EXCEPT ![t] = @ + 1]
  /\ UNCHANGED <<main, jobVars, op, writer, written, analysis>>

(* Mutant of WriteOne: it does not stop after the last annotation.             *)
MutWriteOne(t) ==
  /\ writer[t] = "writing"
  /\ written' = [written EXCEPT ![t] = @ + 1]
  /\ stored' = [stored EXCEPT ![t] = IF @ < MaxStored THEN @ + 1 ELSE @]
  /\ UNCHANGED <<main, jobVars, op, writer, analysis>>

WriteOne(t) ==
  /\ writer[t] = "writing"
  /\ written[t] < Annotations
  /\ written' = [written EXCEPT ![t] = @ + 1]
  /\ stored' = [stored EXCEPT ![t] = @ + 1]
  /\ UNCHANGED <<main, jobVars, op, writer, analysis>>

WriterSucceeds(t) ==
  /\ writer[t] = "writing"
  /\ written[t] = Annotations
  /\ WriterIs(t, "succeeded")
  /\ UNCHANGED <<main, jobVars, op, written, stored, analysis>>

(* A GoogleAPICallError becomes the exception of the progress. *)
WriterFails(t) ==
  /\ writer[t] = "writing"
  /\ written[t] < Annotations
  /\ WriterIs(t, "failed")
  /\ UNCHANGED <<main, jobVars, op, written, stored, analysis>>

(* Anything else ends the callback and sets nothing: the RetryError of a write *)
(* whose deadline has passed, or an exception of construct_annotations.  The   *)
(* end of the program ends this daemon thread at any time.                     *)
WriterDies(t) ==
  /\ writer[t] = "writing"
  /\ written[t] < Annotations \/ main[t[1]] \in {"ended", "crashed"}
  /\ WriterIs(t, "dead")
  /\ UNCHANGED <<main, jobVars, op, written, stored, analysis>>

(* A poll raises an error that is not retried, or the program ends: the        *)
(* polling thread ends and the callback is never run.                          *)
PollingFails(t) ==
  /\ writer[t] = "waiting"
  /\ WriterIs(t, "unpolled")
  /\ UNCHANGED <<main, jobVars, op, written, stored, analysis>>

-----------------------------------------------------------------------------
(* Mutant of Incomplete: only processes that have failed are found.            *)
MutIncomplete == {t \in Transforms : KindOf(t) = "lva" /\ op[t] = "failed"}

(* teardown: the analysis is deleted when no process is under way in it by the *)
(* time they are listed.                                                       *)
Incomplete == {t \in Transforms : KindOf(t) = "lva" /\ op[t] = "running"}

TransformsEnd(p) ==
  /\ main[p] = "transforming"
  /\ \A j \in JobsOf(p) : worker[j] \in {"succeeded", "failed", "dropped"}
  /\ MainIs(p, IF UsesAnalysis(p) THEN "listing" ELSE "ended")
  /\ UNCHANGED <<jobVars, transformVars, analysis>>

ListProcesses(p) ==
  /\ main[p] = "listing"
  /\ MainIs(p, IF Incomplete # {} THEN "ended" ELSE "deleting")
  /\ UNCHANGED <<jobVars, transformVars, analysis>>

(* delete_analysis raises NotFound, or any error although it deletes. *)
DeleteAnalysis(p) ==
  /\ main[p] = "deleting"
  /\ \E state \in {"ended", "crashed"} : (~analysis => state = "crashed") /\ MainIs(p, state)
  /\ analysis' = FALSE
  /\ UNCHANGED <<jobVars, transformVars>>

(* Any other error of a call leaves main. *)
MainFails(p) ==
  /\ main[p] \in {"getting", "creating", "initialized", "listing", "deleting"}
  /\ MainIs(p, "crashed")
  /\ UNCHANGED <<jobVars, transformVars, analysis>>

-----------------------------------------------------------------------------
MainStep(p) ==
  \/ UploadsEnd(p)
  \/ GetAnalysis(p)
  \/ CreateAnalysis(p)
  \/ Submit(p)
  \/ TransformsEnd(p)
  \/ ListProcesses(p)
  \/ DeleteAnalysis(p)
  \/ MainFails(p)

WorkerStep(j) ==
  \/ CreateAsset(j)
  \/ Upload(j)
  \/ UploadFails(j)
  \/ Start(j)
  \/ RequestProcess(j)
  \/ ProcessCreated(j)
  \/ StartFails(j)
  \/ AllStarted(j)
  \/ CombinedEnds(j)
  \/ GivesUp(j)
  \/ Index(j)
  \/ IndexFails(j)

ServiceStep(t) ==
  \/ ProcessAppears(t)
  \/ CreationFails(t)
  \/ OperationEnds(t)

WriterStep(t) ==
  \/ CallBack(t)
  \/ WriteIsLost(t)
  \/ WriteOne(t)
  \/ WriterSucceeds(t)
  \/ WriterFails(t)
  \/ WriterDies(t)
  \/ PollingFails(t)

Next ==
  \/ \E p \in Programs : MainStep(p)
  \/ \E j \in Jobs : WorkerStep(j)
  \/ \E t \in Transforms : ServiceStep(t) \/ WriterStep(t)

(* Threads are scheduled, every call returns or raises, and every wait for a   *)
(* operation has a deadline.  Operations need not end.                         *)
Fairness ==
  /\ \A p \in Programs : WF_vars(MainStep(p))
  /\ \A j \in Jobs : WF_vars(WorkerStep(j))
  /\ \A t \in Transforms : WF_vars(WriterStep(t))

Spec == Init /\ [][Next]_vars /\ Fairness

-----------------------------------------------------------------------------
(* Every variable keeps its type. *)
TypeOK ==
  /\ main \in [Programs -> {"uploading", "getting", "creating", "initialized", "transforming",
                            "listing", "deleting", "ended", "crashed"}]
  /\ worker \in [Jobs -> {"new", "created", "uploaded", "dropped", "starting", "creating",
                          "waiting", "indexing", "succeeded", "failed"}]
  /\ started \in [Jobs -> Nat]
  /\ \A j \in Jobs : started[j] <= Len(TransformersOf[j[1]])
  /\ op \in [Transforms -> {"none", "creating", "running", "succeeded", "failed"}]
  /\ writer \in [Transforms -> {"none", "waiting", "writing", "succeeded", "failed", "dead",
                             "unpolled"}]
  /\ written \in [Transforms -> 0 .. Annotations]
  /\ stored \in [Transforms -> 0 .. MaxStored]
  /\ indexed \in [Jobs -> BOOLEAN]
  /\ analysis \in BOOLEAN

(* An asset that the program reports as transformed, and one that is indexed   *)
(* at all, had by then all of its transforms finished without an error, and    *)
(* every annotation that they resulted in is in the warehouse.                 *)
SuccessMeansWritten ==
  \A j \in Jobs :
    worker[j] \in {"indexing", "succeeded"} \/ indexed[j] =>
      \A t \in TransformsOf(j) :
        /\ op[t] = "succeeded"
        /\ KindOf(t) = "write" => written[t] = Annotations /\ stored[t] >= Annotations

(* Every thread that transforms an asset ends, although operations may not end *)
(* and a progress may never be set.                                            *)
TransformReturns ==
  \A j \in Jobs : worker[j] = "starting" ~> worker[j] \in {"succeeded", "failed"}

(* A program never deletes the analysis below a process whose creation its     *)
(* threads have waited for: teardown comes after the threads, and one that     *)
(* gave up on its process left it to be listed.  Nothing is promised about a   *)
(* process whose creation raised: it may appear after the processes are        *)
(* listed, and so may one of another program.                                  *)
OwnProcessesAreSpared ==
  [][\A p \in Programs :
       DeleteAnalysis(p) =>
         \A t \in Transforms :
           t[1] = p /\ KindOf(t) = "lva" /\ t[3] <= started[JobOf(t)] => op[t] # "running"]_vars

(* A progress that writes to the warehouse is done when its result or its      *)
(* exception is set: as long as the program runs, the callback that has begun  *)
(* does not end without one of them.                                           *)
ProgressIsSet ==
  \A t \in Transforms : main[t[1]] \notin {"ended", "crashed"} => writer[t] # "dead"
=============================================================================
