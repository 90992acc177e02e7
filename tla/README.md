# Vision AI SDK: TLA+ models and proofs

This directory holds TLA+ specifications of the Vision AI SDK (`src/visionai`): of the concurrent core of its C++
streaming client, of the Python clients of its services, and of the Python programs that transform assets,
TLC configurations that check them on small instances, and TLAPS proofs of the main results for every
value of the constants. `PROJECT.json` maps every definition to the lines it models.

Tools: `tlc -config X.cfg MCModule` for the runs below, `tlapm X_proofs.tla` for the proofs.

## 1. Inventory of the system

The SDK is a C++ client library with a Go control plane library, a Go command line tool and Python
packages. The stateful logic of the C++ library is in `src/visionai/streams`. The Python packages are generated
clients of five services, in a synchronous and an asynchronous form over gRPC and REST, and on top of them
libraries for live video analytics and for the warehouse, where threads of several programs transform assets.

| Component | State | Operations | Talks to | Hard behaviour | Correct when |
|---|---|---|---|---|---|
| `ReadWriteChannel`, `PickedNotification`, `SelectForWriteEvent` (`streams/client/read_write_channel*.h`) | bounded queue, closed and cancelled flags, one pending notification | Write, Close, CancelWriters, Read, SetWriteEventNotification, Select | every thread of the receivers | writes and closes racing with registrations; blocked writers; stale picks | no item and no wakeup lost, end reported last |
| `PacketReceiver` (`packet_receiver.cc`) | four background threads, six channels, cancellation flags | Receive (two forms), Commit, CommitsDone, Finish, Cancel | gRPC client, server, caller | five threads that wait on one another, RPC ends and heartbeats at any moment | packets in order, commits flushed, RPC finished once, Cancel always returns and leaves nothing running |
| `StreamingReceivePacketsGrpcV1Client` | stream, two termination flags | Read, WriteCommit, WritesDone, Cancel, Finish | gRPC | used by four threads without a common lock | Finish only when both directions are closed, no use afterwards |
| `EventUpdateReceiver` | as `PacketReceiver` | as `PacketReceiver` | as `PacketReceiver` | the same | the same |
| `Worker`, `WorkerV1` | thread, done and cancel flags | Work, Cancel, Join, GetReturnStatus | all of the above | finalize timeouts, detaching destructor | no task outlives what it uses |
| `PacketSender` (the lease renewal task is no longer used) | request and reply queue, strongest error | Send with a timeout, destructor, task loop | sender RPC | timeouts against late replies | OK means sent, an error is sticky |
| Ingester pipeline (capture, filter, depositor modules) | two buffers, three workers | Prepare, Run, Cancel, Start/StopModules | plugins, event manager | full queues, early stop, failing Init | events well bracketed, all workers stopped |
| `EventManager`, `EventSink` | map of sinks, write buffer, writer thread | Open, Close, Write | depositor, event writers | Close against Write, 10 s wait under the mutex | accepted packets written before Close |
| `PacketLoopRunner`, `EventLoopRunner` | receiver, writer, local commit offset | RunEagerMode, RunControlledMode | receivers, event writers | commits from a callback thread, reconnects | processed once, committed after written |
| `H264FrameBuffer`, `EncodedMotionFilter`, `MotionFilter` | frame buffer, event state | Push, Pop, UpdateLookBackWindow, RunInternal | filter context | key frame bookkeeping, cool-down boundary | no frame of the window lost |
| `WarehouseIngester` | count of outstanding requests | IngestFile, GetIngestResponse, Finish | RPC | count on error paths | count matches the responses due |
| `GstreamerRunner`, asynchronous decoders | pipeline, completion signal | Feed, SignalEOS, callbacks | GStreamer threads | callback after destruction | callbacks bracketed |
| Go program compiler (`golang/pkg/lva`) | analysed graph | parse, verify, DFS, generate | command line tool | cycles, shared nodes | reference definitions of order and reachability |
| Python clients, synchronous and asynchronous (`python/gapic/.../services/*/client.py`, `async_client.py`) | the request of a call | 155 methods | transports, pagers | mixtures of request object and keywords, retries of calls that were executed | the request arrives whole, a call is executed as often as promised |
| REST transports (`transports/rest.py`) | none | one stub per method | server | the request split into URI, body and query | nothing of a request is lost or misrouted |
| Pagers (`pagers.py`) | request with page token, last response | iterate, asynchronously or not | the wrapped method | several iterations share the state | no page skipped, iterations end |
| Transformers and their progress (`python/warehouse/transformer`) | operation, callback, result or exception | transform, done, result, teardown | clients, Video Intelligence | callbacks on polling threads, partial failures, waits that never end | success means written, every wait ends |
| Programs that transform assets (`python/examples/warehouse`, `python/warehouse/utils`) | thread pool, shared analysis | upload, transform, index, tear down | transformers, live video analytics client | analysis shared between programs without a lock | own processes keep their analysis |
| Live video analytics client (`python/lva`) | none | analyses, processes, operators | generated client | get or create in two calls | as its callers need |
| Load balancer, backoff, control client, packet types, CLI | none or trivial | | | | |

`PROJECT.json` lists each with its status, and the hazards with the line where each one bites.

## 2. Plan

Modules in order of importance. Each is written so that it can be proved about: constants with named
assumptions, one action per operation, no recursive operators.

1. `Channel`, `BoundedStream`, `ReadWriteChannel` and proofs. *Done.*
2. `PacketReceiver`, which composes six channels, and proofs. *Done.*
3. `PacketSender` with `Worker`, and proofs: OK means written, errors are sticky, a late reply
   is never taken for the answer to the next packet. *Done.*
4. The Python clients: a table of the methods of every client and transport (`WarehouseClient`, `WarehouseAsyncClient`,
   `WarehouseRest` and so on), `GapicCall` for one call, `Pager`, and `ApiClient`, which composes them; proofs for any
   tables. *Done.*
5. `AssetTransform`: programs, threads, transforms and the shared analysis, and proofs. *Done.* Left: the graph and
   `Process.wait` of the live video analytics client, cancellation of a progress.
6. `EventSink` and `IngestPipeline` (event manager, filter context, depositor, stop sequence): what was
   accepted is written before the event is closed, events are well bracketed. One or two runs;
   an abstract event log as the specification to refine.
7. `PacketLoopRunner` above an abstract receiver (the promises of `PacketReceiver`): nothing is skipped
   by a commit, reconnects deliver again. One run.
8. `H264FrameBuffer` against a reference definition of the look-back window, `EncodedMotionFilter`, and proofs. *Done*, except
   the thread of `Run` with its queue of frames and `Cancel`; `MotionFilter`, which has the same event logic on
   decoded frames.
9. `WarehouseIngester`, the depth first search of the Go compiler, backoff and load balancer: small runs.

Theorems planned: that in every state of `PacketReceiver` and `AssetTransform` some thread can go on, as an invariant with
explicit guards; type correctness and the main invariant of each new module.

## 3. What is modelled

### Channel, BoundedStream, ReadWriteChannel

`Channel` is the record of one `ReadWriteChannelState` and, as operators, what its critical sections do.
Every method holds one mutex from its wait to its return, so each is one step; the `absl::Condition` it
waits for is the guard, and a timed call may give up while the condition is false.

`ReadWriteChannel` puts any number of channels together with one writer thread each, any number of
selectors and the shared `PickedNotification`s. `Register` is one `SetWriteEventNotification` of a
Select, so writes, closes and cancellations interleave with the registrations. Notifications are
members of a finite set and are allocated again when unreferenced, as a `shared_ptr` is freed; those of
earlier Selects may stay registered with channels that were not picked. `MaxWrites` bounds the writes.
The model's writer does not write after `Close`, as `Writer`'s users do not.

`BoundedStream` is what a channel promises: accepted items come out once and in order, never more than
`Capacity` are held, and the end comes last. `ImplementsStreams` states that every channel implements it.

### PacketReceiver

One `pc`-like variable per thread: `user`, `main`, `committer`, `transferrer`, `responder`. The six channels
have capacity 1 as in `Initialize`. The cancellation notifications are booleans. The gRPC client is its
two termination flags and `rpcOpen` (`stream_ != nullptr`); the server and the transport are the
environment, with `rpc` the code the RPC ended with, `inbound` what was sent and not yet read, and
`committed` what the server was sent. History variables: `delivered`, `issued`, `endSeen`, `finishReturn`.

Several code steps are one step of the model where no other thread can tell the difference:

- `ClientCancel` sets both flags and cancels the RPC at once. The flags only become true, and a call that
  slips in between fails as it does after the last one.
- The two tests that begin an iteration of the response reader (its own notification and the client's
  flag) are both monotone and lead to the same exit.
- The break of a loop and the `Close` that follows it; `return_with_status` with its write, its `Close`
  and the further close or cancel of a channel: the thread does nothing else, and each party waits for one of them only.
- The end seen by `Receive` and the `CommitsDone` that follows it belong to the user's thread alone.
- `CancelMainTask` notifies the committer in one step; notifying the transferrer and cancelling the
  writers of both channels is the next one.
- MainTask joins both workers and reads the remaining statuses in one step: everything it waits for is final.
- A timed-out poll and the test of the cancellation flag that follows it are the test at the start of the loop.
- Select with the read of the pick is one step (`MainCollectsFirst`). That the pick is a readable channel,
  that the read does not block and that no wakeup is lost is what `ReadWriteChannel` shows for a sole selector.
- Testing `HasBeenNotified` and calling `Notify` are not atomic in the code, and a second `Notify` would abort
  the process. The model sets a flag; the race is listed as a hazard.

Both forms of `Receive` are modelled; they differ only at the end, where one goes on with CommitsDone and
Finish. The user makes one call at a time, does not commit after CommitsDone and calls Finish once (a
second Finish by way of `Receive` is possible).

The environment may send packets, heartbeats and one writes done request, end the RPC in the regular way, or
break it and lose what is under way. It sends no packet after a writes done request, which the comment at
`packet_receiver.cc:216` takes for granted. `ServerSilent` says when a missed heartbeat can be found: an
interval (60 s and 20 s grace, `constants.h:44,47`) is hundreds of polls, so by its end the responder has
had its turn and there was nothing to read.

`EventUpdateReceiver` is the same program: a textual comparison of `event_update_receiver.cc` and
`packet_receiver.cc` shows renamings, log texts and the poll timeouts only.

### PacketSender

Two threads: `user` in Send, CancelWork or the destructor, and `task`, which runs `GrpcSenderTask::Run` in a
`Worker`. They share the submission and the reply queue of capacity 1, the cancellation notification and
the strongest error. The timeout of Send is counted in whole wait periods of 100 ms; `left = 0` is `is_last`.
`rpc` is the RPC as the client's library knows it; the environment ends it with any status, and
a packet is written if the RPC has not ended. A status OK of a failed write becomes an error
(`CloseRpcExpectingErrors`). History variables: `issued`, `written`, `acked`, and `detected`, every error that a reply or the task has brought.

- GetStrongestErrorStatus and SendAsync at the beginning of Send are one step: only this thread fills the submission queue.
- The updates of the strongest error at the end of CancelWork and Send and the read that follows are one step:
  whatever the task reports in between gives a result that it also gives by reporting before or after.
- Testing the loop's condition and taking a packet are two steps: a packet is still sent after a cancellation.
- `GetReturnStatus` may time out at any moment before the task is done, which includes the 10 s of the code.
- A task that is not done when the destructor returns is detached and goes on with a destroyed object; that is
  undefined and the model stops there. The hazard list has it.

### H264FrameBuffer, EncodedMotionFilter

`H264FrameBuffer` has an operator from buffer to buffer for each method. A frame is its position in the stream, an
integer timestamp and the key frame flag. `PopFrame` brings the remembered timestamp up to date before the front is
gone, as `Pop` does. The `while` loop of `UpdateLookBackWindow` is a fold: each round uncounts a key frame, so there
are no more rounds than frames (proved: after them the loop's condition is false). `WindowOf` is the reference definition, from the header's comment: drop everything
before the last key frame that is not the first one and not inside the window. `FrameBufferUser` calls the methods in any order.

One step of `EncodedMotionFilter` is one `RunInternal`, which the decoder's callback runs once per frame. `Run` puts
the frames into a queue that the callback takes them from, so the k-th call gets the k-th frame. The detector is
external: a detection is TRUE, FALSE or an error. `StartEvent` and `EndEvent` may fail since the queue of filtered
elements may be full (`framework/filter.cc:40-62`); `Push` drops a frame then and succeeds, and such drops belong to
the later `IngestPipeline`. Whatever error `RunInternal` returns, the callback passes it on and the pipeline ends.
The history `events` records what was pushed for each event. The first timestamp is the current
time, so it lies further from `UnixEpoch` (0) than any of the durations.

### The tables of methods

`GapicSurface` is the vocabulary; the fifteen tables `<Service>Client`, `<Service>AsyncClient` and `<Service>Rest` have one
definition per method of a service, each translated from the body of that method in that file: the request message, the
keywords, the field in the routing header, what is made of the reply, and for REST the URI patterns, the body, the fields that are sent
although unset, and the message the answer is parsed as. `VisionAiMessages` has the fields of the messages, `VisionAiPagers` the
pager classes. The tables are independent of each other, as the files are. That a method knows the fields it uses is `FieldsAreKnown`, that client
and REST name the same resource of the same message is `PathsAgree`, and that a pager reads and sends messages with the fields it needs is
`PagersFit`. These three are facts about the tables: TLC evaluates them over all tables, as an `ASSUME` of `MCApiClient`, and no property repeats
them. What the calls make of `PathsAgree` is `RoutedToResource`.
Retries and default timeouts are `WithPolicies` of the synchronous clients (`transports/base.py`) and `Retried` or `Limited` in the
asynchronous ones, which state them in every method.

### GapicCall, Pager, ApiClient

`GapicCall` is one call. The caller passes a request object (a message or a dict) or none, with the field of the resource name or
without it, and gives every keyword a value, a value that counts as false, or none. A request field has the shape of its value only:
unset, false, from the object, from a keyword. Then come, in the order of the code, the check for mixtures, the coercion, the keywords, the
header, the transport and the outcome. What differs between the clients is modelled as it is:

- The synchronous client takes a message as it is and applies keywords to what it builds itself; the asynchronous
  client copies in any case, and extends three repeated keywords when they are not empty.
- `any([...])` looks at the truth of keywords and `is not None` decides what is applied, so that a false keyword passes the check.
- The operations mixin builds a message from a dict only and takes no keywords; without a request it raises AttributeError. In the asynchronous
  clients it wraps its methods as the synchronous ones do, and the errors of gRPC are not converted (`ErrorOf`).
- REST: the field of the path is matched with the patterns, and a call without a value that matches is a ValueError before anything is
  sent. The body is one field or all that is left, the query the rest. Streams are not offered. The split is a partition by construction, as
  transcoding is; what `RequestArrivesWhole` can find over REST is a value that is set and not sent.

The server and the network are external. A call is served, refused, found unavailable, served with its reply lost (UNAVAILABLE, from gRPC
or as status 503), timed out if it has a default timeout, or ends with a broken HTTP connection, which is an exception of another
library and not retried. A retry ends by a deadline, for which `MaxAttempts` stands.

`Pager` is a pager with the iterations over it. Setting the token and serialising the request are two steps, since the asynchronous call
runs in between; the reply and the yield are one. Generators of one thread, as those of a synchronous pager are, never meet another
iteration between the two steps, so their behaviours are among the modelled ones. The server has a fixed number of pages.

`ApiClient` is a program that makes one call after the other; a list call hands its first response to the pager, and the program
iterates before it calls again. A fetch of a page repeats none of `GapicCall`'s steps: no list method is retried, so it arrives or fails.

### AssetTransform

Programs as `transform_gcs_files.py` is one: a main thread, one thread per asset, the operations of the services, the callback that writes the
result of a Video Intelligence operation, and the analysis that the programs of a cluster share. The steps are the calls
that threads make, with their failures. A transform is one of three kinds (`KindOf`), in the order of the factory.

- A transform that fails to start may nevertheless be running (`StartFails`).
- A process is created by an operation that `create_process` requests and waits for (`RequestProcess`, `ProcessCreated`). The wait may end
  first, with an error: the process then appears later (`ProcessAppears`), also after the processes were listed, or never (`CreationFails`).
  It can be requested, and it appears, only while the analysis exists. `started` counts the transforms whose start returned.
- The analysis, too, is created and deleted by an operation that is waited for. Whether the wait sees its end or raises, only the main thread is
  waiting then and does nothing else, so that `CreateAnalysis` and `DeleteAnalysis` stand for the moment the operation takes effect, and may crash the program.
- `StartFails` and `GivesUp` end the thread, not what it has started; operations need not end.
- The retry of `create_annotation` is its own (`_CREATE_ANNOTATION_RETRY`): `WriteIsLost` stores an annotation whose reply is lost, and the
  next attempt stores it again. `MaxStored` bounds that.
- `PollingFails` is the end of the polling thread of `google.api_core`: the callback is never run. It is external. `WriterDies` is an error
  in the callback that it does not catch, or the end of the program.
- An analysis is known by its existence: all programs use one analysis of one cluster.
- Preparing the schemas and search configurations, which precedes every thread, is left out but for its failure (`MainFails`).

## 4. What is checked

| Run | Instance | Distinct states | Shows |
|---|---|---|---|
| `rwc` | 2 channels of capacity 1, 1 selector, 2 notifications, 2 items, 2 writes per channel | about 180,000 | `NothingLost`, `EndIsFinal`, `NoLostWakeup`, `SelectedIsReadable`, `SetOnlyAfterNotified`, `ClosedIsDrained`, `ImplementsStreams` |
| `receiver` | 2 packets, 2 commits, heartbeats after the first packet, Receive, Commit, CommitsDone and Cancel, transport window 1 | about 2.4 million | the packets arrive in order, OUT_OF_RANGE means everything was delivered, commits are flushed before the half-close, Finish's precondition, no use after Finish, quiet after Cancel, the end is final and comes before any OK without a packet |
| `receiver_live` | 2 packets, Receive, Finish and Cancel | about 65,000 | Cancel, Receive and Finish return |
| `receiver_commit` | 2 packets, 3 commits | stops at the violation | an infinite Commit may outlive the RPC for ever |
| `sender` | 3 packets, timeouts of 0 and 1 wait periods and infinite | about 5,400 | OK means written, only an UNAVAILABLE about to be reported is hidden by CANCELLED, timed calls return, a failed task ends every Send |
| `sender_weaker` | the same | stops at the violation | an UNAVAILABLE taken on the last wait may be returned as CANCELLED |
| `frame_buffer` | 5 frames, methods in any order | stops at the violation | an update of the window right after a Pop drops a GOP inside it |
| `motion_filter` | 6 frames, gaps of 1 or 2, 2 frames trigger, event 1, look-back 2, cool-down 2 | about 146,000 | events are decodable and take the whole look-back window, nothing piles up, the cool-down is kept, the window is exact |
| `motion_start` | the same | stops at the violation | motion that passes the threshold in the cool-down period starts no event |
| `api` | all methods of all services, 2 attempts, 2 iterations over up to 3 pages | about 126,000 | requests arrive whole and are routed to the resource they name, calls are executed as promised, no page is skipped, iterations end |
| `transform` | 1 program with a transformer of each kind, 1 that shares the analysis; 1 asset each; 2 annotations, at most 3 stored | about 400,000 | success means written, every thread ends, teardown spares the processes that the program has started |
| `transform_stuck` | the same | stops at the violation | an error that the callback does not catch leaves the progress unset |

Bounds. Two channels are what MainTask selects over, and two notifications are enough for one to be
registered and stale while the other waits; with two writes per channel of capacity 1 a writer blocks and a
channel is refilled after it was read. Two packets are needed for the transferrer to be blocked on a full
receive channel, and a second offset for the commit channel to be full while the first is being written;
the third commit of `receiver_commit` finds the channel full after the committer has left. A transport window
of 1 suffices since every pipeline stage behind it holds one item itself. Heartbeats are unbounded in number;
`HeartbeatsAt = {1}` has them between the two packets and behind a writes done request that follows the first.
`UserCalls` restricts the user in the liveness runs to the methods the property is about; in `receiver` the
receiver is finished by the Receive that calls Finish itself.
Three packets let a late reply of the first meet a second submission and a third follow it; a timeout of one wait
period has one wait that may be repeated and a last one. In six frames an event can start (second frame), end (key frame), cool down (two time units) and a second one start; the
gaps 1 and 2 put a timestamp on, before and after every boundary of length 2.
Two attempts are enough for a call to be executed twice, and a third would repeat the second. Two iterations and three pages let a
late reply take the pager back behind a page that the other iteration has passed. In `transform` the first program has
each kind of transform once, so that each can be the one that fails; the second races with it for the analysis from both ends, its creation and
its deletion. Two annotations allow a failure between two writes, and three stored ones a write that was repeated.

Runs with `CHECK_DEADLOCK FALSE` are those of `PacketReceiver`, whose session really ends, of
`PacketSender`, whose destructor returns, of the frame buffer and the filter, whose stream ends, and of
`AssetTransform`, whose programs end.

Fairness. In `ReadWriteChannel` a selector goes on selecting and a writer that can return does; nobody is
obliged to write, close or cancel. In `PacketReceiver` every thread is scheduled (weak fairness per
thread), but a gRPC write may block for as long as the RPC is open, since the server need not read. The
user need not begin any call. A silent server is noticed (strong fairness of `MissHeartbeat`: a poll loop
leaves and enters the state in which the interval expires). Of the server only this is assumed: after
a writes done request it severs the RPC at the latest when `writes_done_grace_period` is over
(`packet_receiver.h:207-211`). In `PacketSender` both threads are scheduled and a wait expires; creating the client and
a write may block while the RPC is open, and closing a cancelled RPC ends it. In `ApiClient` the event loop resumes every
iteration and a fetch is answered or fails; nobody is obliged to call. In `AssetTransform` threads are scheduled, a call returns or
raises, and a wait for a transform has a deadline (7200 s, `transform_progress.py:26`), as the wait for a creation has in `google.api_core`; operations need not end, and a progress need not be set.

`OwnProcessesAreSpared` speaks of the processes a program has started, that is, whose creation its threads have waited for. Others are not spared: a
process of another program, or one of its own whose creation the wait gave up on, may appear between the listing and the deletion, and TLC finds either
at once when the property is stated without its conditions. The code makes no promise about them, and the hazard list has it.

`NoWeakerError` counts every error that a reply or the task has brought (`detected`), and does not hold; `WeakerOnlyIfUnreported` says that the case
found is the only one. It is in the `sender` run and is proved.

A Receive(timeout, packet) that is called again after the end returns OK without a packet: the final status is consumed, and Finish returns its
default (`packet_receiver.cc:443-446,466-472`), which `packet_receiver.h:254-259` does not describe. `ReceiveEndIsFinal` keeps that case to where it is: such an OK
is only returned after the final status was.

Findings: five disagreements between documentation and code, each the counterexample of a run; see
`PROJECT.json`. `OutOfRangeMeansAll` leaves out sessions in which the client cancelled the RPC: the
responses that had arrived by then may or may not be handed out.

Every property of a passing run has a mutant in its module (`Mut...`, a plausible bug) that breaks it.

## 5. What is proved

`Channel_proofs` has the lemmas about the channel operators and about counting sequences.

`ReadWriteChannel_proofs`, for all sets of channels, selectors, notifications and items and all capacities:

- `TypeCorrect`; `NothingIsLost`, `EndsAreFinal` and `ChannelsAreStreams` (the refinement of `BoundedStream`)
  from the inductive `ItemInv`: conservation of items, a closed channel has no writer left, and an ended
  channel is closed and drained. The last two are needed since an end would otherwise not stay one.
- `NoWakeupIsLost`, `SelectedStaysReadable`, `ReplacedOnlyAfterNotified` under the assumption `OneSelector`,
  which holds of MainTask: `SetWriteEventNotification` replaces whatever is pending, so that a second selector on a channel
  would take the notification of the first away. The invariant `WakeupInv`
  says of a waiting or registering selector that each channel it has registered with either still holds its
  notification and is not readable, or has notified it; that a pick is readable; and that every pending
  notification that was not notified belongs to the selector's current call.

`PacketReceiver_proofs`, for any number of packets and commits and any window:

- `TypeCorrect`; `FinishMeetsItsPrecondition` and `NobodyUsesFinishedRpc` from `EndInv`: what each exit path
  of the committer, the transferrer and the responder leaves behind (the flag of its direction is set when it is
  done), and that MainTask is past its join only when all are done.
- `CancelLeavesQuiet`: from `EndInv` and what MainTask's last step leaves.
- `CommitsAreFlushed`: the committed offsets, the one being written and the one in the queue are
  consecutive up to the last accepted one, and the half-close happens only when the last two are empty.
- `PacketsArriveInOrder` from `OrderInv`. Its heart is `Flow`: the transport, the response reader, the response channel, the transferrer
  and the receive channel each hold a run of consecutive packets among other responses (`Carries`), and the runs join.
  It is stated with two numbers, the last packet that has reached the response channel and the last that can still be received, so that a
  break of the connection is a smaller second number and a discarded response needs no case of its own. Once the
  transferrer begins to cancel, what is upstream of it is never looked at again. That nothing follows a writes done request is part of it: the
  transferrer drops responses after one, and goes on.
- `EndStaysReported`: after the end the receive channel is closed and empty, and by `Flow` a closed receive channel leaves no packet to add.
  The main status is written once and before its channel is closed, so that the default status follows it.
- `OutOfRangeIsComplete`, from `OrderInv` and `StatusSide`: OUT_OF_RANGE is only ever the code of the RPC, and a session that ended with it and
  was not cancelled has lost nothing, so that the runs are empty and the two numbers are what was sent.

`PacketSender_proofs`, for any timeouts and any number of packets:

- `TypeCorrect`, and `AcknowledgedIsWritten`, `QueuesAreNeverFull` and `StrongestIsReturned` (the property `WeakerOnlyIfUnreported`) from `SenderInv`. Its
  heart is that the last packet is in at most one place (submission queue, task, reply queue), that each place says whether it
  has been written, and that an idle sender without an error has an empty one of each (`IdleIsSettled`). The stickiness of the
  error is what makes this inductive: the places may only be full while nothing more can be submitted.

`ApiClient_proofs`, for calls and pagers, whatever the tables say, for any number of attempts, iterations and pages:

- `TypeCorrect`, and `RequestsArriveWhole` from `CallInv`: the request is the one that the call asks for, what was sent is made from it, and
  whatever was sent fits its binding. The theorem is about the split into URI, body and query in general, so a new method
  needs no new argument.
- `CallsAreExecutedAsPromised`, under the assumption `FieldsAreKnown` (the keywords and paths of the methods are fields of their messages), without which
  a method with a misspelt field would raise AttributeError; the run shows that the tables satisfy it.
- `ResourceStaysRouted`, under the assumption `PathsAgree`: whatever form the caller gives the request, the routing header names the resource of the
  message that arrives, and over REST it has a form that the method takes. That the tables name the same field is not enough: the header is
  made of the request before it is taken apart, and the check of the pattern must have refused what is not set (`StaysBound`, of `CallInv`).
- `NoPageIsSkipped` from `PagerInv`: whatever page the pager, its request or a call under way stands for, all pages before it have been
  yielded. It is inductive although replies move the pager back, because each of the three positions carries the fact for itself.

`AssetTransform_proofs`, for any programs, files, lists of transformers and annotations, from `TransformInv`:

- `TypeCorrect`; `SuccessIsWritten`: a callback writes the result of an operation that succeeded and succeeds with the last annotation, every write
  that returned is stored, and a thread that indexes has seen each of its transforms done without an error.
- `OwnProcessesStay`: a program that deletes the analysis has no thread left, so that nothing it has started is still being created
  (`CreationsAwaited`), and has listed no process of its own; what its threads gave up on either is listed or has ended.

`H264FrameBuffer_proofs`, for buffers of any length:

- `LookBackDropsWhatIsOut`: of a buffer that is `Exact` (key frames counted, timestamp of the second one remembered) and in the order of time,
  `UpdateLookBackWindow` returns the reference window `WindowOf` for every boundary, the buffer is exact again, and the condition of the loop is false.
- `BookkeepingIsKept`: the count is kept by every method in any order, and `Push`, `Clear` and a dropped GOP make the buffer exact. So
  the disagreement that the `frame_buffer` run finds exists from a `Pop` to the next of them and no longer.

Both are inductions over the rounds of a loop. The library's theorem about induction takes a predicate as a parameter; `Induction` puts
a set in its place and follows from the well-foundedness of the order. `LookBackByRounds` unfolds the fold
into a sequence of buffers, each one round after the one before. The arguments about one round are about `SecondKeyFrame`: dropping a GOP
takes one key frame away, and the key frames of the rest are those of the whole, shifted (`KeyFramesFrom`).

`EncodedMotionFilter_proofs`, for any options, any stream, any detections and errors, from the inductive `FilterInv`:

- `TypeCorrect`, `EventsCanBeDecoded`, `LookbackIsCovered`, `CoolDownIsKept`, `NothingPilesUp`, `WindowStaysExact`.
- `EventsAreRight` says of the events so far what the properties say. It is not inductive by itself, since an event is made of a buffer that was filled
  many calls before. `Going` and `Waiting` say what the filter has in its hands: while an event goes on it has got
  every frame of the stream so far and the buffer is empty; while none does, the buffer is the end of the stream, begins with a key frame (if the
  stream does) not before the last frame of the last event, and everything before it either is older than the window or belongs to that event.
  `Piece` and `InOrder` tie positions to times, and `BufferIsRight` is what `LookBackDropsWhatIsOut` asks for. After an error the pipeline stops, and
  all that is claimed of the buffer then is that its bookkeeping is right.
- `DrainedByRounds` unfolds the loop of `Pop`s in the same way; the timestamp it leaves is right since the buffer is empty.

Assumptions used: the named `ASSUME`s of the modules (bounds are natural numbers, a window is positive,
`None` is not a notification or a channel, a timeout is a number or infinite, a transformer is of one of the three kinds, the thresholds of the
motion filter are positive and its durations not negative), evaluated by TLC in every run; `OneSelector`, `FieldsAreKnown` and `PathsAgree` where stated.

With these, every safety invariant and every action property that a passing run checks is stated by a theorem. Only model-checked
are liveness under fairness (`ClosedIsDrained`, the `receiver_live` run, `CallsReturn`,
`FailureReachesSend`, `IterationEnds` and `TransformReturns`), which with ENABLED is out of the reach of the prover, and the fact that the
tables satisfy `FieldsAreKnown`, `PathsAgree` and `PagersFit`.

## 6. Not modelled

The components marked `not_modelled` in `PROJECT.json`, with the reason there; most are in the plan. Of the
modelled components: option handling and the setup request of `PacketReceiver::Create` (they precede every
thread), the destructor of a gRPC client that was never finished, log output, the contents of packets,
response messages without content, and wall-clock durations beyond "a timed wait may expire". Of the Python clients: the construction of a
client with its credentials and endpoints, path helpers, interceptors (empty unless a program supplies some), the contents of streams (a retried
`ingest_asset` with a partly consumed iterator), retry and timeout arguments of the caller, nested messages and enumerations. Of the asset
transformation: the creation of clusters, corpora and indexes before the threads, the rate limit of the annotation writes, the contents of
annotations, `cancel` of the progress classes, the search and the clean-up after teardown. Of the live video analytics client: operators,
`Process.wait`, and graphs.
