------------------------ MODULE EncodedMotionFilter ------------------------
(***************************************************************************)
(* EncodedMotionFilter (streams/plugins/filters/encoded_motion_filter.cc): *)
(* cuts the events with motion out of a stream of encoded frames.          *)
(*                                                                         *)
(* The module follows RunInternal, which the decoder's callback calls once *)
(* per frame, in order: Run puts the frames in a queue and the callback    *)
(* takes them out of it.  An error ends the pipeline.  The detector        *)
(* and the context that takes events are external: a detection is TRUE     *)
(* or FALSE, and opening or closing an event may fail.                     *)
(***************************************************************************)
EXTENDS H264FrameBuffer

CONSTANTS
  MinFrames,  \* min_frames_trigger_motion_
  MinEvent,   \* min_event_duration_
  Lookback,   \* lookback_window_duration_
  CoolDown,   \* cool_down_period_duration_
  Gaps,       \* bound: the time from one frame to the next
  MaxFrames   \* bound: the frames of the stream

ASSUME OptionsAssumption ==
  /\ MinFrames \in Nat \ {0} /\ MinEvent \in Nat \ {0}
  /\ Lookback \in Nat /\ CoolDown \in Nat
  /\ Gaps \subseteq Nat \ {0} /\ MaxFrames \in Nat

VARIABLES
  stream,         \* the frames that have arrived
  frameBuffer,    \* frame_buffer_
  active,         \* current_gop_active_
  consecutive,    \* consecutive_motion_detections_
  latestMotion,   \* latest_motion_detection_time_
  cooldownUntil,  \* cooldown_until_
  status,         \* what the last RunInternal returned
  events          \* history: what was pushed for each event

vars == <<stream, frameBuffer, active, consecutive, latestMotion, cooldownUntil,
          status, events>>

Init ==
  /\ stream = <<>>
  /\ frameBuffer = NewFrameBuffer
  /\ active = FALSE /\ consecutive = 0
  /\ latestMotion = 0 /\ cooldownUntil = 0
  /\ status = "OK"
  /\ events = <<>>

-----------------------------------------------------------------------------
NewEvent(frames, t) == [frames |-> frames, start |-> t, end |-> 0]

PushToEvent(evs, frame) ==
  [evs EXCEPT ![Len(evs)].frames = Append(@, frame)]

(* UpdateMotionDetection.                                                  *)
MutCountMotion(motion) == IF motion THEN consecutive + 1 ELSE consecutive - 1 \* mutant: no reset
CountMotion(motion) == IF motion THEN consecutive + 1 ELSE 0
LatestMotion(motion, t) ==
  IF motion /\ consecutive + 1 >= MinFrames THEN t ELSE latestMotion

(* At a key frame an active event ends when no motion was seen for long    *)
(* enough; the key frame belongs to it.                                    *)
MutEventEnds(frame, latest) == active /\ latest + MinEvent < frame.timestamp \* mutant: at any frame
EventEnds(frame, latest) ==
  frame.key /\ active /\ latest + MinEvent < frame.timestamp

(* The buffer with the frame and without the GOPs out of the window.       *)
MutBuffered(frame) ==  \* mutant: the boundary is the timestamp of the frame
  UpdateLookBackWindow(PushFrame(frameBuffer, frame), frame.timestamp)
Buffered(frame) ==
  UpdateLookBackWindow(PushFrame(frameBuffer, frame), frame.timestamp - Lookback)

(* Push all the frames in the buffer, popping one after the other.         *)
MutDrained(b) == PopFrame(b) \* mutant: only the first
Drained(b) == FoldLeft(LAMBDA c, f : PopFrame(c), b, b.frames)

MutCoolingDown(until, t) == FALSE \* mutant: no cool-down
CoolingDown(until, t)    == until > t

CheckEventStart(count) == count = MinFrames

-----------------------------------------------------------------------------
(* What RunInternal does after the frame was buffered, with `evs` the      *)
(* events so far: nothing during the cool-down, else pass the frame to the *)
(* active event, or start one with everything that is buffered.            *)
Handles(frame, b, going, until, count, evs) ==
  \/ /\ CoolingDown(until, frame.timestamp)
     /\ frameBuffer' = b /\ active' = going /\ events' = evs /\ status' = "OK"
  \/ /\ ~CoolingDown(until, frame.timestamp) /\ going
     /\ active' = going
     /\ IF Len(b.frames) = 1
        THEN frameBuffer' = PopFrame(b) /\ events' = PushToEvent(evs, frame)
             /\ status' = "OK"
        ELSE frameBuffer' = b /\ events' = evs /\ status' = "INTERNAL"
  \/ /\ ~CoolingDown(until, frame.timestamp) /\ ~going /\ CheckEventStart(count)
     /\ \/ /\ active' = TRUE /\ frameBuffer' = Drained(b) /\ status' = "OK"
           /\ events' = Append(evs, NewEvent(b.frames, frame.timestamp))
        \/ /\ active' = FALSE /\ frameBuffer' = b /\ status' = "RESOURCE_EXHAUSTED"
           /\ events' = evs
  \/ /\ ~CoolingDown(until, frame.timestamp) /\ ~going /\ ~CheckEventStart(count)
     /\ frameBuffer' = b /\ active' = FALSE /\ events' = evs /\ status' = "OK"

(* A frame that does not end the active event.                             *)
ContinuesWith(frame, count, latest) ==
  /\ ~EventEnds(frame, latest)
  /\ Handles(frame, Buffered(frame), active, cooldownUntil, count, events)
  /\ UNCHANGED cooldownUntil

(* A key frame that ends it.  If the event cannot be closed, RunInternal   *)
(* returns at once.                                                        *)
EndsWith(frame, count, latest) ==
  LET until == frame.timestamp + CoolDown
      pushed == PushToEvent(events, frame)
  IN  /\ EventEnds(frame, latest)
      /\ cooldownUntil' = until
      /\ \/ Handles(frame, Buffered(frame), FALSE, until, count,
                    [pushed EXCEPT ![Len(events)].end = frame.timestamp])
         \/ /\ active' = FALSE /\ status' = "RESOURCE_EXHAUSTED"
            /\ events' = pushed
            /\ UNCHANGED frameBuffer

LastTimestamp == IF stream = <<>> THEN 0 ELSE Last(stream).timestamp

(* The first timestamp is the current time, far from UnixEpoch.            *)
NextFrame(gap, key) ==
  [n |-> Len(stream) + 1,
   timestamp |-> IF stream = <<>> THEN MinEvent + Lookback + 1 ELSE LastTimestamp + gap,
   key |-> key]

RunInternal ==
  /\ status = "OK"
  /\ Len(stream) < MaxFrames
  /\ \E gap \in Gaps, key, motion \in BOOLEAN :
       LET frame == NextFrame(gap, key)
           latest == LatestMotion(motion, frame.timestamp)
       IN  /\ stream' = Append(stream, frame)
           /\ consecutive' = CountMotion(motion)
           /\ latestMotion' = latest
           /\ \/ ContinuesWith(frame, CountMotion(motion), latest)
              \/ EndsWith(frame, CountMotion(motion), latest)

(* ZoneBasedDetectMotion fails: nothing but the frame is gone.             *)
DetectorFails ==
  /\ status = "OK"
  /\ status' = "DETECTOR_ERROR"
  /\ UNCHANGED <<stream, frameBuffer, active, consecutive, latestMotion, cooldownUntil,
                 events>>

Next == RunInternal \/ DetectorFails

Spec == Init /\ [][Next]_vars

-----------------------------------------------------------------------------
(* The type of every variable.                                             *)
TypeOK ==
  /\ stream \in Seq(Frame)
  /\ frameBuffer \in FrameBuffer
  /\ active \in BOOLEAN
  /\ consecutive \in Nat /\ latestMotion \in Nat /\ cooldownUntil \in Nat
  /\ status \in {"OK", "INTERNAL", "RESOURCE_EXHAUSTED", "DETECTOR_ERROR"}
  /\ events \in Seq([frames : Seq(Frame), start : Nat, end : Nat])

(* "There is supposed to be exactly one frame in the frame buffer": the    *)
(* error is never returned, since an active event leaves nothing behind    *)
(* in the buffer.                                                          *)
NoPileUp == status # "INTERNAL" /\ (active => frameBuffer.frames = <<>>)

(* An event is a piece of the stream without gaps and repetitions.         *)
Segment(evs, i) ==
  \A j \in DOMAIN evs[i].frames :
    evs[i].frames[j] = stream[evs[i].frames[1].n + j - 1]

(* Every event can be decoded: it is a gapless piece of the stream, begins *)
(* with a key frame (if the stream does) and, once ended, ends with one.   *)
(* Of two successive events the second begins where the first ended, at    *)
(* the earliest, with the key frame they share.                            *)
EventsAreDecodable ==
  \A i \in DOMAIN events :
    /\ events[i].frames # <<>> /\ Segment(events, i)
    /\ stream[1].key => events[i].frames[1].key
    /\ events[i].end # 0 => Last(events[i].frames).key
    /\ i > 1 => events[i].frames[1].n >= Last(events[i-1].frames).n

(* A starting event takes along every frame of the look-back window that   *)
(* the event before did not get, and at most one GOP (the one that the     *)
(* window begins in) from before it: no two key frames precede the window. *)
LookbackCovered ==
  \A i \in DOMAIN events :
    LET first == events[i].frames[1].n
        from  == events[i].start - Lookback
    IN  /\ \A n \in 1..(first - 1) :
             stream[n].timestamp < from
             \/ (i > 1 /\ n <= Last(events[i-1].frames).n)
        /\ Cardinality({j \in DOMAIN events[i].frames :
             events[i].frames[j].key /\ events[i].frames[j].timestamp <= from}) <= 1

(* No event starts in the cool-down period of the one before, whatever     *)
(* motion there is.                                                        *)
CoolDownKept ==
  \A i \in DOMAIN events :
    i > 1 => events[i-1].end # 0 /\ events[i].start >= events[i-1].end + CoolDown

(* Used as the filter uses it, the buffer's bookkeeping is right although  *)
(* Pop's is not: with one more frame pushed, an update of the window drops *)
(* what is out of the window and nothing else.                             *)
WindowIsExact ==
  \A boundary \in 0..LastTimestamp, key \in BOOLEAN :
    LET b == PushFrame(frameBuffer, NextFrame(1, key))
    IN  UpdateLookBackWindow(b, boundary).frames = WindowOf(b.frames, boundary)

(* "The minimum number of consecutive motion frames to be considered as    *)
(* the start of a new motion event": when that many frames in a row show   *)
(* motion outside of a cool-down period, an event is active.               *)
MotionStartsEvent ==
  status = "OK" /\ consecutive >= MinFrames /\ ~CoolingDown(cooldownUntil, LastTimestamp)
    => active
=============================================================================
