-------------------------- MODULE H264FrameBuffer --------------------------
(***************************************************************************)
(* The queue that keeps the frames of the look-back window                 *)
(* (streams/util/h264_frame_buffer.cc): each method is an operator from    *)
(* the buffer to the buffer.                                               *)
(*                                                                         *)
(* A frame is its position in the stream, its timestamp and whether it is  *)
(* a key frame.  Timestamps are natural numbers, 0 stands for UnixEpoch.   *)
(***************************************************************************)
EXTENDS Integers, Sequences, FiniteSets, SequencesExt

Frame == [n : Nat, timestamp : Nat, key : BOOLEAN]

NewFrameBuffer == [frames |-> <<>>, numKeyFrames |-> 0, secondKeyFrameTimestamp |-> 0]

FrameBuffer ==
  [frames : Seq(Frame), numKeyFrames : Int, secondKeyFrameTimestamp : Nat]

(* The positions of the key frames, and the second of them.                *)
KeyFrames(frames) == {i \in DOMAIN frames : frames[i].key}
IsSecondKeyFrame(frames, i) ==
  i \in KeyFrames(frames) /\ Cardinality({j \in KeyFrames(frames) : j < i}) = 1

HasSecondKeyFrame(frames) == \E i \in DOMAIN frames : IsSecondKeyFrame(frames, i)
SecondKeyFrame(frames) == CHOOSE i \in DOMAIN frames : IsSecondKeyFrame(frames, i)

(* Nothing happens if there is no second key frame after all.              *)
UpdateSecondKeyFrameTimestamp(b) ==
  IF b.numKeyFrames >= 2 /\ HasSecondKeyFrame(b.frames)
  THEN [b EXCEPT !.secondKeyFrameTimestamp = b.frames[SecondKeyFrame(b.frames)].timestamp]
  ELSE b

(* Mutant of PushFrame: the timestamp is not brought up to date.           *)
MutPushFrame(b, frame) ==
  [frames |-> Append(b.frames, frame),
   numKeyFrames |-> IF frame.key THEN b.numKeyFrames + 1 ELSE b.numKeyFrames,
   secondKeyFrameTimestamp |-> b.secondKeyFrameTimestamp]

PushFrame(b, frame) ==
  UpdateSecondKeyFrameTimestamp(
    [frames |-> Append(b.frames, frame),
     numKeyFrames |-> IF frame.key THEN b.numKeyFrames + 1 ELSE b.numKeyFrames,
     secondKeyFrameTimestamp |-> b.secondKeyFrameTimestamp])

(* The timestamp is updated while the front is still in the queue.         *)
PopFrame(b) ==
  LET uncounted ==
        IF Head(b.frames).key
        THEN UpdateSecondKeyFrameTimestamp(
               [frames |-> b.frames, numKeyFrames |-> b.numKeyFrames - 1,
                secondKeyFrameTimestamp |-> 0])
        ELSE b
  IN  [uncounted EXCEPT !.frames = Tail(@)]

ClearFrames(b) == NewFrameBuffer

(* One round of UpdateLookBackWindow: drop what precedes the second key    *)
(* frame.                                                                  *)
DropFrontGop(b) ==
  UpdateSecondKeyFrameTimestamp(
    [frames |-> IF HasSecondKeyFrame(b.frames)
                THEN SubSeq(b.frames, SecondKeyFrame(b.frames), Len(b.frames))
                ELSE b.frames,
     numKeyFrames |-> b.numKeyFrames - 1,
     secondKeyFrameTimestamp |-> 0])

FrontGopIsOut(b, boundary) ==
  b.numKeyFrames >= 2 /\ b.secondKeyFrameTimestamp <= boundary

(* Every round uncounts a key frame, so there are fewer rounds than frames.*)
UpdateLookBackWindow(b, boundary) ==
  FoldLeft(LAMBDA c, f : IF FrontGopIsOut(c, boundary) THEN DropFrontGop(c) ELSE c,
           b, b.frames)

(* What "drops all GOPs before look_back_window_boundary" means: a GOP is  *)
(* out of the window if the key frame after it is.  Everything before the  *)
(* last such key frame goes.                                               *)
WindowOf(frames, boundary) ==
  LET gopEnds == {i \in KeyFrames(frames) :
                    /\ frames[i].timestamp <= boundary
                    /\ \E j \in KeyFrames(frames) : j < i}
  IN  IF gopEnds = {} THEN frames
      ELSE SubSeq(frames, CHOOSE i \in gopEnds : \A j \in gopEnds : j <= i, Len(frames))
=============================================================================
