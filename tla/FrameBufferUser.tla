-------------------------- MODULE FrameBufferUser --------------------------
(***************************************************************************)
(* A user of H264FrameBuffer that calls its methods in any order, with     *)
(* frames in the order of their timestamps as Push expects them.           *)
(***************************************************************************)
EXTENDS H264FrameBuffer

CONSTANT MaxFrames \* bound: the frames pushed

VARIABLES buffer, pushed

vars == <<buffer, pushed>>

Init == buffer = NewFrameBuffer /\ pushed = 0

Push ==
  /\ pushed < MaxFrames
  /\ \E key \in BOOLEAN :
       buffer' = PushFrame(buffer, [n |-> pushed + 1, timestamp |-> pushed + 1, key |-> key])
  /\ pushed' = pushed + 1

PopFront ==
  /\ buffer.frames # <<>>
  /\ buffer' = PopFrame(buffer)
  /\ UNCHANGED pushed

Clear ==
  /\ buffer' = ClearFrames(buffer)
  /\ UNCHANGED pushed

LookBack ==
  /\ \E boundary \in 0..pushed : buffer' = UpdateLookBackWindow(buffer, boundary)
  /\ UNCHANGED pushed

Next == Push \/ PopFront \/ Clear \/ LookBack

Spec == Init /\ [][Next]_vars

(* "If the second key frame timestamp is already out of the lookback       *)
(* window, it pops all the frames in the front GOP": whatever calls led    *)
(* here, UpdateLookBackWindow drops the GOPs that are out of the window    *)
(* and no other.                                                           *)
LookBackIsExact ==
  \A boundary \in 0..pushed :
    UpdateLookBackWindow(buffer, boundary).frames = WindowOf(buffer.frames, boundary)
=============================================================================
