------------------------- MODULE MCFrameBufferUser -------------------------
(* Five frames: three key frames before a Pop, and a GOP after it.         *)
EXTENDS FrameBufferUser
=============================================================================
