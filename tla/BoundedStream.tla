--------------------------- MODULE BoundedStream ---------------------------
(***************************************************************************)
(* What a ReadWriteChannel promises to its single writer and its readers,  *)
(* without its queue: the items accepted from the writer are handed out    *)
(* exactly once and in order, at most Capacity of them are held at a time, *)
(* the end of the stream is reported only when everything accepted has     *)
(* been handed out, and nothing follows it.                                *)
(***************************************************************************)
EXTENDS Naturals, Sequences

CONSTANTS Item, Capacity

VARIABLES accepted, \* the items the writer was told are written
          taken,    \* the items the readers got
          closed,   \* the writer has signalled that it is done
          ended     \* some reader was told that nothing is left

vars == <<accepted, taken, closed, ended>>

Init ==
  /\ accepted = <<>>
  /\ taken = <<>>
  /\ closed = FALSE
  /\ ended = FALSE

Accept ==
  /\ ~closed
  /\ Len(accepted) - Len(taken) < Capacity
  /\ \E item \in Item : accepted' = Append(accepted, item)
  /\ UNCHANGED <<taken, closed, ended>>

Take ==
  /\ Len(taken) < Len(accepted)
  /\ taken' = Append(taken, accepted[Len(taken) + 1])
  /\ UNCHANGED <<accepted, closed, ended>>

Close ==
  /\ closed' = TRUE
  /\ UNCHANGED <<accepted, taken, ended>>

End ==
  /\ closed
  /\ taken = accepted
  /\ ended' = TRUE
  /\ UNCHANGED <<accepted, taken, closed>>

Next == Accept \/ Take \/ Close \/ End

Spec == Init /\ [][Next]_vars
=============================================================================
