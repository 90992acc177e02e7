--------------------- MODULE EncodedMotionFilter_proofs ---------------------
(***************************************************************************)
(* What EncodedMotionFilter.tla says of the events, for any stream, any    *)
(* detections and any options.  The invariant follows the frames: while an *)
(* event is going on it has got every frame so far and the buffer is       *)
(* empty; while none is, the buffer holds the end of the stream, from a    *)
(* frame on that the next event can begin with.                            *)
(***************************************************************************)
EXTENDS EncodedMotionFilter, H264FrameBuffer_proofs

(* The loop that empties the buffer.                                       *)
LEMMA DrainedByRounds ==
  ASSUME NEW b, NEW n \in Nat, DOMAIN b.frames = 1..n
  PROVE  \E r : /\ r[0] = b /\ r[n] = Drained(b)
                /\ \A k \in 1..n : r[k] = PopFrame(r[k - 1])
<1> DEFINE Step(g, t) == IF t = {} THEN b ELSE PopFrame(g[t \ {Max(t)}])
           Good == {k \in Nat : \E g : g = [t \in SUBSET (1..k) |-> Step(g, t)]}
<1>1. 0 \in Good
  <2> DEFINE g == [t \in SUBSET (1..0) |-> b]
  <2>1. g = [t \in SUBSET (1..0) |-> Step(g, t)]
    <3>1. \A t \in SUBSET (1..0) : t = {}
      OBVIOUS
    <3> QED
      BY <3>1
  <2> QED
    BY <2>1
<1>2. ASSUME NEW k \in Nat, k \in Good PROVE k + 1 \in Good
  <2>1. PICK g : g = [t \in SUBSET (1..k) |-> Step(g, t)]
    BY <1>2
  <2> DEFINE h == [t \in SUBSET (1..(k + 1)) |->
                     IF k + 1 \in t THEN PopFrame(g[t \ {k + 1}]) ELSE g[t]]
  <2>2. ASSUME NEW t \in SUBSET (1..(k + 1)) PROVE h[t] = Step(h, t)
    <3> DEFINE u == t \ {Max(t)}
    <3>1. CASE k + 1 \in t
      <4>1. Max(t) = k + 1
        BY <3>1, MaxOfInterval
      <4>2. t \ {k + 1} \in SUBSET (1..(k + 1)) /\ k + 1 \notin t \ {k + 1}
        OBVIOUS
      <4>3. h[t \ {k + 1}] = g[t \ {k + 1}]
        BY <4>2
      <4> QED
        BY <3>1, <4>1, <4>3
    <3>2. CASE k + 1 \notin t
      <4>1. t \in SUBSET (1..k)
        BY <3>2
      <4>2. g[t] = Step(g, t)
        BY <2>1, <4>1
      <4>3. t \ {Max(t)} \in SUBSET (1..(k + 1)) /\ k + 1 \notin t \ {Max(t)}
        BY <3>2
      <4>4. h[u] = g[u] /\ h[t] = g[t]
        BY <3>2, <4>3
      <4>5. Step(g, t) = Step(h, t)
        BY <4>4
      <4> QED
        BY <4>2, <4>4, <4>5
    <3> QED
      BY <3>1, <3>2
  <2>3. h = [t \in SUBSET (1..(k + 1)) |-> Step(h, t)]
    BY <2>2
  <2> HIDE DEF h, Step
  <2>4. \E x : x = [t \in SUBSET (1..(k + 1)) |-> Step(x, t)]
    BY <2>3
  <2>5. k + 1 \in Nat
    OBVIOUS
  <2> QED
    BY <2>4, <2>5, Zenon
<1>3. n \in Good
  BY <1>1, <1>2, Induction
<1> DEFINE it == CHOOSE g : g = [t \in SUBSET (1..n) |-> Step(g, t)]
           r == [k \in 0..n |-> it[1..k]]
<1>4. it = [t \in SUBSET (1..n) |-> Step(it, t)]
  BY <1>3
<1>5. Drained(b) = it[1..n]
  BY DEF Drained, FoldLeft, MapThenFoldSet
<1> HIDE DEF it, Good
<1>6. r[0] = b
  <2>1. 1..0 = {} /\ {} \in SUBSET (1..n)
    OBVIOUS
  <2>2. it[{}] = b
    BY <1>4, <2>1
  <2>3. r[0] = it[1..0]
    OBVIOUS
  <2> QED
    BY <2>1, <2>2, <2>3
<1>7. ASSUME NEW k \in 1..n PROVE r[k] = PopFrame(r[k - 1])
  <2>1. k - 1 \in Nat /\ k - 1 + 1 = k /\ k \in 1..k /\ 1..k \in SUBSET (1..n)
    OBVIOUS
  <2>2. Max(1..k) = k
    BY <2>1, MaxOfInterval
  <2>3. 1..k # {} /\ (1..k) \ {k} = 1..(k - 1)
    <3>1. \A x : x \in (1..k) \ {k} <=> x \in 1..(k - 1)
      OBVIOUS
    <3> QED
      BY <2>1, <3>1
  <2>4. it[1..k] = PopFrame(it[1..(k - 1)])
    BY <1>4, <2>1, <2>2, <2>3
  <2> QED
    BY <2>1, <2>4
<1>8. r[n] = it[1..n]
  OBVIOUS
<1> HIDE DEF r
<1> QED
  BY <1>5, <1>6, <1>7, <1>8

(* A buffer that is popped until it is empty is as good as new.            *)
LEMMA DrainedIsNew ==
  ASSUME NEW b, Exact(b)
  PROVE  Drained(b) = NewFrameBuffer
<1> DEFINE n == Len(b.frames)
<1>1. b.frames \in Seq(Frame) /\ n \in Nat /\ DOMAIN b.frames = 1..n
  BY BufferFields, LenProperties DEF Exact, Counted
<1>2. PICK r : r[0] = b /\ r[n] = Drained(b) /\ \A k \in 1..n : r[k] = PopFrame(r[k - 1])
  BY <1>1, DrainedByRounds
<1> HIDE DEF n
<1> DEFINE T == {k \in Nat : k <= n => Counted(r[k]) /\ r[k].frames = From(b.frames, k + 1)}
<1>3. 0 \in T
  BY <1>1, <1>2, FromFirst DEF Exact
<1>4. ASSUME NEW k \in Nat, k \in T PROVE k + 1 \in T
  <2> SUFFICES ASSUME k + 1 <= n
               PROVE  Counted(r[k + 1]) /\ r[k + 1].frames = From(b.frames, k + 2)
    OBVIOUS
  <2>1. Counted(r[k]) /\ r[k].frames = From(b.frames, k + 1)
    BY <1>1, <1>4
  <2>2. r[k + 1] = PopFrame(r[k])
    <3>1. k + 1 \in 1..n /\ k + 1 - 1 = k
      BY <1>1
    <3> QED
      BY <1>2, <3>1
  <2>3. k + 1 \in 1..(Len(b.frames) + 1) /\ 2 \in 1..(Len(b.frames) - (k + 1) + 2)
    BY <1>1 DEF n
  <2>4. r[k].frames \in Seq(Frame) /\ Len(r[k].frames) >= 1
    BY <1>1, <2>1, <2>3, FromProperties DEF n
  <2>5. r[k].frames # <<>>
    BY <2>4, EmptySeq
  <2>6. Tail(r[k].frames) = From(r[k].frames, 2)
    BY <2>4, <2>5, FromFirst
  <2>7. From(From(b.frames, k + 1), 2) = From(b.frames, k + 2)
    <3>1. From(From(b.frames, k + 1), 2) = From(b.frames, (k + 1) + 2 - 1)
      BY <1>1, <2>3, FromFrom
    <3>2. (k + 1) + 2 - 1 = k + 2
      OBVIOUS
    <3> QED
      BY <3>1, <3>2
  <2> QED
    BY <2>1, <2>2, <2>5, <2>6, <2>7, PopKeepsCount
<1>5. Nat \subseteq T
  <2> HIDE DEF T
  <2> QED
    BY <1>3, <1>4, Induction
<1> DEFINE c == Drained(b)
<1>6. Counted(c) /\ c.frames = <<>>
  <2>1. Counted(r[n]) /\ r[n].frames = From(b.frames, n + 1)
    BY <1>1, <1>5
  <2> QED
    BY <1>1, <1>2, <2>1, FromFirst DEF n
<1> HIDE DEF c
<1>7. c.numKeyFrames = 0 /\ c.secondKeyFrameTimestamp = 0
  BY <1>6, EmptyHasNone DEF Counted
<1>8. c = [frames |-> c.frames, numKeyFrames |-> c.numKeyFrames,
           secondKeyFrameTimestamp |-> c.secondKeyFrameTimestamp]
  BY <1>6, BufferFields DEF Counted
<1> QED
  BY <1>6, <1>7, <1>8 DEF c, NewFrameBuffer

-----------------------------------------------------------------------------
(* The inductive invariant, in parts that are predicates of a stream s, a  *)
(* buffer b, the end of the cool-down period and the events so far, since  *)
(* RunInternal goes through states between two of its steps.               *)
Event == [frames : Seq(Frame), start : Nat, end : Nat]

(* The frames are numbered, and their timestamps increase.                 *)
InOrder(s) ==
  /\ s \in Seq(Frame) /\ Increasing(s)
  /\ \A i \in 1..Len(s) : s[i].n = i /\ s[i].timestamp > MinEvent + Lookback

(* A piece of the stream without gaps, empty or not.                       *)
Piece(s, frames) ==
  \A j \in 1..Len(frames) :
    frames[1].n + j - 1 \in 1..Len(s) /\ frames[j] = s[frames[1].n + j - 1]

LastNumber(frames) == frames[Len(frames)].n

(* What EventsAreDecodable, LookbackCovered and CoolDownKept say of one    *)
(* event; the key frames that are too early are at most one.               *)
TooEarly(e) == {j \in DOMAIN e.frames : e.frames[j].key /\ e.frames[j].timestamp <= e.start - Lookback}

EventIsRight(s, e) ==
  /\ e.frames # <<>> /\ Piece(s, e.frames)
  /\ e.start <= s[Len(s)].timestamp
  /\ s[1].key => e.frames[1].key
  /\ e.end # 0 => e.frames[Len(e.frames)].key
  /\ \A j, k \in TooEarly(e) : j = k

FollowsEvent(s, d, e) ==
  /\ d.end # 0 /\ e.start >= d.end + CoolDown
  /\ e.frames[1].n >= LastNumber(d.frames)

CoversWindow(s, n, from, evs, k) ==
  \A i \in 1..(n - 1) :
    s[i].timestamp < from \/ (k > 0 /\ i <= LastNumber(evs[k].frames))

EventsAreRight(s, evs) ==
  /\ evs \in Seq(Event)
  /\ \A i \in 1..Len(evs) :
       /\ EventIsRight(s, evs[i])
       /\ i > 1 => FollowsEvent(s, evs[i-1], evs[i])
       /\ CoversWindow(s, evs[i].frames[1].n, evs[i].start - Lookback, evs, i - 1)

(* The last event is still open: it has got every frame so far.            *)
Going(s, b, until, evs) ==
  /\ evs # <<>> /\ evs[Len(evs)].end = 0
  /\ LastNumber(evs[Len(evs)].frames) = Len(s)
  /\ until <= s[Len(s)].timestamp
  /\ b.frames = <<>>

(* It is not: the buffer holds the end of the stream, from a frame on that *)
(* the next event can begin with.                                          *)
Waiting(s, b, until, evs) ==
  /\ s # <<>> => b.frames # <<>>
  /\ b.frames # <<>> =>
       /\ LastNumber(b.frames) = Len(s)
       /\ s[1].key => b.frames[1].key
       /\ CoversWindow(s, b.frames[1].n, s[Len(s)].timestamp - Lookback, evs, Len(evs))
       /\ evs # <<>> => b.frames[1].n >= LastNumber(evs[Len(evs)].frames)
  /\ evs # <<>> =>
       evs[Len(evs)].end # 0 /\ until = evs[Len(evs)].end + CoolDown

BufferIsRight(s, b) == Exact(b) /\ Piece(s, b.frames)

FilterInv ==
  /\ TypeOK /\ InOrder(stream)
  /\ BufferIsRight(stream, frameBuffer)
  /\ EventsAreRight(stream, events)
  /\ status # "INTERNAL"
  /\ active => Going(stream, frameBuffer, cooldownUntil, events)
  /\ status = "OK" /\ ~active => Waiting(stream, frameBuffer, cooldownUntil, events)

-----------------------------------------------------------------------------
(* A stream t that is the stream s with one more frame x.                  *)
Grown(s, x, t) ==
  /\ InOrder(s) /\ x \in Frame /\ t = Append(s, x)
  /\ x.n = Len(s) + 1 /\ x.timestamp > MinEvent + Lookback
  /\ s # <<>> => x.timestamp > s[Len(s)].timestamp

(* Its elements.                                                           *)
LEMMA GrownStream ==
  ASSUME NEW s, NEW x, NEW t, Grown(s, x, t)
  PROVE  /\ s \in Seq(Frame) /\ t \in Seq(Frame) /\ x \in Frame
         /\ Len(s) \in Nat /\ Len(t) = Len(s) + 1 /\ t # <<>>
         /\ \A i \in 1..Len(s) : t[i] = s[i]
         /\ t[Len(t)] = x
         /\ \A i \in 1..Len(s) : s[i].timestamp < x.timestamp
         /\ InOrder(t)
<1>1. s \in Seq(Frame) /\ x \in Frame /\ Len(s) \in Nat /\ t = Append(s, x)
  BY LenProperties DEF Grown, InOrder
<1>2. /\ t \in Seq(Frame) /\ Len(t) = Len(s) + 1 /\ t # <<>>
      /\ \A i \in 1..Len(s) : t[i] = s[i]
      /\ t[Len(s) + 1] = x
  BY <1>1, AppendProperties
<1>3. DOMAIN s = 1..Len(s) /\ DOMAIN t = 1..(Len(s) + 1)
  BY <1>1, <1>2, LenProperties
<1>4. ASSUME NEW i \in 1..Len(s) PROVE s[i].timestamp < x.timestamp
  <2>1. s # <<>> /\ Len(s) \in 1..Len(s)
    BY <1>1, EmptySeq
  <2>2. s[Len(s)].timestamp < x.timestamp
    <3>1. s[Len(s)].timestamp \in Nat /\ x.timestamp \in Nat
      BY <1>1, <2>1, FrameFields DEF Frame
    <3> QED
      BY <2>1, <3>1 DEF Grown
  <2>3. CASE i = Len(s)
    BY <2>2, <2>3
  <2>4. CASE i # Len(s)
    <3>1. i < Len(s)
      BY <1>1, <2>4
    <3>2. s[i].timestamp < s[Len(s)].timestamp
      BY <1>3, <2>1, <3>1 DEF Grown, InOrder, Increasing
    <3>3. s[i].timestamp \in Nat /\ s[Len(s)].timestamp \in Nat /\ x.timestamp \in Nat
      BY <1>1, <2>1, FrameFields DEF Frame
    <3> QED
      BY <2>2, <3>2, <3>3
  <2> QED
    BY <2>3, <2>4
<1>5. Increasing(t)
  <2>1. SUFFICES ASSUME NEW i \in 1..(Len(s) + 1), NEW j \in 1..(Len(s) + 1), i < j
                 PROVE  t[i].timestamp < t[j].timestamp
    BY <1>3 DEF Increasing
  <2>2. i \in 1..Len(s)
    BY <1>1, <2>1
  <2>3. CASE j = Len(s) + 1
    BY <1>2, <1>4, <2>2, <2>3
  <2>4. CASE j # Len(s) + 1
    <3>1. j \in 1..Len(s)
      BY <1>1, <2>4
    <3>2. s[i].timestamp < s[j].timestamp
      BY <1>3, <2>1, <2>2, <3>1 DEF Grown, InOrder, Increasing
    <3> QED
      BY <1>2, <2>2, <3>1, <3>2
  <2> QED
    BY <2>3, <2>4
<1>6. \A i \in 1..Len(t) : t[i].n = i /\ t[i].timestamp > MinEvent + Lookback
  <2>1. \A i \in 1..Len(t) : i \in 1..Len(s) \/ i = Len(s) + 1
    BY <1>1, <1>2
  <2> QED
    BY <1>2, <2>1 DEF Grown, InOrder
<1> QED
  BY <1>1, <1>2, <1>4, <1>5, <1>6 DEF InOrder

(* A piece of the stream stays one.                                        *)
LEMMA PieceStays ==
  ASSUME NEW s, NEW x, NEW t, Grown(s, x, t), NEW frames, Piece(s, frames)
  PROVE  Piece(t, frames)
<1>1. 1..Len(s) \subseteq 1..Len(t) /\ \A i \in 1..Len(s) : t[i] = s[i]
  BY GrownStream
<1> QED
  BY <1>1 DEF Piece

(* The numbers of a piece's frames.                                        *)
LEMMA PieceNumbers ==
  ASSUME NEW s, InOrder(s), NEW frames \in Seq(Frame), frames # <<>>, Piece(s, frames)
  PROVE  /\ Len(frames) \in Nat \ {0} /\ frames[1].n \in 1..Len(s) /\ Len(s) \in Nat \ {0}
         /\ LastNumber(frames) = frames[1].n + Len(frames) - 1
         /\ LastNumber(frames) \in 1..Len(s)
         /\ \A j \in 1..Len(frames) :
              frames[j].n = frames[1].n + j - 1 /\ frames[j] = s[frames[j].n]
<1>1. Len(frames) \in Nat \ {0} /\ Len(s) \in Nat
  BY EmptySeq, LenProperties DEF InOrder
<1>2. \A j \in 1..Len(frames) : frames[1].n + j - 1 \in 1..Len(s)
                                 /\ frames[j] = s[frames[1].n + j - 1]
  BY DEF Piece
<1>3. \A j \in 1..Len(frames) : frames[j].n = frames[1].n + j - 1 /\ frames[j] = s[frames[j].n]
  BY <1>2 DEF InOrder
<1>4. 1 \in 1..Len(frames) /\ Len(frames) \in 1..Len(frames)
  BY <1>1
<1>5. frames[1].n \in Nat /\ frames[1].n + 1 - 1 = frames[1].n
  <2>1. frames[1].n \in Nat
    BY <1>4, FrameFields
  <2> QED
    BY <2>1
<1>6. frames[1].n \in 1..Len(s)
  BY <1>2, <1>4, <1>5
<1>7. LastNumber(frames) = frames[1].n + Len(frames) - 1 /\ LastNumber(frames) \in 1..Len(s)
  BY <1>2, <1>3, <1>4 DEF LastNumber
<1> QED
  BY <1>1, <1>3, <1>6, <1>7

(* A piece of the stream increases.                                        *)
LEMMA PieceIncreases ==
  ASSUME NEW s, InOrder(s), NEW frames \in Seq(Frame), Piece(s, frames)
  PROVE  Increasing(frames)
<1>1. DOMAIN frames = 1..Len(frames) /\ DOMAIN s = 1..Len(s)
  BY LenProperties DEF InOrder
<1>2. SUFFICES ASSUME NEW i \in 1..Len(frames), NEW j \in 1..Len(frames), i < j
               PROVE  frames[i].timestamp < frames[j].timestamp
  BY <1>1 DEF Increasing
<1> DEFINE a == frames[1].n + i - 1
           c == frames[1].n + j - 1
<1>3. a \in 1..Len(s) /\ c \in 1..Len(s) /\ frames[i] = s[a] /\ frames[j] = s[c]
  BY DEF Piece
<1>4. a < c
  <2>1. 1 \in 1..Len(frames)
    BY LenProperties
  <2>2. frames[1].n \in Nat
    BY <2>1, FrameFields
  <2> QED
    BY <1>2, <2>2
<1> HIDE DEF a, c
<1> QED
  BY <1>1, <1>3, <1>4 DEF InOrder, Increasing

(* So does a piece of a piece that goes on to its end.                     *)
LEMMA PieceFrom ==
  ASSUME NEW s, InOrder(s), NEW frames \in Seq(Frame), Piece(s, frames),
         NEW p \in 1..Len(frames)
  PROVE  /\ From(frames, p) \in Seq(Frame) /\ From(frames, p) # <<>>
         /\ Piece(s, From(frames, p))
         /\ From(frames, p)[1] = frames[p] /\ frames[p].n = frames[1].n + p - 1
         /\ LastNumber(From(frames, p)) = LastNumber(frames)
<1> DEFINE g == From(frames, p)
<1>1. /\ g \in Seq(Frame) /\ Len(frames) \in Nat /\ Len(g) = Len(frames) - p + 1
      /\ \A i \in 1..(Len(frames) - p + 1) : g[i] = frames[p + i - 1]
  <2>1. Len(frames) \in Nat /\ p \in 1..(Len(frames) + 1)
    BY LenProperties
  <2> QED
    BY <2>1, FromProperties
<1> HIDE DEF g
<1>2. g # <<>> /\ frames # <<>> /\ Len(g) \in 1..(Len(frames) - p + 1)
  BY <1>1, EmptySeq
<1>3. g[1] = frames[p] /\ g[Len(g)] = frames[Len(frames)]
  BY <1>1
<1>4. /\ frames[1].n \in Nat /\ frames[p].n = frames[1].n + p - 1
      /\ \A j \in 1..Len(frames) : /\ frames[1].n + j - 1 \in 1..Len(s)
                                   /\ frames[j] = s[frames[1].n + j - 1]
  <2>1. 1 \in 1..Len(frames)
    BY <1>1
  <2>2. frames[1].n \in Nat
    BY <2>1, FrameFields
  <2>3. frames[p].n = frames[1].n + p - 1
    BY <1>2, PieceNumbers
  <2> QED
    BY <2>2, <2>3 DEF Piece
<1>5. ASSUME NEW j \in 1..Len(g)
      PROVE  g[1].n + j - 1 \in 1..Len(s) /\ g[j] = s[g[1].n + j - 1]
  <2>1. p + j - 1 \in 1..Len(frames) /\ g[j] = frames[p + j - 1]
    BY <1>1
  <2>2. frames[1].n + (p + j - 1) - 1 = g[1].n + j - 1
    <3>1. j \in Nat /\ p \in Nat /\ g[1].n = frames[1].n + p - 1 /\ frames[1].n \in Nat
      BY <1>1, <1>3, <1>4
    <3>2. \A a \in Nat : a + (p + j - 1) - 1 = (a + p - 1) + j - 1
      BY <3>1
    <3> QED
      BY <3>1, <3>2
  <2> QED
    BY <1>4, <2>1, <2>2
<1> QED
  BY <1>1, <1>2, <1>3, <1>4, <1>5 DEF g, Piece, LastNumber

(* A piece that has the last frame of the stream goes on with the next one.*)
LEMMA PieceGoesOn ==
  ASSUME NEW s, NEW x, NEW t, Grown(s, x, t), NEW frames \in Seq(Frame), Piece(s, frames),
         frames # <<>> => LastNumber(frames) = Len(s)
  PROVE  /\ Append(frames, x) \in Seq(Frame) /\ Append(frames, x) # <<>>
         /\ Len(Append(frames, x)) = Len(frames) + 1
         /\ Append(frames, x)[Len(frames) + 1] = x
         /\ Piece(t, Append(frames, x)) /\ LastNumber(Append(frames, x)) = Len(t)
         /\ frames # <<>> => Append(frames, x)[1] = frames[1]
         /\ \A j \in 1..Len(frames) : Append(frames, x)[j] = frames[j]
<1> DEFINE g == Append(frames, x)
           n == Len(frames) + 1
<1>1. /\ s \in Seq(Frame) /\ x \in Frame /\ Len(s) \in Nat /\ Len(t) = Len(s) + 1
      /\ \A i \in 1..Len(s) : t[i] = s[i]
      /\ t[Len(t)] = x /\ x.n = Len(s) + 1 /\ InOrder(s)
  BY GrownStream DEF Grown
<1>2. /\ g \in Seq(Frame) /\ Len(g) = n /\ g[n] = x /\ g # <<>> /\ Len(frames) \in Nat
      /\ \A j \in 1..Len(frames) : g[j] = frames[j]
  BY <1>1, AppendProperties, LenProperties
<1> HIDE DEF g
<1>3. CASE frames = <<>>
  <2>1. n = 1 /\ g[1] = x
    BY <1>2, <1>3
  <2>2. Piece(t, g)
    <3>1. \A j \in 1..1 : j = 1
      OBVIOUS
    <3> QED
      BY <1>1, <1>2, <2>1, <3>1 DEF Piece
  <2> QED
    BY <1>1, <1>2, <1>3, <2>1, <2>2 DEF g, LastNumber
<1>4. CASE frames # <<>>
  <2>1. /\ Len(frames) \in Nat \ {0} /\ frames[1].n \in 1..Len(s)
        /\ LastNumber(frames) = frames[1].n + Len(frames) - 1 /\ LastNumber(frames) = Len(s)
    BY <1>1, <1>4, PieceNumbers
  <2>2. g[1] = frames[1]
    BY <1>2, <2>1
  <2>3. ASSUME NEW j \in 1..n
        PROVE  g[1].n + j - 1 \in 1..Len(t) /\ g[j] = t[g[1].n + j - 1]
    <3>1. CASE j = n
      <4>1. g[1].n + j - 1 = Len(t)
        <5>1. \A a, m \in Nat : a + (m + 1) - 1 = (a + m - 1) + 1
          OBVIOUS
        <5>2. g[1].n + (Len(frames) + 1) - 1 = LastNumber(frames) + 1
          BY <2>1, <2>2, <5>1
        <5> QED
          BY <1>1, <2>1, <3>1, <5>2
      <4> QED
        BY <1>1, <1>2, <3>1, <4>1
    <3>2. CASE j # n
      <4>1. j \in 1..Len(frames)
        BY <2>1, <3>2
      <4>2. frames[1].n + j - 1 \in 1..Len(s) /\ frames[j] = s[frames[1].n + j - 1]
        BY <4>1 DEF Piece
      <4> QED
        BY <1>1, <1>2, <2>2, <4>1, <4>2
    <3> QED
      BY <3>1, <3>2
  <2>4. Piece(t, g) /\ LastNumber(g) = Len(t)
    BY <1>1, <1>2, <2>3 DEF Piece, LastNumber
  <2> QED
    BY <1>2, <2>2, <2>4 DEF g
<1> QED
  BY <1>3, <1>4

-----------------------------------------------------------------------------
(* An event that was right stays so when the stream grows.                 *)
LEMMA EventStaysRight ==
  ASSUME NEW s, NEW x, NEW t, Grown(s, x, t), NEW e \in Event, EventIsRight(s, e)
  PROVE  EventIsRight(t, e) /\ s # <<>>
<1>1. /\ s \in Seq(Frame) /\ Len(s) \in Nat /\ Len(t) = Len(s) + 1 /\ t[Len(t)] = x
      /\ \A i \in 1..Len(s) : t[i] = s[i] /\ s[i].timestamp < x.timestamp
      /\ x \in Frame
  BY GrownStream
<1>2. e.frames \in Seq(Frame) /\ e.frames # <<>> /\ Piece(s, e.frames) /\ e.start \in Nat
  BY DEF Event, EventIsRight
<1>3. Len(s) \in Nat \ {0}
  BY <1>2, PieceNumbers DEF Grown
<1>4. Piece(t, e.frames)
  BY <1>2, PieceStays
<1>5. s # <<>> /\ t[1] = s[1]
  BY <1>1, <1>3
<1>6. e.start <= t[Len(t)].timestamp
  <2>1. s[Len(s)].timestamp < x.timestamp
    BY <1>1, <1>3
  <2>2. s[Len(s)].timestamp \in Nat
    BY <1>1, <1>3, FrameFields
  <2>3. x.timestamp \in Nat
    BY <1>1 DEF Frame
  <2>4. e.start <= s[Len(s)].timestamp
    BY DEF EventIsRight
  <2> QED
    BY <1>1, <1>2, <2>1, <2>2, <2>3, <2>4
<1> QED
  BY <1>4, <1>5, <1>6 DEF EventIsRight

(* So do all the events.                                                   *)
LEMMA EventsStayRight ==
  ASSUME NEW s, NEW x, NEW t, Grown(s, x, t), NEW evs, EventsAreRight(s, evs)
  PROVE  EventsAreRight(t, evs)
<1>1. evs \in Seq(Event) /\ \A i \in 1..Len(evs) : evs[i] \in Event
  BY ElementOfSeq DEF EventsAreRight
<1>2. ASSUME NEW i \in 1..Len(evs) PROVE EventIsRight(t, evs[i])
  BY <1>1, EventStaysRight DEF EventsAreRight
<1>3. ASSUME NEW i \in 1..Len(evs)
      PROVE  CoversWindow(t, evs[i].frames[1].n, evs[i].start - Lookback, evs, i - 1)
  <2> DEFINE e == evs[i]
  <2>1. e.frames \in Seq(Frame) /\ e.frames # <<>> /\ Piece(s, e.frames)
    BY <1>1 DEF Event, EventIsRight, EventsAreRight
  <2>2. e.frames[1].n \in 1..Len(s) /\ Len(s) \in Nat
    BY <2>1, PieceNumbers DEF Grown
  <2>3. \A k \in 1..(e.frames[1].n - 1) : t[k] = s[k]
    BY <2>2, GrownStream
  <2> QED
    BY <2>3 DEF CoversWindow, EventsAreRight
<1> QED
  BY <1>1, <1>2, <1>3 DEF EventsAreRight, FollowsEvent

(* The last event may get longer or end: what it follows stays the same.   *)
LEMMA LastEventChanges ==
  ASSUME NEW s, NEW evs, EventsAreRight(s, evs), evs # <<>>,
         NEW e \in Event, EventIsRight(s, e), e.start = evs[Len(evs)].start,
         e.frames[1] = evs[Len(evs)].frames[1]
  PROVE  /\ EventsAreRight(s, [evs EXCEPT ![Len(evs)] = e])
         /\ Len([evs EXCEPT ![Len(evs)] = e]) = Len(evs)
         /\ [evs EXCEPT ![Len(evs)] = e][Len(evs)] = e
         /\ [evs EXCEPT ![Len(evs)] = e] # <<>>
<1> DEFINE n == Len(evs)
           E == [evs EXCEPT ![n] = e]
<1>1. evs \in Seq(Event) /\ n \in Nat \ {0} /\ DOMAIN evs = 1..n
  BY EmptySeq, LenProperties DEF EventsAreRight
<1>2. E \in Seq(Event) /\ Len(E) = n /\ E[n] = e /\ \A i \in 1..(n - 1) : E[i] = evs[i]
  <2>1. n \in 1..n
    BY <1>1
  <2>2. /\ E \in Seq(Event) /\ Len(E) = n
        /\ \A i \in 1..n : E[i] = IF i = n THEN e ELSE evs[i]
    BY <1>1, <2>1, ExceptSeq
  <2> HIDE DEF E, n
  <2>3. \A i \in 1..(n - 1) : i \in 1..n /\ i # n
    BY <1>1
  <2> QED
    BY <2>1, <2>2, <2>3
<1> HIDE DEF E
<1>3. E # <<>>
  BY <1>1, <1>2, EmptySeq
<1>9. e.start = evs[n].start /\ e.frames[1] = evs[n].frames[1]
  OBVIOUS
<1>10. \A i \in 1..n : EventIsRight(s, evs[i])
  BY DEF EventsAreRight
<1>11. /\ \A i \in 1..n : i = n \/ i \in 1..(n - 1)
       /\ \A i \in 1..n : i > 1 => i - 1 \in 1..(n - 1) /\ i - 1 \in 1..n
  <2> HIDE DEF n
  <2> QED
    BY <1>1
<1>4. ASSUME NEW i \in 1..n
      PROVE  /\ EventIsRight(s, E[i]) /\ E[i].start = evs[i].start
             /\ E[i].frames[1] = evs[i].frames[1]
             /\ i > 1 => E[i - 1] = evs[i - 1] /\ i - 1 \in 1..n
  <2> HIDE DEF n
  <2> QED
    BY <1>2, <1>9, <1>10, <1>11
<1>5. ASSUME NEW i \in 1..n PROVE i > 1 => FollowsEvent(s, E[i - 1], E[i])
  BY <1>4 DEF EventsAreRight, FollowsEvent
<1>6. ASSUME NEW i \in 1..n
      PROVE  CoversWindow(s, E[i].frames[1].n, E[i].start - Lookback, E, i - 1)
  <2>1. CoversWindow(s, evs[i].frames[1].n, evs[i].start - Lookback, evs, i - 1)
    BY DEF EventsAreRight
  <2>2. i - 1 > 0 => i > 1
    OBVIOUS
  <2> QED
    BY <1>4, <2>1, <2>2 DEF CoversWindow
<1>7. EventsAreRight(s, E)
  BY <1>2, <1>4, <1>5, <1>6 DEF EventsAreRight
<1> QED
  BY <1>2, <1>3, <1>7 DEF E

(* A new event may follow them.                                            *)
LEMMA EventStarts ==
  ASSUME NEW s, NEW evs, EventsAreRight(s, evs),
         NEW e \in Event, EventIsRight(s, e),
         evs # <<>> => FollowsEvent(s, evs[Len(evs)], e),
         CoversWindow(s, e.frames[1].n, e.start - Lookback, evs, Len(evs))
  PROVE  /\ EventsAreRight(s, Append(evs, e)) /\ Append(evs, e) # <<>>
         /\ Append(evs, e)[Len(Append(evs, e))] = e
<1> DEFINE n == Len(evs)
           E == Append(evs, e)
<1>1. evs \in Seq(Event) /\ n \in Nat
  BY LenProperties DEF EventsAreRight
<1>2. /\ E \in Seq(Event) /\ Len(E) = n + 1 /\ E[n + 1] = e /\ E # <<>>
      /\ \A i \in 1..n : E[i] = evs[i]
  BY <1>1, AppendProperties
<1>3. evs # <<>> <=> n > 0
  BY <1>1, EmptySeq
<1> HIDE DEF E
<1>4. ASSUME NEW i \in 1..n
      PROVE  /\ EventIsRight(s, E[i]) /\ (i > 1 => FollowsEvent(s, E[i - 1], E[i]))
             /\ CoversWindow(s, E[i].frames[1].n, E[i].start - Lookback, E, i - 1)
  <2>1. E[i] = evs[i] /\ (i > 1 => i - 1 \in 1..n /\ E[i - 1] = evs[i - 1])
    BY <1>1, <1>2
  <2>2. EventIsRight(s, evs[i]) /\ (i > 1 => FollowsEvent(s, evs[i - 1], evs[i]))
    BY DEF EventsAreRight
  <2>3. CoversWindow(s, evs[i].frames[1].n, evs[i].start - Lookback, evs, i - 1)
    BY DEF EventsAreRight
  <2>4. i - 1 > 0 => i > 1
    OBVIOUS
  <2>5. CoversWindow(s, E[i].frames[1].n, E[i].start - Lookback, E, i - 1)
    BY <2>1, <2>3, <2>4 DEF CoversWindow
  <2> QED
    BY <2>1, <2>2, <2>5
<1>5. n + 1 > 1 => FollowsEvent(s, E[n], E[n + 1])
  <2>1. n + 1 > 1 => n \in 1..n /\ evs # <<>>
    BY <1>1, <1>3
  <2> QED
    BY <1>2, <2>1
<1>6. CoversWindow(s, E[n + 1].frames[1].n, E[n + 1].start - Lookback, E, n)
  <2>1. n > 0 => E[n] = evs[n]
    BY <1>1, <1>2
  <2> QED
    BY <1>2, <2>1 DEF CoversWindow
<1>7. ASSUME NEW i \in 1..(n + 1)
      PROVE  /\ EventIsRight(s, E[i]) /\ (i > 1 => FollowsEvent(s, E[i - 1], E[i]))
             /\ CoversWindow(s, E[i].frames[1].n, E[i].start - Lookback, E, i - 1)
  <2>1. i \in 1..n \/ (i = n + 1 /\ i - 1 = n)
    BY <1>1
  <2> QED
    BY <1>2, <1>4, <1>5, <1>6, <2>1
<1>8. EventsAreRight(s, E)
  BY <1>2, <1>7 DEF EventsAreRight
<1> QED
  BY <1>2, <1>8 DEF E

-----------------------------------------------------------------------------
(* No two key frames precede the window.                                   *)
OneTooEarly(frames, boundary) ==
  \A j, k \in KeyFrames(frames) :
    frames[j].timestamp <= boundary /\ frames[k].timestamp <= boundary => j = k

(* What is left in the buffer when a frame was pushed and the window moved *)
(* on: the end of the stream, with at most one key frame that is too old   *)
(* and without frames that the window still needs.                         *)
LEMMA BufferTakesFrame ==
  ASSUME NEW s, NEW x, NEW t, Grown(s, x, t), NEW b, BufferIsRight(s, b),
         b.frames # <<>> => LastNumber(b.frames) = Len(s),
         NEW c, c = UpdateLookBackWindow(PushFrame(b, x), x.timestamp - Lookback)
  PROVE  /\ BufferIsRight(t, c) /\ c.frames # <<>> /\ LastNumber(c.frames) = Len(t)
         /\ b.frames = <<>> => Len(c.frames) = 1 /\ c.frames[1] = x
         /\ OneTooEarly(c.frames, x.timestamp - Lookback)
         /\ b.frames # <<>> =>
              /\ c.frames[1].n >= b.frames[1].n
              /\ c.frames[1] = b.frames[1] \/ c.frames[1].key
              /\ \A i \in b.frames[1].n..(c.frames[1].n - 1) :
                   t[i].timestamp < x.timestamp - Lookback
<1> DEFINE boundary == x.timestamp - Lookback
           d == PushFrame(b, x)
           frames == Append(b.frames, x)
<1>1. x \in Frame /\ x.timestamp \in Nat /\ boundary \in Int /\ InOrder(t)
  <2>1. x \in Frame /\ InOrder(t)
    BY GrownStream
  <2>2. x.timestamp \in Nat
    BY <2>1 DEF Frame
  <2> QED
    BY <2>1, <2>2, OptionsAssumption
<1>2. b.frames \in Seq(Frame) /\ Piece(s, b.frames) /\ Exact(b) /\ Len(b.frames) \in Nat
  BY BufferFields DEF BufferIsRight, Exact, Counted
<1>3. /\ frames \in Seq(Frame) /\ frames # <<>> /\ Len(frames) = Len(b.frames) + 1
      /\ frames[Len(b.frames) + 1] = x /\ Piece(t, frames) /\ LastNumber(frames) = Len(t)
      /\ b.frames # <<>> => frames[1] = b.frames[1]
  BY <1>2, PieceGoesOn
<1>4. Exact(d) /\ d.frames = frames
  BY <1>1, <1>2, PushMakesExact DEF Exact
<1> HIDE DEF frames, d, boundary
<1>5. Increasing(frames)
  BY <1>1, <1>3, PieceIncreases
<1>6. c.frames = WindowOf(frames, boundary) /\ Exact(c) /\ ~FrontGopIsOut(c, boundary)
  <2>1. c = UpdateLookBackWindow(d, boundary)
    BY DEF d, boundary
  <2> QED
    BY <1>1, <1>4, <1>5, <2>1, LookBackDropsWhatIsOut
<1>7. PICK p \in 1..Len(frames) :
        /\ c.frames = From(frames, p)
        /\ p > 1 => frames[p].key /\ frames[p].timestamp <= boundary
  BY <1>1, <1>3, <1>6, WindowShape
<1>8. /\ c.frames \in Seq(Frame) /\ c.frames # <<>> /\ Piece(t, c.frames)
      /\ c.frames[1] = frames[p] /\ frames[p].n = frames[1].n + p - 1
      /\ LastNumber(c.frames) = Len(t)
  BY <1>1, <1>3, <1>7, PieceFrom
<1>9. b.frames = <<>> => Len(c.frames) = 1 /\ c.frames[1] = x
  <2>1. SUFFICES ASSUME b.frames = <<>> PROVE Len(c.frames) = 1 /\ c.frames[1] = x
    OBVIOUS
  <2>2. Len(frames) = 1 /\ p = 1 /\ frames[1] = x
    BY <1>3, <2>1
  <2>3. c.frames = frames
    BY <1>3, <1>7, <2>2, FromFirst
  <2> QED
    BY <2>2, <2>3
<1>10. OneTooEarly(c.frames, boundary)
  <2>1. Increasing(c.frames)
    BY <1>1, <1>8, PieceIncreases
  <2>2. GopEnds(c.frames, boundary) = {}
    BY <1>1, <1>6, <2>1, NothingIsOut
  <2>3. KeyFrames(c.frames) \in SUBSET Nat
    BY <1>8, KeyFramesFinite
  <2>4. \A j, k \in KeyFrames(c.frames) :
          j < k => ~(c.frames[k].timestamp <= boundary)
    BY <2>2 DEF GopEnds
  <2> QED
    BY <2>3, <2>4 DEF OneTooEarly
<1>11. ASSUME b.frames # <<>>
       PROVE  /\ c.frames[1].n >= b.frames[1].n
              /\ c.frames[1] = b.frames[1] \/ c.frames[1].key
              /\ \A i \in b.frames[1].n..(c.frames[1].n - 1) : t[i].timestamp < boundary
  <2>1. frames[1] = b.frames[1] /\ frames[1].n \in 1..Len(t) /\ Len(t) \in Nat
    BY <1>1, <1>3, <1>11, PieceNumbers
  <2>2. c.frames[1].n = b.frames[1].n + p - 1 /\ c.frames[1].n >= b.frames[1].n
    BY <1>8, <2>1
  <2>3. c.frames[1] = b.frames[1] \/ c.frames[1].key
    <3>1. p = 1 \/ p > 1
      OBVIOUS
    <3> QED
      BY <1>7, <1>8, <2>1, <3>1
  <2>4. ASSUME NEW i \in b.frames[1].n..(c.frames[1].n - 1) PROVE t[i].timestamp < boundary
    <3>1. p > 1
      BY <2>1, <2>2
    <3>2. /\ c.frames[1].n \in 1..Len(t) /\ 1 \in 1..Len(c.frames)
          /\ c.frames[1] = t[c.frames[1].n]
      <4>1. /\ Len(c.frames) \in Nat \ {0} /\ c.frames[1].n \in 1..Len(t)
            /\ \A j \in 1..Len(c.frames) : c.frames[j] = t[c.frames[j].n]
        BY <1>1, <1>8, PieceNumbers
      <4>2. 1 \in 1..Len(c.frames)
        BY <4>1
      <4> QED
        BY <4>1, <4>2
    <3>3. i \in 1..Len(t) /\ i < c.frames[1].n
      BY <2>1, <3>2
    <3>4. t[i].timestamp < t[c.frames[1].n].timestamp
      <4>1. DOMAIN t = 1..Len(t)
        BY <1>1, LenProperties DEF InOrder
      <4> QED
        BY <1>1, <3>2, <3>3, <4>1 DEF InOrder, Increasing
    <3>5. t[c.frames[1].n].timestamp <= boundary
      BY <1>7, <1>8, <3>1, <3>2
    <3>6. t[i].timestamp \in Nat /\ t[c.frames[1].n].timestamp \in Nat
      BY <1>1, <3>2, <3>3, FrameFields DEF InOrder
    <3> QED
      BY <1>1, <3>4, <3>5, <3>6
  <2> QED
    BY <2>2, <2>3, <2>4
<1>12. BufferIsRight(t, c)
  BY <1>6, <1>8 DEF BufferIsRight
<1> QED
  BY <1>8, <1>9, <1>10, <1>11, <1>12 DEF boundary

(* While no event is going on the next one could still begin with the      *)
(* buffer.                                                                 *)
LEMMA WaitingGoesOn ==
  ASSUME NEW s, NEW x, NEW t, Grown(s, x, t), NEW b, BufferIsRight(s, b),
         NEW until, NEW evs, EventsAreRight(s, evs), Waiting(s, b, until, evs),
         NEW c, c = UpdateLookBackWindow(PushFrame(b, x), x.timestamp - Lookback)
  PROVE  Waiting(t, c, until, evs)
<1>1. /\ s \in Seq(Frame) /\ t \in Seq(Frame) /\ x \in Frame /\ Len(s) \in Nat
      /\ Len(t) = Len(s) + 1 /\ t # <<>> /\ t[Len(t)] = x
      /\ \A i \in 1..Len(s) : t[i] = s[i] /\ s[i].timestamp < x.timestamp
      /\ InOrder(s) /\ x.n = Len(s) + 1
  BY GrownStream DEF Grown
<1>2. b.frames # <<>> => LastNumber(b.frames) = Len(s)
  BY DEF Waiting
<1>3. /\ c.frames # <<>> /\ LastNumber(c.frames) = Len(t)
      /\ b.frames = <<>> => Len(c.frames) = 1 /\ c.frames[1] = x
      /\ b.frames # <<>> =>
           /\ c.frames[1].n >= b.frames[1].n
           /\ c.frames[1] = b.frames[1] \/ c.frames[1].key
           /\ \A i \in b.frames[1].n..(c.frames[1].n - 1) :
                t[i].timestamp < x.timestamp - Lookback
  BY <1>2, BufferTakesFrame
<1>4. b.frames \in Seq(Frame) /\ Piece(s, b.frames)
  BY BufferFields DEF BufferIsRight, Exact, Counted
<1>5. evs # <<>> => evs[Len(evs)].end # 0 /\ until = evs[Len(evs)].end + CoolDown
  BY DEF Waiting
<1>6. CASE s = <<>>
  <2>1. Len(s) = 0
    BY <1>6, EmptySeq
  <2>2. b.frames = <<>>
    <3>1. ASSUME b.frames # <<>> PROVE FALSE
      <4>1. Len(s) \in Nat \ {0}
        BY <1>1, <1>4, <3>1, PieceNumbers
      <4> QED
        BY <2>1, <4>1
    <3> QED
      BY <3>1
  <2>3. evs = <<>>
    <3>1. ASSUME evs # <<>> PROVE FALSE
      <4>1. evs \in Seq(Event) /\ Len(evs) \in Nat /\ 1 \in 1..Len(evs)
        BY <3>1, EmptySeq, LenProperties DEF EventsAreRight
      <4>2. evs[1] \in Event /\ EventIsRight(s, evs[1])
        BY <4>1, ElementOfSeq DEF EventsAreRight
      <4> QED
        BY <1>6, <4>2, EventStaysRight
    <3> QED
      BY <3>1
  <2>4. c.frames[1] = x /\ x.n = 1 /\ t[1] = x
    BY <1>1, <1>3, <2>1, <2>2
  <2>5. CoversWindow(t, c.frames[1].n, t[Len(t)].timestamp - Lookback, evs, Len(evs))
    BY <2>4 DEF CoversWindow
  <2> QED
    BY <1>3, <2>3, <2>4, <2>5 DEF Waiting
<1>7. CASE s # <<>>
  <2>1. b.frames # <<>>
    BY <1>7 DEF Waiting
  <2>2. /\ s[1].key => b.frames[1].key
        /\ CoversWindow(s, b.frames[1].n, s[Len(s)].timestamp - Lookback, evs, Len(evs))
        /\ evs # <<>> => b.frames[1].n >= LastNumber(evs[Len(evs)].frames)
    BY <2>1 DEF Waiting
  <2>3. /\ Len(s) \in Nat \ {0} /\ t[1] = s[1] /\ s[Len(s)].timestamp < x.timestamp
        /\ b.frames[1].n \in 1..Len(s)
    <3>1. Len(s) \in Nat \ {0} /\ b.frames[1].n \in 1..Len(s)
      BY <1>1, <1>4, <2>1, PieceNumbers
    <3>2. 1 \in 1..Len(s) /\ Len(s) \in 1..Len(s)
      BY <3>1
    <3> QED
      BY <1>1, <3>1, <3>2
  <2>4. c.frames[1].n \in 1..Len(t)
    <3>1. c.frames \in Seq(Frame) /\ Piece(t, c.frames)
      BY <1>2, BufferTakesFrame, BufferFields DEF BufferIsRight, Exact, Counted
    <3> QED
      BY <1>3, <3>1, PieceNumbers, GrownStream
  <2>5. t[1].key => c.frames[1].key
    BY <1>3, <2>1, <2>2, <2>3
  <2>6. evs # <<>> => c.frames[1].n >= LastNumber(evs[Len(evs)].frames)
    <3>1. SUFFICES ASSUME evs # <<>>
                   PROVE  c.frames[1].n >= LastNumber(evs[Len(evs)].frames)
      OBVIOUS
    <3>2. LastNumber(evs[Len(evs)].frames) \in 1..Len(s)
      <4>1. evs \in Seq(Event) /\ Len(evs) \in Nat /\ Len(evs) \in 1..Len(evs)
        BY <3>1, EmptySeq, LenProperties DEF EventsAreRight
      <4>2. evs[Len(evs)] \in Event /\ EventIsRight(s, evs[Len(evs)])
        BY <4>1, ElementOfSeq DEF EventsAreRight
      <4> QED
        BY <1>1, <4>2, PieceNumbers DEF Event, EventIsRight
    <3> QED
      BY <1>3, <2>1, <2>2, <2>3, <2>4, <3>1, <3>2
  <2>7. CoversWindow(t, c.frames[1].n, x.timestamp - Lookback, evs, Len(evs))
    <3>1. SUFFICES ASSUME NEW i \in 1..(c.frames[1].n - 1)
                   PROVE  t[i].timestamp < x.timestamp - Lookback
                          \/ (Len(evs) > 0 /\ i <= LastNumber(evs[Len(evs)].frames))
      BY DEF CoversWindow
    <3>2. CASE i \in b.frames[1].n..(c.frames[1].n - 1)
      BY <1>3, <2>1, <3>2
    <3>3. CASE i \notin b.frames[1].n..(c.frames[1].n - 1)
      <4>1. i \in 1..(b.frames[1].n - 1) /\ i \in 1..Len(s)
        BY <2>3, <2>4, <3>3
      <4>2. s[i].timestamp < s[Len(s)].timestamp - Lookback
            \/ (Len(evs) > 0 /\ i <= LastNumber(evs[Len(evs)].frames))
        BY <2>2, <4>1 DEF CoversWindow
      <4>3. t[i] = s[i]
        BY <1>1, <4>1
      <4>4. s[i].timestamp < s[Len(s)].timestamp - Lookback
              => s[i].timestamp < x.timestamp - Lookback
        <5>1. s[i].timestamp \in Nat /\ s[Len(s)].timestamp \in Nat /\ x.timestamp \in Nat
          <6>1. Len(s) \in 1..Len(s)
            BY <2>3
          <6> QED
            BY <1>1, <4>1, <6>1, FrameFields DEF Frame
        <5> QED
          BY <2>3, <5>1, OptionsAssumption
      <4> QED
        BY <4>2, <4>3, <4>4
    <3> QED
      BY <3>2, <3>3
  <2> QED
    BY <1>1, <1>3, <1>5, <2>5, <2>6, <2>7 DEF Waiting
<1> QED
  BY <1>6, <1>7

(* The event that is going on gets the frame.                              *)
LEMMA EventGetsFrame ==
  ASSUME NEW s, NEW x, NEW t, Grown(s, x, t), NEW evs, EventsAreRight(s, evs),
         evs # <<>>, evs[Len(evs)].end = 0,
         LastNumber(evs[Len(evs)].frames) = Len(s)
  PROVE  /\ EventsAreRight(t, PushToEvent(evs, x)) /\ PushToEvent(evs, x) # <<>>
         /\ Len(PushToEvent(evs, x)) = Len(evs)
         /\ PushToEvent(evs, x)[Len(evs)].end = 0
         /\ LastNumber(PushToEvent(evs, x)[Len(evs)].frames) = Len(t)
         /\ PushToEvent(evs, x)[Len(evs)].frames[Len(PushToEvent(evs, x)[Len(evs)].frames)] = x
<1> DEFINE n == Len(evs)
           d == evs[n]
           e == [frames |-> Append(d.frames, x), start |-> d.start, end |-> d.end]
<1>1. evs \in Seq(Event) /\ n \in 1..n /\ n \in Nat
  BY EmptySeq, LenProperties DEF EventsAreRight
<1>2. d \in Event /\ EventIsRight(s, d) /\ EventsAreRight(t, evs) /\ EventIsRight(t, d)
  BY <1>1, ElementOfSeq, EventsStayRight DEF EventsAreRight
<1>3. d.frames \in Seq(Frame) /\ d.frames # <<>> /\ Piece(s, d.frames) /\ d.end = 0
      /\ d.start \in Nat /\ d.end \in Nat
      /\ d = [frames |-> d.frames, start |-> d.start, end |-> d.end]
  BY <1>2 DEF Event, EventIsRight
<1> DEFINE frames == Append(d.frames, x)
<1>4. /\ frames \in Seq(Frame) /\ frames # <<>> /\ Len(frames) = Len(d.frames) + 1
      /\ frames[Len(d.frames) + 1] = x /\ Piece(t, frames) /\ LastNumber(frames) = Len(t)
      /\ frames[1] = d.frames[1] /\ Len(d.frames) \in Nat
      /\ \A j \in 1..Len(d.frames) : frames[j] = d.frames[j]
  BY <1>3, PieceGoesOn, LenProperties
<1>5. PushToEvent(evs, x) = [evs EXCEPT ![n] = e]
  <2>1. [d EXCEPT !.frames = Append(@, x)] = e
    <3>1. \A f, b, c, y : [[frames |-> f, start |-> b, end |-> c] EXCEPT !.frames = y] =
                            [frames |-> y, start |-> b, end |-> c]
      OBVIOUS
    <3>2. [d EXCEPT !.frames = frames] =
            [[frames |-> d.frames, start |-> d.start, end |-> d.end] EXCEPT !.frames = frames]
      BY <1>3, Zenon
    <3>3. e = [frames |-> frames, start |-> d.start, end |-> d.end]
      OBVIOUS
    <3>4. [d EXCEPT !.frames = frames] = e
      <4> HIDE DEF d, e, frames
      <4> QED
        BY <3>1, <3>2, <3>3
    <3> QED
      BY <3>4
  <2> QED
    BY <2>1 DEF PushToEvent
<1>6. e.frames = frames /\ e.start = d.start /\ e.end = 0
  BY <1>3
<1>7. e \in Event
  BY <1>3, <1>4 DEF Event
<1>8. EventIsRight(t, e)
  <2>1. \A j, k \in TooEarly(e) : j = k
    <3>1. \A j, k \in TooEarly(d) : j = k
      BY <1>2 DEF EventIsRight
    <3>2. ASSUME NEW j \in TooEarly(e) PROVE j \in TooEarly(d)
      <4>1. /\ j \in 1..Len(frames) /\ frames[j].key
            /\ frames[j].timestamp <= d.start - Lookback
        BY <1>4, <1>6, LenProperties DEF TooEarly
      <4>2. j # Len(d.frames) + 1
        <5>1. SUFFICES ASSUME j = Len(d.frames) + 1 PROVE FALSE
          OBVIOUS
        <5>2. x.timestamp <= d.start - Lookback
          BY <1>4, <4>1, <5>1
        <5>3. d.start <= s[Len(s)].timestamp
          BY <1>2 DEF EventIsRight
        <5>4. /\ s[Len(s)].timestamp < x.timestamp /\ s[Len(s)].timestamp \in Nat
              /\ x.timestamp \in Nat
          <6>1. Len(s) \in 1..Len(s)
            BY <1>3, PieceNumbers DEF Grown
          <6> QED
            BY <6>1, GrownStream, FrameFields DEF Frame
        <5> QED
          BY <1>3, <5>2, <5>3, <5>4, OptionsAssumption
      <4>3. j \in 1..Len(d.frames)
        BY <1>4, <4>1, <4>2
      <4>4. DOMAIN d.frames = 1..Len(d.frames) /\ frames[j] = d.frames[j]
        BY <1>3, <1>4, <4>3, LenProperties
      <4> QED
        BY <4>1, <4>3, <4>4 DEF TooEarly
    <3> QED
      BY <3>1, <3>2
  <2>2. e.start <= t[Len(t)].timestamp
    BY <1>2, <1>6 DEF EventIsRight
  <2>3. t[1].key => e.frames[1].key
    BY <1>2, <1>4, <1>6 DEF EventIsRight
  <2> HIDE DEF e, frames
  <2> QED
    BY <1>4, <1>6, <2>1, <2>2, <2>3 DEF EventIsRight
<1>9. e.start = evs[Len(evs)].start /\ e.frames[1] = evs[Len(evs)].frames[1]
  BY <1>4, <1>6
<1> HIDE DEF e, frames
<1>10. LET E == [evs EXCEPT ![Len(evs)] = e]
       IN  EventsAreRight(t, E) /\ Len(E) = Len(evs) /\ E[Len(evs)] = e /\ E # <<>>
  BY <1>2, <1>7, <1>8, <1>9, LastEventChanges
<1> DEFINE E == PushToEvent(evs, x)
<1>11. EventsAreRight(t, E) /\ Len(E) = Len(evs) /\ E[Len(evs)] = e /\ E # <<>>
  BY <1>5, <1>10
<1> HIDE DEF E
<1> QED
  BY <1>4, <1>6, <1>11 DEF E, LastNumber

(* It ends with a key frame.                                               *)
LEMMA EventMayEnd ==
  ASSUME NEW s, InOrder(s), NEW evs, EventsAreRight(s, evs), evs # <<>>, NEW x \in Frame,
         evs[Len(evs)].frames[Len(evs[Len(evs)].frames)] = x, x.key
  PROVE  /\ EventsAreRight(s, [evs EXCEPT ![Len(evs)].end = x.timestamp])
         /\ Len([evs EXCEPT ![Len(evs)].end = x.timestamp]) = Len(evs)
         /\ [evs EXCEPT ![Len(evs)].end = x.timestamp][Len(evs)].end = x.timestamp
         /\ [evs EXCEPT ![Len(evs)].end = x.timestamp][Len(evs)].frames = evs[Len(evs)].frames
         /\ [evs EXCEPT ![Len(evs)].end = x.timestamp] # <<>>
<1> DEFINE n == Len(evs)
           d == evs[n]
           e == [frames |-> d.frames, start |-> d.start, end |-> x.timestamp]
<1>1. evs \in Seq(Event) /\ n \in 1..n /\ n \in Nat
  BY EmptySeq, LenProperties DEF EventsAreRight
<1>2. d \in Event /\ EventIsRight(s, d)
  BY <1>1, ElementOfSeq DEF EventsAreRight
<1>3. d.frames \in Seq(Frame) /\ d.start \in Nat /\ x.timestamp \in Nat
      /\ d = [frames |-> d.frames, start |-> d.start, end |-> d.end]
  BY <1>2 DEF Event, Frame
<1>4. [evs EXCEPT ![n].end = x.timestamp] = [evs EXCEPT ![n] = e]
  <2>1. [d EXCEPT !.end = x.timestamp] = e
    BY <1>3
  <2> QED
    BY <2>1
<1>5. e \in Event /\ e.frames = d.frames /\ e.start = d.start /\ e.end = x.timestamp
  BY <1>3 DEF Event
<1> HIDE DEF e
<1>6. EventIsRight(s, e)
  BY <1>2, <1>5 DEF EventIsRight, TooEarly
<1>7. e.start = evs[Len(evs)].start /\ e.frames[1] = evs[Len(evs)].frames[1]
  BY <1>5
<1>8. LET E == [evs EXCEPT ![Len(evs)] = e]
      IN  EventsAreRight(s, E) /\ Len(E) = Len(evs) /\ E[Len(evs)] = e /\ E # <<>>
  BY <1>5, <1>6, <1>7, LastEventChanges
<1> DEFINE E == [evs EXCEPT ![Len(evs)].end = x.timestamp]
<1>9. EventsAreRight(s, E) /\ Len(E) = Len(evs) /\ E[Len(evs)] = e /\ E # <<>>
  BY <1>4, <1>8
<1> HIDE DEF E
<1> QED
  BY <1>5, <1>9 DEF E

(* When it has ended, the buffer, with nothing but that key frame, is      *)
(* where the next event may begin.                                         *)
LEMMA WaitingAfterEvent ==
  ASSUME NEW t, NEW x, NEW c, NEW evs, NEW until, t \in Seq(Frame), Len(t) > 0,
         c.frames # <<>>, LastNumber(c.frames) = Len(t),
         Len(c.frames) = 1, c.frames[1] = x, x.key, x.timestamp > 0,
         evs # <<>>, LastNumber(evs[Len(evs)].frames) = Len(t), Len(evs) \in Nat \ {0},
         evs[Len(evs)].end = x.timestamp, until = x.timestamp + CoolDown
  PROVE  Waiting(t, c, until, evs)
<1>1. x.n = Len(t) /\ Len(t) \in Nat
  BY LenProperties DEF LastNumber
<1>2. CoversWindow(t, c.frames[1].n, t[Len(t)].timestamp - Lookback, evs, Len(evs))
  BY <1>1 DEF CoversWindow
<1>3. evs[Len(evs)].end # 0
  OBVIOUS
<1>4. c.frames[1].n >= LastNumber(evs[Len(evs)].frames)
  BY <1>1
<1> QED
  BY <1>2, <1>3, <1>4 DEF Waiting

(* An event starts with everything that is in the buffer.                  *)
LEMMA EventMayStart ==
  ASSUME NEW t, InOrder(t), t # <<>>, NEW c, BufferIsRight(t, c), c.frames # <<>>,
         LastNumber(c.frames) = Len(t), NEW until \in Nat, NEW evs,
         EventsAreRight(t, evs), Waiting(t, c, until, evs),
         until <= t[Len(t)].timestamp,
         OneTooEarly(c.frames, t[Len(t)].timestamp - Lookback),
         NEW E, E = Append(evs, NewEvent(c.frames, t[Len(t)].timestamp))
  PROVE  EventsAreRight(t, E) /\ Going(t, Drained(c), until, E)
<1> DEFINE time == t[Len(t)].timestamp
           e == NewEvent(c.frames, time)
<1>1. c.frames \in Seq(Frame) /\ Piece(t, c.frames) /\ Exact(c)
  BY BufferFields DEF BufferIsRight, Exact, Counted
<1>2. time \in Nat
  <2>1. t \in Seq(Frame) /\ Len(t) \in 1..Len(t)
    BY LenProperties, EmptySeq DEF InOrder
  <2> QED
    BY <2>1, FrameFields
<1>3. e \in Event /\ e.frames = c.frames /\ e.start = time /\ e.end = 0
  BY <1>1, <1>2 DEF Event, NewEvent
<1>4. /\ t[1].key => c.frames[1].key
      /\ CoversWindow(t, c.frames[1].n, time - Lookback, evs, Len(evs))
      /\ evs # <<>> => /\ c.frames[1].n >= LastNumber(evs[Len(evs)].frames)
                       /\ evs[Len(evs)].end # 0 /\ until = evs[Len(evs)].end + CoolDown
  BY DEF Waiting
<1>5. \A j, k \in TooEarly(e) : j = k
  <2>1. TooEarly(e) = {j \in KeyFrames(c.frames) : c.frames[j].timestamp <= time - Lookback}
    BY <1>3 DEF TooEarly, KeyFrames
  <2> QED
    BY <2>1 DEF OneTooEarly
<1> HIDE DEF e
<1>6. EventIsRight(t, e)
  BY <1>1, <1>2, <1>3, <1>4, <1>5 DEF EventIsRight
<1>7. evs # <<>> => FollowsEvent(t, evs[Len(evs)], e)
  BY <1>3, <1>4 DEF FollowsEvent
<1>8. CoversWindow(t, e.frames[1].n, e.start - Lookback, evs, Len(evs))
  BY <1>3, <1>4
<1>9. EventsAreRight(t, E) /\ E # <<>> /\ E[Len(E)] = e
  BY <1>3, <1>6, <1>7, <1>8, EventStarts DEF e
<1>10. Drained(c).frames = <<>>
  BY <1>1, DrainedIsNew, NewIsExact
<1> QED
  BY <1>3, <1>9, <1>10 DEF Going

-----------------------------------------------------------------------------
(* The empty buffer is right.                                              *)
LEMMA EmptyIsRight ==
  ASSUME NEW t, NEW b, Exact(b), b.frames = <<>>
  PROVE  BufferIsRight(t, b)
<1>1. 1..Len(<<>>) = {}
  BY EmptySeq
<1> QED
  BY <1>1 DEF BufferIsRight, Piece

(* What is done with a frame that no event is waiting for.                 *)
LEMMA HandlesWhileWaiting ==
  ASSUME NEW t, InOrder(t), t # <<>>, NEW x, x = t[Len(t)],
         NEW c, BufferIsRight(t, c), c.frames # <<>>, LastNumber(c.frames) = Len(t),
         NEW until \in Nat, NEW count, NEW evs, EventsAreRight(t, evs),
         Waiting(t, c, until, evs),
         OneTooEarly(c.frames, x.timestamp - Lookback),
         Handles(x, c, FALSE, until, count, evs)
  PROVE  /\ BufferIsRight(t, frameBuffer') /\ EventsAreRight(t, events')
         /\ status' \in {"OK", "RESOURCE_EXHAUSTED"} /\ active' \in BOOLEAN
         /\ active' => Going(t, frameBuffer', until, events')
         /\ ~active' => Waiting(t, frameBuffer', until, events')
<1>1. CASE /\ frameBuffer' = c /\ active' = FALSE /\ events' = evs
           /\ status' \in {"OK", "RESOURCE_EXHAUSTED"}
  BY <1>1
<1>2. CASE /\ ~CoolingDown(until, x.timestamp)
           /\ active' = TRUE /\ frameBuffer' = Drained(c) /\ status' = "OK"
           /\ events' = Append(evs, NewEvent(c.frames, x.timestamp))
  <2>1. until <= t[Len(t)].timestamp
    <3>1. t \in Seq(Frame) /\ Len(t) \in 1..Len(t)
      BY LenProperties, EmptySeq DEF InOrder
    <3>2. x.timestamp \in Nat
      BY <3>1, FrameFields
    <3> QED
      BY <1>2, <3>2 DEF CoolingDown
  <2>2. EventsAreRight(t, events') /\ Going(t, Drained(c), until, events')
    BY <1>2, <2>1, EventMayStart
  <2>3. BufferIsRight(t, Drained(c))
    <3>1. Drained(c) = NewFrameBuffer
      BY DrainedIsNew DEF BufferIsRight
    <3> QED
      BY <3>1, NewIsExact, EmptyIsRight
  <2> QED
    BY <1>2, <2>2, <2>3
<1> QED
  BY <1>1, <1>2 DEF Handles

(* What is done with a frame of the active event.                          *)
LEMMA HandlesWhileGoing ==
  ASSUME NEW s, NEW x, NEW t, Grown(s, x, t), NEW b, BufferIsRight(s, b),
         NEW until \in Nat, NEW count, NEW evs, EventsAreRight(s, evs),
         Going(s, b, until, evs),
         NEW c, c = UpdateLookBackWindow(PushFrame(b, x), x.timestamp - Lookback),
         Handles(x, c, TRUE, until, count, evs)
  PROVE  /\ BufferIsRight(t, frameBuffer') /\ EventsAreRight(t, events')
         /\ status' = "OK" /\ active' = TRUE
         /\ Going(t, frameBuffer', until, events')
<1>1. c.frames # <<>> /\ Len(c.frames) = 1 /\ BufferIsRight(t, c)
  BY BufferTakesFrame DEF Going
<1>2. /\ s \in Seq(Frame) /\ Len(s) \in Nat /\ t[Len(t)] = x /\ x.timestamp \in Nat
      /\ \A i \in 1..Len(s) : s[i].timestamp < x.timestamp
  BY GrownStream DEF Frame
<1>3. until < x.timestamp
  <2>1. Len(s) \in 1..Len(s)
    <3>1. evs \in Seq(Event) /\ Len(evs) \in 1..Len(evs)
      BY EmptySeq, LenProperties DEF EventsAreRight, Going
    <3>2. evs[Len(evs)] \in Event /\ EventIsRight(s, evs[Len(evs)])
      BY <3>1, ElementOfSeq DEF EventsAreRight
    <3>3. s # <<>>
      BY <3>2, EventStaysRight
    <3> QED
      BY <1>2, <3>3, EmptySeq
  <2>2. s[Len(s)].timestamp \in Nat
    BY <1>2, <2>1, FrameFields
  <2> QED
    BY <1>2, <2>1, <2>2 DEF Going
<1>4. /\ frameBuffer' = PopFrame(c) /\ events' = PushToEvent(evs, x)
      /\ status' = "OK" /\ active' = TRUE
  <2>1. ~CoolingDown(until, x.timestamp)
    BY <1>2, <1>3 DEF CoolingDown
  <2> QED
    BY <1>1, <2>1 DEF Handles
<1>5. Exact(PopFrame(c)) /\ PopFrame(c).frames = <<>>
  <2>1. Counted(c) /\ c.frames \in Seq(Frame)
    BY <1>1, BufferFields DEF BufferIsRight, Exact, Counted
  <2>2. Counted(PopFrame(c)) /\ PopFrame(c).frames = Tail(c.frames)
    BY <1>1, <2>1, PopKeepsCount
  <2>3. Tail(c.frames) = <<>>
    <3>1. Tail(c.frames) = From(c.frames, 2) /\ From(c.frames, Len(c.frames) + 1) = <<>>
      BY <1>1, <2>1, FromFirst
    <3>2. \A m : m = 1 => m + 1 = 2
      OBVIOUS
    <3>3. Len(c.frames) + 1 = 2
      BY <1>1, <3>2, Zenon
    <3> QED
      BY <3>1, <3>3
  <2> QED
    BY <2>2, <2>3, EmptyHasNone DEF Exact
<1> DEFINE E == PushToEvent(evs, x)
<1>6. /\ EventsAreRight(t, E) /\ E # <<>> /\ Len(E) = Len(evs)
      /\ E[Len(evs)].end = 0 /\ LastNumber(E[Len(evs)].frames) = Len(t)
  BY EventGetsFrame DEF Going
<1> HIDE DEF E
<1>7. Going(t, frameBuffer', until, events')
  BY <1>2, <1>3, <1>4, <1>5, <1>6 DEF Going, E
<1>8. BufferIsRight(t, frameBuffer')
  BY <1>4, <1>5, EmptyIsRight
<1> QED
  BY <1>4, <1>6, <1>7, <1>8 DEF E

(* The frame that arrives makes the stream grow.                           *)
LEMMA NextFrameArrives ==
  ASSUME InOrder(stream), NEW gap \in Nat \ {0}, NEW key \in BOOLEAN
  PROVE  Grown(stream, NextFrame(gap, key), Append(stream, NextFrame(gap, key)))
<1> DEFINE x == NextFrame(gap, key)
<1>1. stream \in Seq(Frame) /\ Len(stream) \in Nat /\ gap \in Nat \ {0}
  BY LenProperties DEF InOrder
<1>2. MinEvent \in Nat /\ Lookback \in Nat
  BY OptionsAssumption
<1>3. CASE stream = <<>>
  <2>1. x.timestamp = MinEvent + Lookback + 1 /\ x.n = Len(stream) + 1 /\ x \in Frame
    BY <1>1, <1>2, <1>3 DEF NextFrame, Frame
  <2> QED
    BY <1>2, <1>3, <2>1 DEF Grown
<1>4. CASE stream # <<>>
  <2> DEFINE last == stream[Len(stream)].timestamp
  <2>1. Len(stream) \in 1..Len(stream)
    BY <1>1, <1>4, EmptySeq
  <2>2. last \in Nat /\ last > MinEvent + Lookback
    BY <1>1, <2>1, FrameFields DEF InOrder
  <2>3. x.timestamp = last + gap
    BY <1>4 DEF NextFrame, LastTimestamp, Last
  <2> HIDE DEF last
  <2>4. x.n = Len(stream) + 1 /\ x.key = key /\ x = [n |-> x.n, timestamp |-> x.timestamp, key |-> x.key]
    BY DEF NextFrame
  <2>5. x.timestamp \in Nat /\ x.timestamp > last /\ x.timestamp > MinEvent + Lookback
    BY <1>1, <1>2, <2>2, <2>3
  <2>6. x \in Frame
    <3> HIDE DEF x
    <3> QED
      BY <1>1, <2>4, <2>5 DEF Frame
  <2> QED
    BY <2>4, <2>5, <2>6 DEF Grown, last
<1> QED
  BY <1>3, <1>4

(* Every frame that RunInternal handles keeps the invariant.               *)
LEMMA RunInternalKeepsInv ==
  ASSUME FilterInv, RunInternal
  PROVE  FilterInv'
<1>1. PICK gap \in Gaps, key \in BOOLEAN, motion \in BOOLEAN :
        LET frame == NextFrame(gap, key)
            latest == LatestMotion(motion, frame.timestamp)
        IN  /\ stream' = Append(stream, frame)
            /\ consecutive' = CountMotion(motion)
            /\ latestMotion' = latest
            /\ \/ ContinuesWith(frame, CountMotion(motion), latest)
               \/ EndsWith(frame, CountMotion(motion), latest)
  BY Zenon DEF RunInternal
<1> DEFINE x == NextFrame(gap, key)
           latest == LatestMotion(motion, x.timestamp)
           count == CountMotion(motion)
           c == Buffered(x)
<1>2. /\ stream' = Append(stream, x) /\ consecutive' = count /\ latestMotion' = latest
      /\ ContinuesWith(x, count, latest) \/ EndsWith(x, count, latest)
  BY <1>1
<1>3. /\ TypeOK /\ BufferIsRight(stream, frameBuffer) /\ EventsAreRight(stream, events)
      /\ InOrder(stream) /\ status = "OK"
      /\ active => Going(stream, frameBuffer, cooldownUntil, events)
      /\ ~active => Waiting(stream, frameBuffer, cooldownUntil, events)
  BY DEF FilterInv, RunInternal
<1>4. Grown(stream, x, stream')
  <2>1. gap \in Nat \ {0}
    BY OptionsAssumption
  <2> QED
    BY <1>2, <1>3, <2>1, NextFrameArrives
<1> HIDE DEF x
<1>5. /\ InOrder(stream') /\ stream' # <<>> /\ stream'[Len(stream')] = x
      /\ x \in Frame /\ x.timestamp \in Nat /\ x.timestamp > 0
      /\ stream' \in Seq(Frame) /\ Len(stream') > 0
  <2>1. /\ InOrder(stream') /\ stream' # <<>> /\ stream'[Len(stream')] = x
        /\ x \in Frame /\ stream' \in Seq(Frame)
    BY <1>4, GrownStream
  <2>2. x.timestamp \in Nat /\ x.timestamp > 0
    <3>1. x.timestamp \in Nat
      BY <2>1 DEF Frame
    <3>2. x.timestamp > MinEvent + Lookback
      BY <1>4 DEF Grown
    <3> QED
      BY <3>1, <3>2, OptionsAssumption
  <2>3. Len(stream') > 0
    BY <2>1, EmptySeq, LenProperties
  <2> QED
    BY <2>1, <2>2, <2>3
<1>6. frameBuffer.frames # <<>> => LastNumber(frameBuffer.frames) = Len(stream)
  BY <1>3 DEF Going, Waiting
<1>7. c = UpdateLookBackWindow(PushFrame(frameBuffer, x), x.timestamp - Lookback)
  BY DEF Buffered
<1> HIDE DEF c, count, latest
<1>8. /\ BufferIsRight(stream', c) /\ c.frames # <<>> /\ LastNumber(c.frames) = Len(stream')
      /\ frameBuffer.frames = <<>> => Len(c.frames) = 1 /\ c.frames[1] = x
      /\ OneTooEarly(c.frames, x.timestamp - Lookback)
  <2>1. BufferIsRight(stream, frameBuffer)
    BY <1>3
  <2> QED
    BY <1>4, <1>6, <1>7, <2>1, BufferTakesFrame
<1>9. cooldownUntil \in Nat /\ active \in BOOLEAN
  BY <1>3 DEF TypeOK
<1> DEFINE Result ==
             /\ BufferIsRight(stream', frameBuffer') /\ EventsAreRight(stream', events')
             /\ status' \in {"OK", "RESOURCE_EXHAUSTED"} /\ active' \in BOOLEAN
             /\ cooldownUntil' \in Nat
             /\ active' => Going(stream', frameBuffer', cooldownUntil', events')
             /\ status' = "OK" /\ ~active'
                  => Waiting(stream', frameBuffer', cooldownUntil', events')
<1>10. ASSUME ContinuesWith(x, count, latest) PROVE Result
  <2>1. Handles(x, c, active, cooldownUntil, count, events) /\ cooldownUntil' = cooldownUntil
    BY <1>10 DEF ContinuesWith, c
  <2>2. CASE active
    <3>1. Handles(x, c, TRUE, cooldownUntil, count, events)
      BY <1>9, <2>1, <2>2 DEF Handles
    <3>2. Going(stream, frameBuffer, cooldownUntil, events)
      BY <1>3, <2>2
    <3>3. /\ BufferIsRight(stream', frameBuffer') /\ EventsAreRight(stream', events')
          /\ status' = "OK" /\ active' = TRUE
          /\ Going(stream', frameBuffer', cooldownUntil, events')
      BY <1>3, <1>4, <1>7, <1>9, <3>1, <3>2, HandlesWhileGoing
    <3> QED
      BY <1>9, <2>1, <3>3
  <2>3. CASE ~active
    <3>1. Handles(x, c, FALSE, cooldownUntil, count, events)
      BY <1>9, <2>1, <2>3 DEF Handles
    <3>2. Waiting(stream', c, cooldownUntil, events)
      BY <1>3, <1>4, <1>7, <2>3, WaitingGoesOn
    <3>3. EventsAreRight(stream', events)
      BY <1>3, <1>4, EventsStayRight
    <3>4. /\ BufferIsRight(stream', frameBuffer') /\ EventsAreRight(stream', events')
          /\ status' \in {"OK", "RESOURCE_EXHAUSTED"} /\ active' \in BOOLEAN
          /\ active' => Going(stream', frameBuffer', cooldownUntil, events')
          /\ ~active' => Waiting(stream', frameBuffer', cooldownUntil, events')
      BY <1>5, <1>8, <1>9, <3>1, <3>2, <3>3, HandlesWhileWaiting
    <3> QED
      BY <1>9, <2>1, <3>4
  <2> QED
    BY <2>2, <2>3
<1>11. ASSUME EndsWith(x, count, latest) PROVE Result
  <2> DEFINE until == x.timestamp + CoolDown
             pushed == PushToEvent(events, x)
             n == Len(events)
             ended == [pushed EXCEPT ![n].end = x.timestamp]
  <2>1. /\ x.key /\ active /\ cooldownUntil' = until
        /\ \/ Handles(x, c, FALSE, until, count, ended)
           \/ /\ active' = FALSE /\ status' = "RESOURCE_EXHAUSTED"
              /\ events' = pushed /\ frameBuffer' = frameBuffer
    BY <1>11 DEF EndsWith, EventEnds, c
  <2>2. until \in Nat
    BY <1>5, OptionsAssumption
  <2>3. Going(stream, frameBuffer, cooldownUntil, events)
    BY <1>3, <2>1
  <2>4. /\ EventsAreRight(stream', pushed) /\ pushed # <<>> /\ Len(pushed) = n
        /\ LastNumber(pushed[n].frames) = Len(stream')
        /\ pushed[n].frames[Len(pushed[n].frames)] = x
    BY <1>3, <1>4, <2>3, EventGetsFrame DEF Going
  <2> HIDE DEF pushed, until
  <2>5. /\ EventsAreRight(stream', ended) /\ Len(ended) = n /\ ended # <<>>
        /\ ended[n].end = x.timestamp /\ ended[n].frames = pushed[n].frames
    BY <1>5, <2>1, <2>4, EventMayEnd
  <2>6. n \in Nat \ {0}
    BY <1>3, <2>3, EmptySeq, LenProperties DEF EventsAreRight, Going
  <2> HIDE DEF ended
  <2>7. CASE Handles(x, c, FALSE, until, count, ended)
    <3>1. Waiting(stream', c, until, ended)
      <4>1. Len(c.frames) = 1 /\ c.frames[1] = x
        BY <1>8, <2>3 DEF Going
      <4>2. until = x.timestamp + CoolDown
        BY DEF until
      <4> QED
        BY <1>5, <1>8, <2>1, <2>4, <2>5, <2>6, <4>1, <4>2, WaitingAfterEvent
    <3>2. /\ BufferIsRight(stream', frameBuffer') /\ EventsAreRight(stream', events')
          /\ status' \in {"OK", "RESOURCE_EXHAUSTED"} /\ active' \in BOOLEAN
          /\ active' => Going(stream', frameBuffer', until, events')
          /\ ~active' => Waiting(stream', frameBuffer', until, events')
      BY <1>5, <1>8, <2>2, <2>5, <2>7, <3>1, HandlesWhileWaiting
    <3> QED
      BY <2>1, <2>2, <3>2
  <2>8. CASE /\ active' = FALSE /\ status' = "RESOURCE_EXHAUSTED"
             /\ events' = pushed /\ frameBuffer' = frameBuffer
    <3>1. BufferIsRight(stream', frameBuffer)
      BY <1>3, <2>3, EmptyIsRight DEF BufferIsRight, Going
    <3> QED
      BY <2>1, <2>2, <2>4, <2>8, <3>1
  <2> QED
    BY <2>1, <2>7, <2>8
<1>12. Result
  BY <1>2, <1>10, <1>11
<1>13. TypeOK'
  <2>1. frameBuffer' \in FrameBuffer /\ events' \in Seq(Event)
    BY <1>12 DEF BufferIsRight, EventsAreRight, Exact, Counted
  <2>2. consecutive' \in Nat /\ latestMotion' \in Nat
    <3>1. count \in Nat
      BY <1>3 DEF count, CountMotion, TypeOK
    <3>2. latest \in Nat
      BY <1>3, <1>5 DEF latest, LatestMotion, TypeOK
    <3> QED
      BY <1>2, <3>1, <3>2
  <2> QED
    BY <1>5, <1>12, <2>1, <2>2 DEF TypeOK, Event
<1> QED
  BY <1>5, <1>12, <1>13 DEF FilterInv

(* The invariant holds in every state the filter reaches.                  *)
THEOREM FilterIsRight == Spec => []FilterInv
<1>1. Init => FilterInv
  <2> SUFFICES ASSUME Init PROVE FilterInv
    OBVIOUS
  <2>1. /\ stream = <<>> /\ frameBuffer = NewFrameBuffer /\ active = FALSE
        /\ consecutive = 0 /\ latestMotion = 0 /\ cooldownUntil = 0
        /\ status = "OK" /\ events = <<>>
    BY DEF Init
  <2>2. Len(<<>>) = 0 /\ <<>> \in Seq(Frame) /\ <<>> \in Seq(Event) /\ DOMAIN <<>> = {}
    OBVIOUS
  <2>3. BufferIsRight(stream, frameBuffer)
    BY <2>1, NewIsExact, EmptyIsRight
  <2>4. InOrder(stream) /\ EventsAreRight(stream, events)
    BY <2>1, <2>2 DEF InOrder, Increasing, EventsAreRight
  <2>5. Waiting(stream, frameBuffer, cooldownUntil, events)
    BY <2>1, NewIsExact DEF Waiting
  <2>6. TypeOK
    BY <2>1, <2>2, <2>3 DEF TypeOK, BufferIsRight, Exact, Counted, Event
  <2> QED
    BY <2>1, <2>3, <2>4, <2>5, <2>6 DEF FilterInv
<1>2. FilterInv /\ [Next]_vars => FilterInv'
  <2> SUFFICES ASSUME FilterInv, [Next]_vars PROVE FilterInv'
    OBVIOUS
  <2>1. CASE RunInternal
    BY <2>1, RunInternalKeepsInv
  <2>2. CASE DetectorFails
    BY <2>2 DEF DetectorFails, FilterInv, TypeOK
  <2>3. CASE UNCHANGED vars
    BY <2>3 DEF vars, FilterInv, TypeOK
  <2> QED
    BY <2>1, <2>2, <2>3 DEF Next
<1> QED
  BY <1>1, <1>2, PTL DEF Spec

-----------------------------------------------------------------------------
(* Every variable keeps its type, whatever the options and the length of   *)
(* the stream.                                                             *)
THEOREM TypeCorrect == Spec => []TypeOK
<1>1. FilterInv => TypeOK
  BY DEF FilterInv
<1> QED
  BY <1>1, FilterIsRight, PTL

(* RunInternal never finds more than the frame it has just pushed in the   *)
(* buffer of an active event: its internal error is never returned.        *)
THEOREM NothingPilesUp == Spec => []NoPileUp
<1>1. FilterInv => NoPileUp
  BY DEF FilterInv, NoPileUp, Going
<1> QED
  BY <1>1, FilterIsRight, PTL

(* The fields and the frames of a recorded event.                          *)
LEMMA RecordedEvent ==
  ASSUME FilterInv, NEW i \in DOMAIN events
  PROVE  /\ i \in 1..Len(events) /\ Len(events) \in Nat
         /\ events[i].frames \in Seq(Frame) /\ events[i].start \in Nat /\ events[i].end \in Nat
         /\ DOMAIN events[i].frames = 1..Len(events[i].frames)
         /\ EventIsRight(stream, events[i])
         /\ i > 1 => /\ i - 1 \in 1..Len(events)
                     /\ FollowsEvent(stream, events[i - 1], events[i])
         /\ CoversWindow(stream, events[i].frames[1].n, events[i].start - Lookback, events, i - 1)
<1>1. /\ EventsAreRight(stream, events) /\ events \in Seq(Event)
      /\ DOMAIN events = 1..Len(events) /\ Len(events) \in Nat
  BY LenProperties DEF FilterInv, EventsAreRight
<1>2. i \in 1..Len(events) /\ events[i] \in Event
  BY <1>1, ElementOfSeq
<1>3. /\ events[i].frames \in Seq(Frame) /\ events[i].start \in Nat /\ events[i].end \in Nat
      /\ DOMAIN events[i].frames = 1..Len(events[i].frames)
  BY <1>2, LenProperties DEF Event
<1>4. i > 1 => i - 1 \in 1..Len(events)
  BY <1>1, <1>2
<1> QED
  BY <1>1, <1>2, <1>3, <1>4 DEF EventsAreRight

(* What the filter pushes for an event is a gapless piece of the stream    *)
(* that begins with a key frame if the stream does, ends with one and      *)
(* overlaps the event before in one frame at most: StartEvent, PushToEvent *)
(* and EndEvent leave nothing out that a decoder needs.                    *)
THEOREM EventsCanBeDecoded == Spec => []EventsAreDecodable
<1>1. FilterInv => EventsAreDecodable
  <2>1. SUFFICES ASSUME FilterInv, NEW i \in DOMAIN events
                 PROVE  /\ events[i].frames # <<>> /\ Segment(events, i)
                        /\ stream[1].key => events[i].frames[1].key
                        /\ events[i].end # 0 => Last(events[i].frames).key
                        /\ i > 1 => events[i].frames[1].n >= Last(events[i-1].frames).n
    BY DEF EventsAreDecodable
  <2>2. /\ EventIsRight(stream, events[i])
        /\ DOMAIN events[i].frames = 1..Len(events[i].frames)
        /\ i > 1 => FollowsEvent(stream, events[i - 1], events[i])
    BY <2>1, RecordedEvent
  <2>3. Segment(events, i)
    BY <2>2 DEF EventIsRight, Piece, Segment
  <2> QED
    BY <2>2, <2>3 DEF EventIsRight, FollowsEvent, LastNumber, Last
<1> QED
  BY <1>1, FilterIsRight, PTL

(* A new event takes along every frame of the look-back window that the    *)
(* event before did not get, and of what precedes the window no more than  *)
(* the GOP that the window begins in.                                      *)
THEOREM LookbackIsCovered == Spec => []LookbackCovered
<1>1. FilterInv => LookbackCovered
  <2>1. SUFFICES ASSUME FilterInv, NEW i \in DOMAIN events
                 PROVE  LET first == events[i].frames[1].n
                            from  == events[i].start - Lookback
                        IN  /\ \A n \in 1..(first - 1) :
                                 stream[n].timestamp < from
                                 \/ (i > 1 /\ n <= Last(events[i-1].frames).n)
                            /\ Cardinality({j \in DOMAIN events[i].frames :
                                 events[i].frames[j].key
                                 /\ events[i].frames[j].timestamp <= from}) <= 1
    BY DEF LookbackCovered
  <2> DEFINE T == TooEarly(events[i])
  <2>2. /\ EventIsRight(stream, events[i])
        /\ i \in 1..Len(events) /\ Len(events) \in Nat
        /\ CoversWindow(stream, events[i].frames[1].n, events[i].start - Lookback, events, i - 1)
    BY <2>1, RecordedEvent
  <2>3. ASSUME NEW n \in 1..(events[i].frames[1].n - 1)
        PROVE  stream[n].timestamp < events[i].start - Lookback
               \/ (i > 1 /\ n <= Last(events[i-1].frames).n)
    <3>1. i - 1 > 0 => i > 1
      BY <2>2
    <3> QED
      BY <2>2, <3>1 DEF CoversWindow, LastNumber, Last
  <2>4. Cardinality(T) <= 1
    <3>1. \A j, k \in T : j = k
      BY <2>2 DEF EventIsRight
    <3> HIDE DEF T
    <3>2. CASE T = {}
      BY <3>2, FS_EmptySet
    <3>3. CASE T # {}
      <4>1. PICK m : T = {m}
        BY <3>1, <3>3
      <4> QED
        BY <4>1, FS_Singleton
    <3> QED
      BY <3>2, <3>3
  <2> QED
    BY <2>3, <2>4 DEF TooEarly
<1> QED
  BY <1>1, FilterIsRight, PTL

(* No event starts before the cool-down period of the one before is over,  *)
(* however much motion there is.                                           *)
THEOREM CoolDownIsKept == Spec => []CoolDownKept
<1>1. FilterInv => CoolDownKept
  BY RecordedEvent DEF CoolDownKept, FollowsEvent
<1> QED
  BY <1>1, FilterIsRight, PTL

(* In every state, whatever frame comes next: UpdateLookBackWindow drops   *)
(* what is out of the window and nothing else, although PopFrame leaves a  *)
(* timestamp behind that is not right in general.                          *)
THEOREM WindowStaysExact == Spec => []WindowIsExact
<1>1. FilterInv => WindowIsExact
  <2>1. SUFFICES ASSUME FilterInv, NEW boundary \in 0..LastTimestamp, NEW key \in BOOLEAN
                 PROVE  LET b == PushFrame(frameBuffer, NextFrame(1, key))
                        IN  UpdateLookBackWindow(b, boundary).frames =
                              WindowOf(b.frames, boundary)
    BY DEF WindowIsExact
  <2> DEFINE x == NextFrame(1, key)
             b == PushFrame(frameBuffer, x)
             t == Append(stream, x)
             old == frameBuffer.frames
             n == Len(old)
  <2>2. InOrder(stream) /\ Exact(frameBuffer) /\ Piece(stream, old)
    BY <2>1 DEF FilterInv, BufferIsRight
  <2>3. Grown(stream, x, t)
    BY <2>2, NextFrameArrives
  <2>4. old \in Seq(Frame) /\ n \in Nat
    BY <2>2, BufferFields DEF Exact, Counted
  <2> HIDE DEF x, t
  <2>5. /\ x \in Frame
        /\ \A i \in 1..Len(stream) : stream[i].timestamp < x.timestamp
    BY <2>3, GrownStream
  <2>6. Exact(b) /\ b.frames = Append(old, x)
    BY <2>2, <2>5, PushMakesExact DEF Exact
  <2> HIDE DEF b, n, old
  <2>7. /\ b.frames \in Seq(Frame) /\ Len(b.frames) = n + 1 /\ b.frames[n + 1] = x
        /\ \A i \in 1..n : b.frames[i] = old[i]
    BY <2>4, <2>5, <2>6, AppendProperties DEF n
  <2>8. Increasing(b.frames)
    <3>1. Increasing(old) /\ DOMAIN old = 1..n
      BY <2>2, <2>4, PieceIncreases, LenProperties DEF n
    <3>2. \A i \in 1..n : old[i].timestamp < x.timestamp
      BY <2>2, <2>5 DEF Piece, n
    <3>3. SUFFICES ASSUME NEW i \in 1..(n + 1), NEW j \in 1..(n + 1), i < j
                   PROVE  b.frames[i].timestamp < b.frames[j].timestamp
      <4>1. DOMAIN b.frames = 1..(n + 1)
        BY <2>7, LenProperties
      <4> QED
        BY <4>1 DEF Increasing
    <3>4. i \in 1..n /\ (j \in 1..n \/ j = n + 1)
      BY <2>4, <3>3
    <3> QED
      BY <2>7, <3>1, <3>2, <3>3, <3>4 DEF Increasing
  <2>9. boundary \in Int
    OBVIOUS
  <2>10. UpdateLookBackWindow(b, boundary).frames = WindowOf(b.frames, boundary)
    BY <2>6, <2>8, <2>9, LookBackDropsWhatIsOut
  <2> QED
    BY <2>10 DEF b, x
<1> QED
  BY <1>1, FilterIsRight, PTL
=============================================================================
