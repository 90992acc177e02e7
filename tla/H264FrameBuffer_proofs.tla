----------------------- MODULE H264FrameBuffer_proofs -----------------------
(***************************************************************************)
(* What the methods of H264FrameBuffer do to a buffer whose bookkeeping is *)
(* right, for buffers of any length.                                       *)
(***************************************************************************)
EXTENDS H264FrameBuffer, FiniteSetTheorems, SequenceTheorems, WellFoundedInduction, TLAPS

-----------------------------------------------------------------------------
(* Induction over the natural numbers, with a set in the place of a        *)
(* predicate: a least number outside of the set would be the successor of  *)
(* a number in it.                                                         *)
LEMMA Induction ==
  ASSUME NEW T, 0 \in T, \A n \in Nat : n \in T => n + 1 \in T
  PROVE  Nat \subseteq T
<1> SUFFICES ASSUME Nat \ T # {} PROVE FALSE
  OBVIOUS
<1>1. PICK m \in Nat \ T : \A k \in Nat \ T : <<k, m>> \notin OpToRel(<, Nat)
  BY NatLessThanWellFounded, WFMin
<1>2. \A k \in Nat \ T : ~(k < m)
  BY <1>1 DEF OpToRel
<1>3. m # 0 /\ m - 1 \in Nat /\ m \notin T
  OBVIOUS
<1>4. m - 1 \in T
  BY <1>2, <1>3
<1> QED
  BY <1>3, <1>4

(* A set of natural numbers has a least element.                           *)
LEMMA Least ==
  ASSUME NEW S \in SUBSET Nat, S # {}
  PROVE  \E m \in S : \A k \in S : m <= k
<1>1. PICK m \in S : \A k \in S : <<k, m>> \notin OpToRel(<, Nat)
  BY NatLessThanWellFounded, WFMin
<1>2. \A k \in S : ~(k < m)
  BY <1>1 DEF OpToRel
<1> QED
  BY <1>2

(* A bounded set of natural numbers has a greatest element.                *)
LEMMA Greatest ==
  ASSUME NEW n \in Nat, NEW S \in SUBSET (1..n), S # {}
  PROVE  \E m \in S : \A k \in S : k <= m
<1> DEFINE D == {n - k : k \in S}
<1>1. D \in SUBSET Nat /\ D # {}
  <2>1. \A k \in S : k \in Int /\ k <= n
    OBVIOUS
  <2>2. \A k \in S : n - k \in Nat
    BY <2>1
  <2> QED
    BY <2>2
<1>2. PICK d \in D : \A e \in D : d <= e
  BY <1>1, Least
<1>3. PICK m \in S : d = n - m
  OBVIOUS
<1>4. \A k \in S : k \in Int /\ n - m <= n - k
  BY <1>2, <1>3
<1>5. \A k \in S : k <= m
  BY <1>4
<1> QED
  BY <1>5

-----------------------------------------------------------------------------
(* The elements of a sequence of frames.                                   *)
LEMMA FrameFields ==
  ASSUME NEW frames \in Seq(Frame)
  PROVE  /\ DOMAIN frames = 1..Len(frames) /\ Len(frames) \in Nat
         /\ \A i \in 1..Len(frames) :
              /\ frames[i] \in Frame /\ frames[i].n \in Nat /\ frames[i].timestamp \in Nat
              /\ frames[i].key \in BOOLEAN
<1>1. DOMAIN frames = 1..Len(frames) /\ Len(frames) \in Nat
  BY LenProperties
<1>2. \A i \in 1..Len(frames) : frames[i] \in Frame
  BY ElementOfSeq
<1>3. \A x \in Frame : x.n \in Nat /\ x.timestamp \in Nat /\ x.key \in BOOLEAN
  BY DEF Frame
<1> QED
  BY <1>1, <1>2, <1>3

(* The key frames of a sequence.                                           *)
LEMMA KeyFramesFinite ==
  ASSUME NEW frames \in Seq(Frame)
  PROVE  /\ KeyFrames(frames) \in SUBSET (1..Len(frames))
         /\ KeyFrames(frames) \in SUBSET Nat
         /\ IsFiniteSet(KeyFrames(frames)) /\ Cardinality(KeyFrames(frames)) \in Nat
         /\ Cardinality(KeyFrames(frames)) <= Len(frames)
<1>1. KeyFrames(frames) \in SUBSET (1..Len(frames)) /\ Len(frames) \in Nat
  BY LenProperties DEF KeyFrames
<1>2. IsFiniteSet(1..Len(frames)) /\ Cardinality(1..Len(frames)) = Len(frames)
  <2>1. ASSUME NEW n \in Nat PROVE IsFiniteSet(1..n) /\ Cardinality(1..n) = n
    <3>1. IsFiniteSet(1..n) /\ Cardinality(1..n) = IF 1 > n THEN 0 ELSE n - 1 + 1
      BY FS_Interval
    <3> DEFINE c == Cardinality(1..n)
    <3>2. c = IF 1 > n THEN 0 ELSE n - 1 + 1
      BY <3>1
    <3> HIDE DEF c
    <3>3. c = n
      BY <3>2
    <3> QED
      BY <3>1, <3>3 DEF c
  <2> QED
    BY <1>1, <2>1, Zenon
<1> QED
  BY <1>1, <1>2, FS_Subset, FS_CardinalityType

(* The second key frame is the one with a single key frame before it.      *)
LEMMA SecondHasOneBefore ==
  ASSUME NEW frames \in Seq(Frame), NEW i
  PROVE  IsSecondKeyFrame(frames, i) <=>
           /\ i \in KeyFrames(frames)
           /\ \E f \in KeyFrames(frames) : f < i /\ \A j \in KeyFrames(frames) : j < i => j = f
<1> DEFINE S == {j \in KeyFrames(frames) : j < i}
<1>1. IsFiniteSet(S)
  BY KeyFramesFinite, FS_Subset
<1>2. Cardinality(S) = 1 <=> \E f : S = {f}
  BY <1>1, FS_Singleton
<1>3. (\E f : S = {f}) <=>
        \E f \in KeyFrames(frames) : f < i /\ \A j \in KeyFrames(frames) : j < i => j = f
  <2>1. ASSUME NEW f, S = {f}
        PROVE  /\ f \in KeyFrames(frames) /\ f < i
               /\ \A j \in KeyFrames(frames) : j < i => j = f
    BY <2>1
  <2>2. ASSUME NEW f \in KeyFrames(frames), f < i,
               \A j \in KeyFrames(frames) : j < i => j = f
        PROVE  S = {f}
    BY <2>2
  <2> QED
    BY <2>1, <2>2
<1> QED
  BY <1>2, <1>3 DEF IsSecondKeyFrame

(* There is at most one.                                                   *)
LEMMA SecondIsUnique ==
  ASSUME NEW frames \in Seq(Frame), NEW i, IsSecondKeyFrame(frames, i)
  PROVE  HasSecondKeyFrame(frames) /\ SecondKeyFrame(frames) = i
<1>1. i \in DOMAIN frames
  BY DEF IsSecondKeyFrame, KeyFrames
<1>2. ASSUME NEW k, IsSecondKeyFrame(frames, k)
      PROVE  k = i
  <2>1. PICK f \in KeyFrames(frames) :
          f < i /\ \A j \in KeyFrames(frames) : j < i => j = f
    BY SecondHasOneBefore
  <2>2. PICK g \in KeyFrames(frames) :
          g < k /\ \A j \in KeyFrames(frames) : j < k => j = g
    BY <1>2, SecondHasOneBefore
  <2>3. i \in KeyFrames(frames) /\ k \in KeyFrames(frames)
    BY <1>2 DEF IsSecondKeyFrame
  <2>4. \A j \in KeyFrames(frames) : j \in Nat
    BY KeyFramesFinite
  <2>5. ~(i < k) /\ ~(k < i)
    BY <2>1, <2>2, <2>3, <2>4
  <2> QED
    BY <2>3, <2>4, <2>5
<1> QED
  BY <1>1, <1>2 DEF HasSecondKeyFrame, SecondKeyFrame

(* What is known of the second key frame when there is one.                *)
LEMMA SecondProperties ==
  ASSUME NEW frames \in Seq(Frame), HasSecondKeyFrame(frames)
  PROVE  /\ SecondKeyFrame(frames) \in KeyFrames(frames)
         /\ SecondKeyFrame(frames) \in 1..Len(frames)
         /\ \E f \in KeyFrames(frames) :
              /\ f < SecondKeyFrame(frames)
              /\ \A j \in KeyFrames(frames) : j < SecondKeyFrame(frames) => j = f
<1>1. PICK i \in DOMAIN frames : IsSecondKeyFrame(frames, i)
  BY DEF HasSecondKeyFrame
<1>2. SecondKeyFrame(frames) = i
  BY <1>1, SecondIsUnique
<1> QED
  BY <1>1, <1>2, SecondHasOneBefore, KeyFramesFinite

(* There is one as soon as there are two key frames, as counted ...        *)
LEMMA TwoKeyFrames ==
  ASSUME NEW frames \in Seq(Frame), NEW i \in KeyFrames(frames), NEW j \in KeyFrames(frames),
         i < j
  PROVE  HasSecondKeyFrame(frames)
<1> DEFINE K == KeyFrames(frames)
<1>1. K \in SUBSET Nat
  BY KeyFramesFinite
<1>2. PICK f \in K : \A k \in K : f <= k
  BY <1>1, Least
<1>3. K \ {f} \in SUBSET Nat /\ j \in K \ {f}
  BY <1>1, <1>2
<1>4. PICK s \in K \ {f} : \A k \in K \ {f} : s <= k
  BY <1>3, Least
<1>5. f < s /\ \A k \in K : k < s => k = f
  BY <1>1, <1>2, <1>4
<1>6. IsSecondKeyFrame(frames, s)
  BY <1>5, SecondHasOneBefore
<1> QED
  BY <1>6, SecondIsUnique

(* ... and the other way round.                                            *)
LEMMA SecondMeansTwo ==
  ASSUME NEW frames \in Seq(Frame)
  PROVE  HasSecondKeyFrame(frames) <=> Cardinality(KeyFrames(frames)) >= 2
<1> DEFINE K == KeyFrames(frames)
<1>1. IsFiniteSet(K) /\ Cardinality(K) \in Nat /\ K \in SUBSET Nat
  BY KeyFramesFinite
<1>2. ASSUME HasSecondKeyFrame(frames) PROVE Cardinality(K) >= 2
  <2>1. PICK f \in K, s \in K : f < s
    BY <1>2, SecondProperties
  <2>2. Cardinality(K \ {s}) = Cardinality(K) - 1 /\ IsFiniteSet(K \ {s})
    BY <1>1, FS_RemoveElement
  <2>3. f \in K \ {s}
    BY <1>1, <2>1
  <2>4. Cardinality(K \ {s}) # 0
    BY <2>2, <2>3, FS_EmptySet
  <2> QED
    BY <1>1, <2>2, <2>4, FS_CardinalityType
<1>3. ASSUME Cardinality(K) >= 2 PROVE HasSecondKeyFrame(frames)
  <2>1. PICK x : x \in K
    BY <1>1, <1>3, FS_EmptySet
  <2>2. Cardinality(K \ {x}) = Cardinality(K) - 1 /\ IsFiniteSet(K \ {x})
    BY <1>1, <2>1, FS_RemoveElement
  <2>3. K \ {x} # {}
    <3>1. Cardinality(K \ {x}) # 0
      BY <1>1, <1>3, <2>2
    <3> QED
      BY <3>1, FS_EmptySet
  <2>4. PICK y : y \in K \ {x}
    BY <2>3
  <2>5. CASE x < y
    BY <2>1, <2>4, <2>5, TwoKeyFrames
  <2>6. CASE y < x
    BY <2>1, <2>4, <2>6, TwoKeyFrames
  <2> QED
    BY <1>1, <2>1, <2>4, <2>5, <2>6
<1> QED
  BY <1>2, <1>3

-----------------------------------------------------------------------------
(* What is left of a sequence after its first k - 1 elements are gone.     *)
From(s, k) == SubSeq(s, k, Len(s))

(* Its length and its elements.                                            *)
LEMMA FromProperties ==
  ASSUME NEW S, NEW s \in Seq(S), NEW k \in 1..(Len(s) + 1)
  PROVE  /\ From(s, k) \in Seq(S) /\ Len(s) \in Nat
         /\ Len(From(s, k)) = Len(s) - k + 1
         /\ \A i \in 1..(Len(s) - k + 1) : From(s, k)[i] = s[k + i - 1]
<1>1. Len(s) \in Nat /\ \A i \in k..Len(s) : s[i] \in S
  BY LenProperties, ElementOfSeq
<1>2. /\ SubSeq(s, k, Len(s)) \in Seq(S)
      /\ Len(SubSeq(s, k, Len(s))) = IF k <= Len(s) THEN Len(s) - k + 1 ELSE 0
      /\ \A i \in 1..(Len(s) - k + 1) : SubSeq(s, k, Len(s))[i] = s[k + i - 1]
  BY <1>1, SubSeqProperties
<1>3. (IF k <= Len(s) THEN Len(s) - k + 1 ELSE 0) = Len(s) - k + 1
  BY <1>1
<1> QED
  BY <1>1, <1>2, <1>3 DEF From

(* Dropping twice is dropping once.                                        *)
LEMMA FromFrom ==
  ASSUME NEW S, NEW s \in Seq(S), NEW k \in 1..(Len(s) + 1), NEW m \in 1..(Len(s) - k + 2)
  PROVE  From(From(s, k), m) = From(s, k + m - 1)
<1> DEFINE t == From(s, k)
<1> DEFINE u == From(t, m)
<1> DEFINE v == From(s, k + m - 1)
<1>1. /\ t \in Seq(S) /\ Len(s) \in Nat /\ Len(t) = Len(s) - k + 1
      /\ \A i \in 1..(Len(s) - k + 1) : t[i] = s[k + i - 1]
  BY FromProperties
<1>2. m \in 1..(Len(t) + 1) /\ k + m - 1 \in 1..(Len(s) + 1)
  BY <1>1
<1> HIDE DEF t
<1>3. /\ u \in Seq(S) /\ Len(u) = Len(t) - m + 1
      /\ \A i \in 1..(Len(t) - m + 1) : u[i] = t[m + i - 1]
  BY <1>1, <1>2, FromProperties
<1>4. /\ v \in Seq(S) /\ Len(v) = Len(s) - (k + m - 1) + 1
      /\ \A i \in 1..(Len(s) - (k + m - 1) + 1) : v[i] = s[(k + m - 1) + i - 1]
  BY <1>1, <1>2, FromProperties
<1> HIDE DEF u, v
<1>5. Len(u) = Len(v) /\ Len(u) = Len(s) - k - m + 2
  <2>1. k \in Int /\ m \in Int /\ Len(s) \in Int /\ Len(t) = Len(s) - k + 1
    BY <1>1
  <2>2. Len(u) = Len(t) - m + 1 /\ Len(v) = Len(s) - (k + m - 1) + 1
    BY <1>3, <1>4
  <2> QED
    BY <2>1, <2>2
<1>6. ASSUME NEW i \in 1..Len(u) PROVE u[i] = v[i]
  <2>1. i \in 1..(Len(t) - m + 1) /\ m + i - 1 \in 1..(Len(s) - k + 1)
    BY <1>1, <1>2, <1>5
  <2>2. u[i] = t[m + i - 1] /\ t[m + i - 1] = s[k + (m + i - 1) - 1]
    BY <1>1, <1>3, <2>1
  <2>3. v[i] = s[(k + m - 1) + i - 1]
    BY <1>1, <1>4, <1>5
  <2>4. k + (m + i - 1) - 1 = (k + m - 1) + i - 1
    BY <1>2
  <2> QED
    BY <2>2, <2>3, <2>4
<1>7. u = v
  BY <1>3, <1>4, <1>5, <1>6, SeqEqual
<1> QED
  BY <1>7 DEF t, u, v

(* Dropping nothing, the head, everything.                                 *)
LEMMA FromFirst ==
  ASSUME NEW S, NEW s \in Seq(S)
  PROVE  /\ From(s, 1) = s
         /\ s # <<>> => Tail(s) = From(s, 2) /\ Len(s) >= 1 /\ Head(s) = s[1]
         /\ From(s, Len(s) + 1) = <<>>
<1>1. Len(s) \in Nat
  BY LenProperties
<1>2. From(s, 1) = s
  BY SubSeqFull DEF From
<1>3. s # <<>> => Tail(s) = From(s, 2) /\ Len(s) >= 1 /\ Head(s) = s[1]
  BY <1>1, TailIsSubSeq, EmptySeq, LenProperties DEF From
<1>4. From(s, Len(s) + 1) = <<>>
  BY <1>1, SubSeqEmpty DEF From
<1> QED
  BY <1>2, <1>3, <1>4

(* The key frames that are left are the old ones, moved.                   *)
LEMMA KeyFramesFrom ==
  ASSUME NEW frames \in Seq(Frame), NEW k \in 1..(Len(frames) + 1)
  PROVE  /\ \A i : i \in KeyFrames(From(frames, k)) <=>
                     i \in Nat \ {0} /\ k + i - 1 \in KeyFrames(frames)
         /\ Cardinality(KeyFrames(From(frames, k))) = Cardinality(KeyFrames(frames) \ 1..(k - 1))
<1> DEFINE K == KeyFrames(frames) \ 1..(k - 1)
           L == KeyFrames(From(frames, k))
<1>1. /\ From(frames, k) \in Seq(Frame) /\ Len(frames) \in Nat
      /\ Len(From(frames, k)) = Len(frames) - k + 1
      /\ \A i \in 1..(Len(frames) - k + 1) : From(frames, k)[i] = frames[k + i - 1]
  BY FromProperties
<1>2. \A i : i \in L <=> i \in Nat \ {0} /\ k + i - 1 \in KeyFrames(frames)
  <2>1. DOMAIN frames = 1..Len(frames) /\ DOMAIN From(frames, k) = 1..(Len(frames) - k + 1)
    BY <1>1, LenProperties
  <2>2. ASSUME NEW i \in 1..(Len(frames) - k + 1)
        PROVE  i \in L <=> k + i - 1 \in KeyFrames(frames)
    <3>1. k + i - 1 \in 1..Len(frames)
      BY <1>1
    <3> QED
      BY <1>1, <2>1, <3>1 DEF KeyFrames
  <2>3. \A i : i \in L => i \in 1..(Len(frames) - k + 1)
    BY <2>1 DEF KeyFrames
  <2>4. \A i \in Nat \ {0} : k + i - 1 \in KeyFrames(frames) => i \in 1..(Len(frames) - k + 1)
    BY <1>1, <2>1 DEF KeyFrames
  <2>5. \A i : i \in 1..(Len(frames) - k + 1) => i \in Nat \ {0}
    OBVIOUS
  <2> HIDE DEF L
  <2> QED
    BY <2>2, <2>3, <2>4, <2>5
<1>3. K \in SUBSET Nat /\ \A j \in K : j >= k
  BY KeyFramesFinite
<1> DEFINE f == [i \in L |-> k + i - 1]
<1>4. f \in Injection(L, K)
  <2>1. \A i \in L : i \in Nat \ {0} /\ k + i - 1 \in K
    BY <1>2
  <2>2. f \in [L -> K]
    BY <2>1
  <2>3. \A i, j \in L : f[i] = f[j] => i = j
    BY <2>1
  <2> QED
    BY <2>2, <2>3 DEF Injection, IsInjective
<1>5. f \in Surjection(L, K)
  <2>1. ASSUME NEW j \in K PROVE \E i \in L : f[i] = j
    <3>1. j - k + 1 \in Nat \ {0} /\ k + (j - k + 1) - 1 = j
      BY <1>3
    <3> QED
      BY <1>2, <3>1
  <2> QED
    BY <1>4, <2>1 DEF Surjection, Injection
<1>6. ExistsBijection(L, K)
  BY <1>4, <1>5 DEF ExistsBijection, Bijection
<1>7. IsFiniteSet(L)
  BY <1>1, KeyFramesFinite
<1> QED
  BY <1>2, <1>6, <1>7, FS_Bijection

(* Taking the head away takes a key frame away if it is one.               *)
LEMMA KeyFramesOfTail ==
  ASSUME NEW frames \in Seq(Frame), frames # <<>>
  PROVE  Cardinality(KeyFrames(Tail(frames))) =
           IF Head(frames).key THEN Cardinality(KeyFrames(frames)) - 1
           ELSE Cardinality(KeyFrames(frames))
<1>1. Tail(frames) = From(frames, 2) /\ Head(frames) = frames[1] /\ 2 \in 1..(Len(frames) + 1)
  BY FromFirst, LenProperties
<1>2. KeyFrames(frames) \ 1..(2 - 1) = KeyFrames(frames) \ {1}
  OBVIOUS
<1>3. 1 \in KeyFrames(frames) <=> Head(frames).key
  BY <1>1, LenProperties DEF KeyFrames
<1>4. Cardinality(KeyFrames(From(frames, 2))) = Cardinality(KeyFrames(frames) \ {1})
  BY <1>1, <1>2, KeyFramesFrom
<1>5. IsFiniteSet(KeyFrames(frames))
  BY KeyFramesFinite
<1>6. Cardinality(KeyFrames(frames) \ {1}) =
        IF 1 \in KeyFrames(frames) THEN Cardinality(KeyFrames(frames)) - 1
        ELSE Cardinality(KeyFrames(frames))
  BY <1>5, FS_RemoveElement
<1> QED
  BY <1>1, <1>3, <1>4, <1>6

(* Taking everything before the second key frame away takes one away.      *)
LEMMA KeyFramesFromSecond ==
  ASSUME NEW frames \in Seq(Frame), HasSecondKeyFrame(frames)
  PROVE  Cardinality(KeyFrames(From(frames, SecondKeyFrame(frames)))) =
           Cardinality(KeyFrames(frames)) - 1
<1> DEFINE s == SecondKeyFrame(frames)
<1>1. PICK f \in KeyFrames(frames) : f < s /\ \A j \in KeyFrames(frames) : j < s => j = f
  BY SecondProperties
<1>2. s \in 1..(Len(frames) + 1) /\ \A j \in KeyFrames(frames) : j \in Nat \ {0}
  BY SecondProperties, KeyFramesFinite
<1>3. KeyFrames(frames) \ 1..(s - 1) = KeyFrames(frames) \ {f}
  BY <1>1, <1>2
<1>4. Cardinality(KeyFrames(From(frames, s))) = Cardinality(KeyFrames(frames) \ {f})
  BY <1>2, <1>3, KeyFramesFrom
<1>5. IsFiniteSet(KeyFrames(frames))
  BY KeyFramesFinite
<1>6. Cardinality(KeyFrames(frames) \ {f}) = Cardinality(KeyFrames(frames)) - 1
  BY <1>1, <1>5, FS_RemoveElement
<1> QED
  BY <1>4, <1>6

(* Adding a frame at the end.                                              *)
LEMMA KeyFramesOfAppend ==
  ASSUME NEW frames \in Seq(Frame), NEW x \in Frame
  PROVE  Cardinality(KeyFrames(Append(frames, x))) =
           IF x.key THEN Cardinality(KeyFrames(frames)) + 1 ELSE Cardinality(KeyFrames(frames))
<1> DEFINE n == Len(frames) + 1
<1>1. /\ Append(frames, x) \in Seq(Frame) /\ Len(Append(frames, x)) = n /\ Len(frames) \in Nat
      /\ \A i \in 1..Len(frames) : Append(frames, x)[i] = frames[i]
      /\ Append(frames, x)[n] = x
  BY AppendProperties, LenProperties
<1>2. DOMAIN frames = 1..Len(frames) /\ DOMAIN Append(frames, x) = 1..n
  BY <1>1, LenProperties
<1>3. n \notin KeyFrames(frames)
  BY <1>1, <1>2 DEF KeyFrames
<1>4. KeyFrames(Append(frames, x)) =
        IF x.key THEN KeyFrames(frames) \cup {n} ELSE KeyFrames(frames)
  <2>1. \A i \in 1..n : i \in 1..Len(frames) \/ i = n
    BY <1>1
  <2>2. \A i \in 1..Len(frames) : i \in 1..n /\ i # n
    BY <1>1
  <2>3. n \in 1..n
    BY <1>1
  <2> HIDE DEF n
  <2> QED
    BY <1>1, <1>2, <2>1, <2>2, <2>3 DEF KeyFrames
<1> QED
  BY <1>3, <1>4, KeyFramesFinite, FS_AddElement

-----------------------------------------------------------------------------
(* The bookkeeping of a buffer: the key frames are counted, and the        *)
(* timestamp of the second is known if there is one.                       *)
Counted(b) ==
  /\ b \in FrameBuffer
  /\ b.numKeyFrames = Cardinality(KeyFrames(b.frames))
  /\ ~HasSecondKeyFrame(b.frames) => b.secondKeyFrameTimestamp = 0

Exact(b) ==
  /\ Counted(b)
  /\ HasSecondKeyFrame(b.frames) =>
       b.secondKeyFrameTimestamp = b.frames[SecondKeyFrame(b.frames)].timestamp

(* The fields of a buffer.                                                 *)
LEMMA BufferFields ==
  ASSUME NEW b \in FrameBuffer
  PROVE  /\ b.frames \in Seq(Frame) /\ Len(b.frames) \in Nat
         /\ b.numKeyFrames \in Int /\ b.secondKeyFrameTimestamp \in Nat
         /\ b = [frames |-> b.frames, numKeyFrames |-> b.numKeyFrames,
                 secondKeyFrameTimestamp |-> b.secondKeyFrameTimestamp]
  BY LenProperties DEF FrameBuffer

(* Where there is no frame there is no key frame.                          *)
LEMMA EmptyHasNone ==
  Cardinality(KeyFrames(<<>>)) = 0 /\ ~HasSecondKeyFrame(<<>>)
<1>1. KeyFrames(<<>>) = {}
  BY DEF KeyFrames
<1>2. ~HasSecondKeyFrame(<<>>)
  BY DEF HasSecondKeyFrame
<1> QED
  BY <1>1, <1>2, FS_EmptySet

(* The new buffer is exact.                                                *)
LEMMA NewIsExact == Exact(NewFrameBuffer) /\ NewFrameBuffer.frames = <<>>
<1>1. <<>> \in Seq(Frame)
  BY EmptySeq
<1>2. NewFrameBuffer \in FrameBuffer
  BY <1>1 DEF NewFrameBuffer, FrameBuffer
<1>3. /\ NewFrameBuffer.frames = <<>> /\ NewFrameBuffer.numKeyFrames = 0
      /\ NewFrameBuffer.secondKeyFrameTimestamp = 0
  BY DEF NewFrameBuffer
<1> QED
  BY <1>2, <1>3, EmptyHasNone DEF Exact, Counted

(* Bringing the timestamp up to date makes a counted buffer exact.         *)
LEMMA UpdateMakesExact ==
  ASSUME NEW b, Counted(b)
  PROVE  /\ Exact(UpdateSecondKeyFrameTimestamp(b))
         /\ UpdateSecondKeyFrameTimestamp(b).frames = b.frames
<1> DEFINE c == UpdateSecondKeyFrameTimestamp(b)
<1>1. b \in FrameBuffer /\ b.frames \in Seq(Frame) /\ b.numKeyFrames \in Int
  BY BufferFields DEF Counted
<1>2. HasSecondKeyFrame(b.frames) <=> b.numKeyFrames >= 2
  BY <1>1, SecondMeansTwo DEF Counted
<1>3. CASE HasSecondKeyFrame(b.frames)
  <2> DEFINE x == b.frames[SecondKeyFrame(b.frames)].timestamp
  <2>1. c = [b EXCEPT !.secondKeyFrameTimestamp = x]
    BY <1>2, <1>3 DEF UpdateSecondKeyFrameTimestamp
  <2>2. x \in Nat
    <3>1. SecondKeyFrame(b.frames) \in 1..Len(b.frames)
      BY <1>1, <1>3, SecondProperties
    <3>2. b.frames[SecondKeyFrame(b.frames)] \in Frame
      BY <1>1, <3>1, ElementOfSeq
    <3> QED
      BY <3>2 DEF Frame
  <2>3. /\ c \in FrameBuffer /\ c.frames = b.frames /\ c.numKeyFrames = b.numKeyFrames
        /\ c.secondKeyFrameTimestamp = x
    BY <1>1, <2>1, <2>2 DEF FrameBuffer
  <2> QED
    BY <1>3, <2>3 DEF Exact, Counted
<1>4. CASE ~HasSecondKeyFrame(b.frames)
  BY <1>4 DEF UpdateSecondKeyFrameTimestamp, Exact
<1> QED
  BY <1>3, <1>4

(* Push, which repairs what a Pop has left behind.                         *)
LEMMA PushMakesExact ==
  ASSUME NEW b, Counted(b), NEW x \in Frame
  PROVE  Exact(PushFrame(b, x)) /\ PushFrame(b, x).frames = Append(b.frames, x)
<1> DEFINE n == IF x.key THEN b.numKeyFrames + 1 ELSE b.numKeyFrames
           c == [frames |-> Append(b.frames, x), numKeyFrames |-> n,
                 secondKeyFrameTimestamp |-> b.secondKeyFrameTimestamp]
<1>1. b \in FrameBuffer /\ b.frames \in Seq(Frame) /\ b.numKeyFrames \in Int
  BY BufferFields DEF Counted
<1>2. Append(b.frames, x) \in Seq(Frame)
  BY <1>1, AppendProperties
<1>3. /\ c \in FrameBuffer /\ c.frames = Append(b.frames, x) /\ c.numKeyFrames = n
      /\ c.secondKeyFrameTimestamp = b.secondKeyFrameTimestamp
  <2>1. n \in Int
    BY <1>1
  <2> QED
    BY <1>1, <1>2, <2>1, BufferFields DEF FrameBuffer
<1>4. n = Cardinality(KeyFrames(Append(b.frames, x)))
  BY <1>1, KeyFramesOfAppend DEF Counted
<1>5. HasSecondKeyFrame(b.frames) => HasSecondKeyFrame(Append(b.frames, x))
  <2>1. /\ HasSecondKeyFrame(b.frames) <=> Cardinality(KeyFrames(b.frames)) >= 2
        /\ HasSecondKeyFrame(Append(b.frames, x)) <=>
             Cardinality(KeyFrames(Append(b.frames, x))) >= 2
    BY <1>1, <1>2, SecondMeansTwo
  <2> QED
    BY <1>1, <1>4, <2>1 DEF Counted
<1>6. Counted(c)
  BY <1>3, <1>4, <1>5 DEF Counted
<1>7. PushFrame(b, x) = UpdateSecondKeyFrameTimestamp(c)
  BY DEF PushFrame
<1> QED
  BY <1>3, <1>6, <1>7, UpdateMakesExact

(* Pop keeps the count, and its timestamp is wrong only while there is a   *)
(* second key frame.                                                       *)
LEMMA PopKeepsCount ==
  ASSUME NEW b, Counted(b), b.frames # <<>>
  PROVE  Counted(PopFrame(b)) /\ PopFrame(b).frames = Tail(b.frames)
<1>1. b \in FrameBuffer /\ b.frames \in Seq(Frame) /\ b.numKeyFrames \in Int
  BY BufferFields DEF Counted
<1>2. Tail(b.frames) \in Seq(Frame)
  BY <1>1, HeadTailProperties
<1>3. HasSecondKeyFrame(Tail(b.frames)) <=> Cardinality(KeyFrames(Tail(b.frames))) >= 2
  BY <1>2, SecondMeansTwo
<1>4. CASE ~Head(b.frames).key
  <2>1. PopFrame(b) = [b EXCEPT !.frames = Tail(b.frames)]
    BY <1>4 DEF PopFrame
  <2>2. /\ PopFrame(b) \in FrameBuffer /\ PopFrame(b).frames = Tail(b.frames)
        /\ PopFrame(b).numKeyFrames = b.numKeyFrames
        /\ PopFrame(b).secondKeyFrameTimestamp = b.secondKeyFrameTimestamp
    BY <1>1, <1>2, <2>1 DEF FrameBuffer
  <2>3. Cardinality(KeyFrames(Tail(b.frames))) = Cardinality(KeyFrames(b.frames))
    BY <1>1, <1>4, KeyFramesOfTail
  <2>4. HasSecondKeyFrame(Tail(b.frames)) <=> HasSecondKeyFrame(b.frames)
    BY <1>1, <1>3, <2>3, SecondMeansTwo
  <2> QED
    BY <2>2, <2>3, <2>4 DEF Counted
<1>5. CASE Head(b.frames).key
  <2> DEFINE c == [frames |-> b.frames, numKeyFrames |-> b.numKeyFrames - 1,
                   secondKeyFrameTimestamp |-> 0]
             d == UpdateSecondKeyFrameTimestamp(c)
  <2>1. PopFrame(b) = [d EXCEPT !.frames = Tail(d.frames)]
    BY <1>5 DEF PopFrame
  <2>2. /\ c \in FrameBuffer /\ c.frames = b.frames /\ c.numKeyFrames = b.numKeyFrames - 1
        /\ c.secondKeyFrameTimestamp = 0
    <3>1. b.numKeyFrames - 1 \in Int
      BY <1>1
    <3> QED
      BY <1>1, <3>1 DEF FrameBuffer
  <2>3. /\ d \in FrameBuffer /\ d.frames = b.frames /\ d.numKeyFrames = b.numKeyFrames - 1
        /\ d.numKeyFrames < 2 => d.secondKeyFrameTimestamp = 0
    <3>1. CASE c.numKeyFrames >= 2 /\ HasSecondKeyFrame(b.frames)
      <4> DEFINE x == b.frames[SecondKeyFrame(b.frames)].timestamp
      <4>1. SecondKeyFrame(b.frames) \in 1..Len(b.frames)
        BY <1>1, <3>1, SecondProperties
      <4>2. b.frames[SecondKeyFrame(b.frames)] \in Frame
        BY <1>1, <4>1, ElementOfSeq
      <4>3. x \in Nat
        BY <4>2 DEF Frame
      <4>4. d = [c EXCEPT !.secondKeyFrameTimestamp = x]
        BY <2>2, <3>1 DEF UpdateSecondKeyFrameTimestamp
      <4> HIDE DEF c, d, x
      <4>5. /\ d \in FrameBuffer /\ d.frames = c.frames /\ d.numKeyFrames = c.numKeyFrames
        BY <2>2, <4>3, <4>4 DEF FrameBuffer
      <4> QED
        BY <1>1, <2>2, <3>1, <4>5
    <3>2. CASE ~(c.numKeyFrames >= 2 /\ HasSecondKeyFrame(b.frames))
      <4>1. d = c
        BY <2>2, <3>2 DEF UpdateSecondKeyFrameTimestamp
      <4> HIDE DEF c, d
      <4> QED
        BY <2>2, <4>1
    <3> QED
      BY <3>1, <3>2
  <2> HIDE DEF c, d
  <2>4. /\ PopFrame(b) \in FrameBuffer /\ PopFrame(b).frames = Tail(b.frames)
        /\ PopFrame(b).numKeyFrames = b.numKeyFrames - 1
        /\ PopFrame(b).numKeyFrames < 2 => PopFrame(b).secondKeyFrameTimestamp = 0
    BY <1>2, <2>1, <2>3 DEF FrameBuffer
  <2>5. Cardinality(KeyFrames(Tail(b.frames))) = Cardinality(KeyFrames(b.frames)) - 1
    BY <1>1, <1>5, KeyFramesOfTail
  <2> QED
    BY <1>1, <1>3, <2>4, <2>5 DEF Counted
<1> QED
  BY <1>4, <1>5

-----------------------------------------------------------------------------
(* The positions of the key frames that end a GOP out of the window.       *)
GopEnds(frames, boundary) ==
  {i \in KeyFrames(frames) :
     frames[i].timestamp <= boundary /\ \E j \in KeyFrames(frames) : j < i}

Increasing(frames) ==
  \A i, j \in DOMAIN frames : i < j => frames[i].timestamp < frames[j].timestamp

(* What is left of an increasing sequence increases.                       *)
LEMMA FromIncreases ==
  ASSUME NEW frames \in Seq(Frame), Increasing(frames), NEW k \in 1..(Len(frames) + 1)
  PROVE  Increasing(From(frames, k))
<1>1. /\ From(frames, k) \in Seq(Frame) /\ Len(frames) \in Nat
      /\ Len(From(frames, k)) = Len(frames) - k + 1
      /\ \A i \in 1..(Len(frames) - k + 1) : From(frames, k)[i] = frames[k + i - 1]
  BY FromProperties
<1>2. /\ DOMAIN frames = 1..Len(frames)
      /\ DOMAIN From(frames, k) = 1..(Len(frames) - k + 1)
  BY <1>1, LenProperties
<1>3. SUFFICES ASSUME NEW i \in 1..(Len(frames) - k + 1), NEW j \in 1..(Len(frames) - k + 1), i < j
               PROVE  From(frames, k)[i].timestamp < From(frames, k)[j].timestamp
  BY <1>2 DEF Increasing
<1>4. k + i - 1 \in 1..Len(frames) /\ k + j - 1 \in 1..Len(frames) /\ k + i - 1 < k + j - 1
  BY <1>1, <1>3
<1>5. frames[k + i - 1].timestamp < frames[k + j - 1].timestamp
  BY <1>2, <1>4 DEF Increasing
<1> QED
  BY <1>1, <1>5

(* The window begins with the last of them.                                *)
LEMMA WindowIsFrom ==
  ASSUME NEW frames \in Seq(Frame), NEW boundary \in Int
  PROVE  /\ GopEnds(frames, boundary) = {} => WindowOf(frames, boundary) = frames
         /\ \A m \in GopEnds(frames, boundary) :
              (\A j \in GopEnds(frames, boundary) : j <= m)
                => WindowOf(frames, boundary) = From(frames, m)
<1> DEFINE E == GopEnds(frames, boundary)
<1>1. \A j \in E : j \in Nat
  BY KeyFramesFinite DEF GopEnds
<1>2. ASSUME NEW m \in E, \A j \in E : j <= m
      PROVE  (CHOOSE i \in E : \A j \in E : j <= i) = m
  <2> DEFINE c == CHOOSE i \in E : \A j \in E : j <= i
  <2>1. c \in E /\ \A j \in E : j <= c
    BY <1>2
  <2>2. c <= m /\ m <= c /\ c \in Nat /\ m \in Nat
    BY <1>1, <1>2, <2>1
  <2> HIDE DEF c
  <2>3. c = m
    BY <2>2
  <2> QED
    BY <2>3 DEF c
<1>3. WindowOf(frames, boundary) =
        IF E = {} THEN frames ELSE From(frames, CHOOSE i \in E : \A j \in E : j <= i)
  BY DEF WindowOf, From, GopEnds
<1> HIDE DEF E
<1>4. E = {} => WindowOf(frames, boundary) = frames
  BY <1>3
<1>5. \A m \in E : (\A j \in E : j <= m) => WindowOf(frames, boundary) = From(frames, m)
  BY <1>2, <1>3
<1> QED
  BY <1>4, <1>5 DEF E

(* Where the window begins: at the front, or with a key frame that is not  *)
(* later than the boundary.                                                *)
LEMMA WindowShape ==
  ASSUME NEW frames \in Seq(Frame), frames # <<>>, NEW boundary \in Int
  PROVE  \E p \in 1..Len(frames) :
           /\ WindowOf(frames, boundary) = From(frames, p)
           /\ p > 1 => frames[p].key /\ frames[p].timestamp <= boundary
<1> DEFINE E == GopEnds(frames, boundary)
<1>1. Len(frames) \in Nat /\ Len(frames) >= 1
  BY FromFirst, LenProperties
<1>2. E \in SUBSET (1..Len(frames))
  BY KeyFramesFinite DEF GopEnds
<1>3. CASE E = {}
  <2>1. WindowOf(frames, boundary) = From(frames, 1)
    BY <1>3, WindowIsFrom, FromFirst
  <2> QED
    BY <1>1, <2>1
<1>4. CASE E # {}
  <2>1. PICK m \in E : \A j \in E : j <= m
    BY <1>1, <1>2, <1>4, Greatest
  <2>2. m \in 1..Len(frames) /\ WindowOf(frames, boundary) = From(frames, m)
    BY <1>2, <2>1, WindowIsFrom
  <2>3. frames[m].key /\ frames[m].timestamp <= boundary
    BY <2>1 DEF GopEnds, KeyFrames
  <2> QED
    BY <2>2, <2>3
<1> QED
  BY <1>3, <1>4

(* While the front GOP is in the window everything is.                     *)
LEMMA NothingIsOut ==
  ASSUME NEW b, Exact(b), Increasing(b.frames), NEW boundary \in Int,
         ~FrontGopIsOut(b, boundary)
  PROVE  /\ GopEnds(b.frames, boundary) = {}
         /\ WindowOf(b.frames, boundary) = b.frames
<1>1. b.frames \in Seq(Frame) /\ b \in FrameBuffer
  BY BufferFields DEF Exact, Counted
<1>2. SUFFICES ASSUME NEW i \in GopEnds(b.frames, boundary) PROVE FALSE
  BY <1>1, WindowIsFrom
<1> DEFINE K == KeyFrames(b.frames)
           s == SecondKeyFrame(b.frames)
<1>3. i \in K /\ b.frames[i].timestamp <= boundary
  BY <1>2 DEF GopEnds
<1>4. PICK j \in K : j < i
  BY <1>2 DEF GopEnds
<1>5. HasSecondKeyFrame(b.frames)
  BY <1>1, <1>3, <1>4, TwoKeyFrames
<1>6. PICK f \in K : f < s /\ \A k \in K : k < s => k = f
  BY <1>1, <1>5, SecondProperties
<1>7. s \in K /\ \A k \in K : k \in Nat /\ k \in DOMAIN b.frames
  BY <1>1, <1>5, SecondProperties, KeyFramesFinite DEF KeyFrames
<1>8. s <= i
  BY <1>3, <1>4, <1>6, <1>7
<1>9. \A k \in K : b.frames[k].timestamp \in Nat
  BY <1>1, <1>7, FrameFields
<1>10. b.frames[s].timestamp <= b.frames[i].timestamp
  <2>1. CASE s = i
    BY <1>3, <1>9, <2>1
  <2>2. CASE s < i
    BY <1>3, <1>7, <1>9, <2>2 DEF Increasing
  <2> QED
    BY <1>3, <1>7, <1>8, <2>1, <2>2
<1>11. b.secondKeyFrameTimestamp <= boundary
  BY <1>3, <1>5, <1>7, <1>9, <1>10 DEF Exact
<1>12. b.numKeyFrames >= 2
  BY <1>1, <1>5, SecondMeansTwo DEF Exact, Counted
<1> QED
  BY <1>11, <1>12 DEF FrontGopIsOut

(* A round drops everything before the second key frame.                   *)
LEMMA DropMakesExact ==
  ASSUME NEW b, Counted(b), NEW boundary \in Int, FrontGopIsOut(b, boundary)
  PROVE  /\ Exact(DropFrontGop(b)) /\ HasSecondKeyFrame(b.frames)
         /\ DropFrontGop(b).frames = From(b.frames, SecondKeyFrame(b.frames))
         /\ Cardinality(KeyFrames(DropFrontGop(b).frames)) =
              Cardinality(KeyFrames(b.frames)) - 1
<1> DEFINE s == SecondKeyFrame(b.frames)
           c == [frames |-> From(b.frames, s), numKeyFrames |-> b.numKeyFrames - 1,
                 secondKeyFrameTimestamp |-> 0]
<1>1. b.frames \in Seq(Frame) /\ b \in FrameBuffer /\ b.numKeyFrames \in Int
  BY BufferFields DEF Counted
<1>2. HasSecondKeyFrame(b.frames)
  BY <1>1, SecondMeansTwo DEF FrontGopIsOut, Counted
<1>3. s \in 1..(Len(b.frames) + 1)
  <2>1. s \in 1..Len(b.frames) /\ Len(b.frames) \in Nat
    BY <1>1, <1>2, SecondProperties, LenProperties
  <2> QED
    BY <2>1
<1>4. From(b.frames, s) \in Seq(Frame)
  BY <1>1, <1>3, FromProperties
<1>5. Cardinality(KeyFrames(From(b.frames, s))) = Cardinality(KeyFrames(b.frames)) - 1
  BY <1>1, <1>2, KeyFramesFromSecond
<1>6. Counted(c) /\ c.frames = From(b.frames, s)
  BY <1>1, <1>4, <1>5 DEF Counted, FrameBuffer
<1>7. DropFrontGop(b) = UpdateSecondKeyFrameTimestamp(c)
  BY <1>2 DEF DropFrontGop, From
<1> HIDE DEF c
<1>8. Exact(UpdateSecondKeyFrameTimestamp(c)) /\ UpdateSecondKeyFrameTimestamp(c).frames = c.frames
  BY <1>6, UpdateMakesExact
<1> QED
  BY <1>2, <1>5, <1>6, <1>7, <1>8

(* The window is the same seen from the second key frame.                  *)
LEMMA DropKeepsWindow ==
  ASSUME NEW b, Exact(b), NEW boundary \in Int, FrontGopIsOut(b, boundary)
  PROVE  WindowOf(DropFrontGop(b).frames, boundary) = WindowOf(b.frames, boundary)
<1> DEFINE frames == b.frames
           s == SecondKeyFrame(frames)
           rest == From(frames, s)
           E == GopEnds(frames, boundary)
           D == GopEnds(rest, boundary)
<1>1. frames \in Seq(Frame) /\ b \in FrameBuffer /\ Len(frames) \in Nat
  BY BufferFields DEF Exact, Counted
<1>2. HasSecondKeyFrame(frames) /\ DropFrontGop(b).frames = rest
  BY DropMakesExact DEF Exact
<1>3. /\ s \in KeyFrames(frames) /\ s \in 1..Len(frames)
      /\ \E f \in KeyFrames(frames) : f < s
  BY <1>1, <1>2, SecondProperties
<1>4. s \in 1..(Len(frames) + 1)
  BY <1>1, <1>3
<1>5. s \in E
  <2>1. frames[s].timestamp <= boundary
    BY <1>2 DEF FrontGopIsOut, Exact
  <2> QED
    BY <1>3, <2>1 DEF GopEnds
<1>6. /\ rest \in Seq(Frame) /\ Len(rest) = Len(frames) - s + 1
      /\ \A i \in 1..(Len(frames) - s + 1) : rest[i] = frames[s + i - 1]
  BY <1>1, <1>4, FromProperties
<1>7. \A i : i \in KeyFrames(rest) <=> i \in Nat \ {0} /\ s + i - 1 \in KeyFrames(frames)
  BY <1>1, <1>4, KeyFramesFrom
<1>8. KeyFrames(frames) \in SUBSET (1..Len(frames))
  BY <1>1, KeyFramesFinite
<1> HIDE DEF s, rest
<1>9. \A i \in KeyFrames(rest) : i \in 1..(Len(frames) - s + 1)
  <2>1. \A i \in KeyFrames(rest) : i \in Nat \ {0} /\ s + i - 1 \in 1..Len(frames)
    BY <1>7, <1>8
  <2> QED
    BY <1>1, <1>3, <2>1
<1>10. 1 \in KeyFrames(rest)
  BY <1>3, <1>7
<1>11. \A i : i \in D <=> i \in Nat /\ i >= 2 /\ s + i - 1 \in E
  <2>1. ASSUME NEW i \in D PROVE i \in Nat /\ i >= 2 /\ s + i - 1 \in E
    <3>1. i \in KeyFrames(rest) /\ rest[i].timestamp <= boundary
      BY DEF GopEnds
    <3>2. PICK j \in KeyFrames(rest) : j < i
      BY DEF GopEnds
    <3>3. i \in Nat /\ i >= 2 /\ j \in Nat /\ s + j - 1 < s + i - 1
      BY <1>3, <1>7, <3>1, <3>2
    <3>4. s + i - 1 \in KeyFrames(frames) /\ s + j - 1 \in KeyFrames(frames)
      BY <1>7, <3>1, <3>2
    <3>5. frames[s + i - 1] = rest[i]
      BY <1>6, <1>9, <3>1
    <3> QED
      BY <3>1, <3>3, <3>4, <3>5 DEF GopEnds
  <2>2. ASSUME NEW i \in Nat, i >= 2, s + i - 1 \in E PROVE i \in D
    <3>1. s + i - 1 \in KeyFrames(frames) /\ frames[s + i - 1].timestamp <= boundary
      BY <2>2 DEF GopEnds
    <3>2. i \in KeyFrames(rest)
      BY <1>7, <2>2, <3>1
    <3>3. rest[i] = frames[s + i - 1]
      BY <1>6, <1>9, <3>2
    <3>4. 1 < i
      BY <2>2
    <3> QED
      BY <1>10, <3>1, <3>2, <3>3, <3>4 DEF GopEnds
  <2> QED
    BY <2>1, <2>2
<1>12. E \in SUBSET (1..Len(frames))
  BY <1>8 DEF GopEnds
<1> HIDE DEF frames, E, D
<1>13. PICK m \in E : \A j \in E : j <= m
  BY <1>1, <1>5, <1>12, Greatest
<1>14. WindowOf(frames, boundary) = From(frames, m)
  BY <1>1, <1>13, WindowIsFrom DEF E
<1>15. m \in 1..Len(frames) /\ s <= m /\ \A j \in E : j \in Nat
  BY <1>5, <1>12, <1>13
<1>16. CASE m = s
  <2>1. D = {}
    <3>1. ASSUME NEW i \in D PROVE FALSE
      <4>1. i \in Nat /\ i >= 2 /\ s + i - 1 <= m
        BY <1>11, <1>13
      <4> QED
        BY <1>15, <1>16, <4>1
    <3> QED
      BY <3>1
  <2>2. WindowOf(rest, boundary) = rest
    BY <1>6, <2>1, WindowIsFrom DEF D
  <2> QED
    BY <1>2, <1>14, <1>16, <2>2 DEF rest, s, frames
<1>17. CASE m # s
  <2> DEFINE i == m - s + 1
  <2>1. i \in Nat /\ i >= 2 /\ s + i - 1 = m /\ i \in 1..(Len(frames) - s + 2)
    BY <1>1, <1>3, <1>15, <1>17
  <2>2. i \in D
    BY <1>11, <2>1
  <2>3. \A j \in D : j <= i
    <3>1. ASSUME NEW j \in D PROVE j <= i
      <4>1. j \in Nat /\ s + j - 1 <= m
        BY <1>11, <1>13
      <4> QED
        BY <1>3, <1>15, <4>1
    <3> QED
      BY <3>1
  <2> HIDE DEF i
  <2>4. WindowOf(rest, boundary) = From(rest, i)
    BY <1>6, <2>2, <2>3, WindowIsFrom DEF D
  <2>5. From(rest, i) = From(frames, s + i - 1)
    BY <1>1, <1>4, <2>1, FromFrom DEF rest
  <2> QED
    BY <1>2, <1>14, <2>1, <2>4, <2>5 DEF rest, s, frames
<1> QED
  BY <1>16, <1>17

-----------------------------------------------------------------------------
(* The two loops.  A fold over a sequence of length n is the last of n + 1 *)
(* values, each made from the one before: the recursive function that the  *)
(* fold is defined with exists, since it exists for the subsets of 1..k    *)
(* for every k.                                                            *)
LEMMA MaxOfInterval ==
  ASSUME NEW k \in Nat
  PROVE  \A t \in SUBSET (1..(k + 1)) : k + 1 \in t => Max(t) = k + 1
<1> SUFFICES ASSUME NEW t \in SUBSET (1..(k + 1)), k + 1 \in t
             PROVE  Max(t) = k + 1
  OBVIOUS
<1>1. \A y \in t : y \in Nat /\ y <= k + 1
  OBVIOUS
<1> DEFINE m == CHOOSE x \in t : \A y \in t : x >= y
<1>2. m \in t /\ \A y \in t : m >= y
  BY <1>1
<1>3. m = k + 1
  <2> HIDE DEF m
  <2> QED
    BY <1>1, <1>2
<1> QED
  BY <1>3 DEF Max

(* The loop that drops the GOPs out of the window.                         *)
Round(b, boundary) == IF FrontGopIsOut(b, boundary) THEN DropFrontGop(b) ELSE b

(* Its rounds.                                                             *)
LEMMA LookBackByRounds ==
  ASSUME NEW b, NEW boundary, NEW n \in Nat, DOMAIN b.frames = 1..n
  PROVE  \E r : /\ r[0] = b /\ r[n] = UpdateLookBackWindow(b, boundary)
                /\ \A k \in 1..n : r[k] = Round(r[k - 1], boundary)
<1> DEFINE Step(g, t) == IF t = {} THEN b ELSE Round(g[t \ {Max(t)}], boundary)
           Good == {k \in Nat : \E g : g = [t \in SUBSET (1..k) |-> Step(g, t)]}
<1>1. 0 \in Good
  <2> DEFINE g == [t \in SUBSET (1..0) |-> b]
  <2>1. g = [t \in SUBSET (1..0) |-> Step(g, t)]
    <3>1. \A t \in SUBSET (1..0) : t = {}
      OBVIOUS
    <3> QED
      BY <3>1
  <2> QED
    BY <2>1
<1>2. ASSUME NEW k \in Nat, k \in Good PROVE k + 1 \in Good
  <2>1. PICK g : g = [t \in SUBSET (1..k) |-> Step(g, t)]
    BY <1>2
  <2> DEFINE h == [t \in SUBSET (1..(k + 1)) |->
                     IF k + 1 \in t THEN Round(g[t \ {k + 1}], boundary) ELSE g[t]]
  <2>2. ASSUME NEW t \in SUBSET (1..(k + 1)) PROVE h[t] = Step(h, t)
    <3> DEFINE u == t \ {Max(t)}
    <3>1. CASE k + 1 \in t
      <4>1. Max(t) = k + 1
        BY <3>1, MaxOfInterval
      <4>2. t \ {k + 1} \in SUBSET (1..(k + 1)) /\ k + 1 \notin t \ {k + 1}
        OBVIOUS
      <4>3. h[t \ {k + 1}] = g[t \ {k + 1}]
        BY <4>2
      <4> QED
        BY <3>1, <4>1, <4>3
    <3>2. CASE k + 1 \notin t
      <4>1. t \in SUBSET (1..k)
        BY <3>2
      <4>2. g[t] = Step(g, t)
        BY <2>1, <4>1
      <4>3. t \ {Max(t)} \in SUBSET (1..(k + 1)) /\ k + 1 \notin t \ {Max(t)}
        BY <3>2
      <4>4. h[u] = g[u] /\ h[t] = g[t]
        BY <3>2, <4>3
      <4>5. Step(g, t) = Step(h, t)
        BY <4>4
      <4> QED
        BY <4>2, <4>4, <4>5
    <3> QED
      BY <3>1, <3>2
  <2>3. h = [t \in SUBSET (1..(k + 1)) |-> Step(h, t)]
    BY <2>2
  <2> HIDE DEF h, Step
  <2>4. \E x : x = [t \in SUBSET (1..(k + 1)) |-> Step(x, t)]
    BY <2>3
  <2>5. k + 1 \in Nat
    OBVIOUS
  <2> QED
    BY <2>4, <2>5, Zenon
<1>3. n \in Good
  BY <1>1, <1>2, Induction
<1> DEFINE it == CHOOSE g : g = [t \in SUBSET (1..n) |-> Step(g, t)]
           r == [k \in 0..n |-> it[1..k]]
<1>4. it = [t \in SUBSET (1..n) |-> Step(it, t)]
  BY <1>3
<1>5. UpdateLookBackWindow(b, boundary) = it[1..n]
  BY DEF UpdateLookBackWindow, Round, FoldLeft, MapThenFoldSet
<1> HIDE DEF it, Good
<1>6. r[0] = b
  <2>1. 1..0 = {} /\ {} \in SUBSET (1..n)
    OBVIOUS
  <2>2. it[{}] = b
    BY <1>4, <2>1
  <2>3. r[0] = it[1..0]
    OBVIOUS
  <2> QED
    BY <2>1, <2>2, <2>3
<1>7. ASSUME NEW k \in 1..n PROVE r[k] = Round(r[k - 1], boundary)
  <2>1. k - 1 \in Nat /\ k - 1 + 1 = k /\ k \in 1..k /\ 1..k \in SUBSET (1..n)
    OBVIOUS
  <2>2. Max(1..k) = k
    BY <2>1, MaxOfInterval
  <2>3. 1..k # {} /\ (1..k) \ {k} = 1..(k - 1)
    <3>1. \A x : x \in (1..k) \ {k} <=> x \in 1..(k - 1)
      OBVIOUS
    <3> QED
      BY <2>1, <3>1
  <2>4. it[1..k] = Round(it[1..(k - 1)], boundary)
    BY <1>4, <2>1, <2>2, <2>3
  <2> QED
    BY <2>1, <2>4
<1>8. r[n] = it[1..n]
  OBVIOUS
<1> HIDE DEF r
<1> QED
  BY <1>5, <1>6, <1>7, <1>8

(* What every round keeps, for a buffer that was exact before the first.   *)
LEMMA RoundsKeepWindow ==
  ASSUME NEW b, Exact(b), Increasing(b.frames), NEW boundary \in Int,
         NEW n \in Nat, NEW r, r[0] = b, \A k \in 1..n : r[k] = Round(r[k - 1], boundary),
         NEW k \in 0..n
  PROVE  /\ Exact(r[k]) /\ Increasing(r[k].frames)
         /\ WindowOf(r[k].frames, boundary) = WindowOf(b.frames, boundary)
         /\ FrontGopIsOut(r[k], boundary) =>
              Cardinality(KeyFrames(r[k].frames)) <= Cardinality(KeyFrames(b.frames)) - k
<1> DEFINE P(j) == /\ Exact(r[j]) /\ Increasing(r[j].frames)
                   /\ WindowOf(r[j].frames, boundary) = WindowOf(b.frames, boundary)
                   /\ FrontGopIsOut(r[j], boundary) =>
                        Cardinality(KeyFrames(r[j].frames)) <= Cardinality(KeyFrames(b.frames)) - j
           T == {j \in Nat : j <= n => P(j)}
<1>1. 0 \in T
  <2>1. Cardinality(KeyFrames(b.frames)) \in Nat
    BY KeyFramesFinite, BufferFields DEF Exact, Counted
  <2> QED
    BY <2>1
<1>2. ASSUME NEW j \in Nat, j \in T PROVE j + 1 \in T
  <2> SUFFICES ASSUME j + 1 <= n PROVE P(j + 1)
    OBVIOUS
  <2> DEFINE c == r[j]
             d == r[j + 1]
  <2>1. P(j)
    BY <1>2
  <2>2. d = Round(c, boundary)
    <3>1. j + 1 \in 1..n /\ j + 1 - 1 = j
      OBVIOUS
    <3> QED
      BY <3>1
  <2>3. /\ c.frames \in Seq(Frame) /\ Cardinality(KeyFrames(c.frames)) \in Nat
        /\ Cardinality(KeyFrames(b.frames)) \in Nat
    BY <2>1, KeyFramesFinite, BufferFields DEF Exact, Counted
  <2>4. CASE FrontGopIsOut(c, boundary)
    <3>1. d = DropFrontGop(c)
      BY <2>2, <2>4 DEF Round
    <3>2. /\ Exact(d) /\ HasSecondKeyFrame(c.frames)
          /\ d.frames = From(c.frames, SecondKeyFrame(c.frames))
          /\ Cardinality(KeyFrames(d.frames)) = Cardinality(KeyFrames(c.frames)) - 1
          /\ WindowOf(d.frames, boundary) = WindowOf(c.frames, boundary)
      BY <2>1, <2>4, <3>1, DropMakesExact, DropKeepsWindow DEF Exact
    <3>3. SecondKeyFrame(c.frames) \in 1..(Len(c.frames) + 1)
      <4>1. SecondKeyFrame(c.frames) \in 1..Len(c.frames) /\ Len(c.frames) \in Nat
        BY <2>3, <3>2, SecondProperties, LenProperties
      <4> QED
        BY <4>1
    <3>4. Increasing(d.frames)
      BY <2>1, <2>3, <3>2, <3>3, FromIncreases
    <3>5. Cardinality(KeyFrames(d.frames)) <= Cardinality(KeyFrames(b.frames)) - (j + 1)
      BY <2>1, <2>3, <2>4, <3>2
    <3> QED
      BY <2>1, <3>2, <3>4, <3>5
  <2>5. CASE ~FrontGopIsOut(c, boundary)
    <3>1. d = c
      BY <2>2, <2>5 DEF Round
    <3> HIDE DEF c, d
    <3> QED
      BY <2>1, <2>5, <3>1 DEF c, d
  <2> QED
    BY <2>4, <2>5
<1>3. Nat \subseteq T
  <2> HIDE DEF T
  <2> QED
    BY <1>1, <1>2, Induction
<1> HIDE DEF P
<1>4. k \in Nat /\ k <= n
  OBVIOUS
<1>5. P(k)
  BY <1>3, <1>4
<1> QED
  BY <1>5 DEF P

(* UpdateLookBackWindow, of a buffer whose bookkeeping is right and whose  *)
(* frames are in order: it drops the GOPs that are out of the window and   *)
(* no other, and the bookkeeping stays right.                              *)
THEOREM LookBackDropsWhatIsOut ==
  ASSUME NEW b, Exact(b), Increasing(b.frames), NEW boundary \in Int
  PROVE  /\ UpdateLookBackWindow(b, boundary).frames = WindowOf(b.frames, boundary)
         /\ Exact(UpdateLookBackWindow(b, boundary))
         /\ ~FrontGopIsOut(UpdateLookBackWindow(b, boundary), boundary)
<1> DEFINE n == Len(b.frames)
           c == UpdateLookBackWindow(b, boundary)
<1>1. b.frames \in Seq(Frame) /\ n \in Nat /\ DOMAIN b.frames = 1..n
  BY BufferFields, LenProperties DEF Exact, Counted
<1>2. PICK r : r[0] = b /\ r[n] = c /\ \A k \in 1..n : r[k] = Round(r[k - 1], boundary)
  BY <1>1, LookBackByRounds
<1>3. n \in 0..n
  BY <1>1
<1> HIDE DEF c
<1>4. /\ Exact(c) /\ Increasing(c.frames)
      /\ WindowOf(c.frames, boundary) = WindowOf(b.frames, boundary)
      /\ FrontGopIsOut(c, boundary) =>
           Cardinality(KeyFrames(c.frames)) <= Cardinality(KeyFrames(b.frames)) - n
  <2> HIDE DEF n
  <2>1. /\ Exact(r[n]) /\ Increasing(r[n].frames)
        /\ WindowOf(r[n].frames, boundary) = WindowOf(b.frames, boundary)
        /\ FrontGopIsOut(r[n], boundary) =>
             Cardinality(KeyFrames(r[n].frames)) <= Cardinality(KeyFrames(b.frames)) - n
    BY <1>1, <1>2, <1>3, RoundsKeepWindow
  <2>2. r[n] = c
    BY <1>2
  <2> QED
    BY <2>1, <2>2
<1>5. ~FrontGopIsOut(c, boundary)
  <2>1. /\ Cardinality(KeyFrames(b.frames)) \in Nat
        /\ Cardinality(KeyFrames(b.frames)) <= n
    BY <1>1, KeyFramesFinite
  <2>2. c.numKeyFrames = Cardinality(KeyFrames(c.frames)) /\ c.numKeyFrames \in Int
    BY <1>4, BufferFields DEF Exact, Counted
  <2> QED
    BY <1>1, <1>4, <2>1, <2>2 DEF FrontGopIsOut
<1>6. WindowOf(c.frames, boundary) = c.frames
  BY <1>4, <1>5, NothingIsOut
<1> QED
  BY <1>4, <1>5, <1>6 DEF c

(* However the methods are called, the key frames stay counted, and the    *)
(* remembered timestamp is wrong at most from a Pop to the next Push,      *)
(* Clear or dropped GOP (UpdateSecondKeyFrameTimestamp of Pop still sees   *)
(* the front).  Only the count of a buffer is assumed, so the order of the *)
(* calls before is free.                                                   *)
THEOREM BookkeepingIsKept ==
  ASSUME NEW b, Counted(b), NEW x \in Frame, NEW boundary \in Int
  PROVE  /\ Exact(PushFrame(b, x)) /\ Exact(ClearFrames(b))
         /\ b.frames # <<>> => Counted(PopFrame(b))
         /\ Counted(UpdateLookBackWindow(b, boundary))
         /\ \/ Exact(UpdateLookBackWindow(b, boundary))
            \/ UpdateLookBackWindow(b, boundary) = b
<1> DEFINE n == Len(b.frames)
           c == UpdateLookBackWindow(b, boundary)
<1>1. Exact(PushFrame(b, x))
  BY PushMakesExact
<1>2. Exact(ClearFrames(b))
  BY NewIsExact DEF ClearFrames
<1>3. b.frames # <<>> => Counted(PopFrame(b))
  BY PopKeepsCount
<1>4. Counted(c) /\ (Exact(c) \/ c = b)
  <2>1. n \in Nat /\ DOMAIN b.frames = 1..n
    BY BufferFields, LenProperties DEF Counted
  <2>2. PICK r : r[0] = b /\ r[n] = c /\ \A k \in 1..n : r[k] = Round(r[k - 1], boundary)
    BY <2>1, LookBackByRounds
  <2> HIDE DEF n, c
  <2> DEFINE T == {j \in Nat : j <= n => Counted(r[j]) /\ (Exact(r[j]) \/ r[j] = b)}
  <2>3. 0 \in T
    BY <2>2
  <2>4. ASSUME NEW j \in Nat, j \in T PROVE j + 1 \in T
    <3> SUFFICES ASSUME j + 1 <= n
                 PROVE  Counted(r[j + 1]) /\ (Exact(r[j + 1]) \/ r[j + 1] = b)
      OBVIOUS
    <3>1. j + 1 \in 1..n /\ j + 1 - 1 = j /\ j <= n
      BY <2>1
    <3>2. r[j + 1] = Round(r[j], boundary)
      BY <2>2, <3>1
    <3>3. Counted(r[j]) /\ (Exact(r[j]) \/ r[j] = b)
      BY <2>4, <3>1
    <3>4. CASE FrontGopIsOut(r[j], boundary)
      <4>1. Exact(DropFrontGop(r[j]))
        BY <3>3, <3>4, DropMakesExact
      <4> QED
        BY <3>2, <3>4, <4>1 DEF Round, Exact
    <3>5. CASE ~FrontGopIsOut(r[j], boundary)
      BY <3>2, <3>3, <3>5 DEF Round
    <3> QED
      BY <3>4, <3>5
  <2>5. Nat \subseteq T
    <3> HIDE DEF T
    <3> QED
      BY <2>3, <2>4, Induction
  <2>6. n \in T
    BY <2>1, <2>5
  <2> QED
    BY <2>1, <2>2, <2>6
<1> QED
  BY <1>1, <1>2, <1>3, <1>4 DEF c
=============================================================================
