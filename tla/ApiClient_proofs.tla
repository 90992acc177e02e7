---------------------------- MODULE ApiClient_proofs ----------------------------
(* What holds of the generated clients whatever their tables say: for any      *)
(* methods, messages, bindings, numbers of attempts, iterations and pages.     *)
EXTENDS ApiClient, TLAPS

-----------------------------------------------------------------------------
(* Why no page is skipped, for any number of iterations and pages: whatever    *)
(* page the pager, its request or a call under way stands for, all the pages   *)
(* before it have been yielded.                                                *)

(* Nothing is left over from an earlier pager. *)
Untouched ==
  /\ response = 1
  /\ token = 0
  /\ \A i \in Iterators : state[i] = "new" /\ target[i] = 0 /\ got[i] = <<>>

(* p stands at page p: all the pages before it have been yielded. *)
YieldedUpTo(p) == \A q \in 1 .. p : q \in Delivered

PagesBehind ==
  /\ ~open => Untouched
  /\ Began = {} => Untouched
  /\ \A i \in Iterators : state[i] = "new" => got[i] = <<>>
  /\ Began # {} => YieldedUpTo(response)
  /\ token > 0 => YieldedUpTo(token - 1)
  /\ \A i \in Iterators :
       /\ state[i] = "asked" => token >= 1
       /\ state[i] = "fetching" => target[i] >= 1 /\ YieldedUpTo(target[i] - 1)
       /\ state[i] = "done" => YieldedUpTo(pages)

(* As long as there is one iteration, its call is for the page that follows.   *)
OneIsInOrder ==
  \A i \in Iterators : Began = {i} =>
    /\ got[i] = [n \in 1 .. response |-> n]
    /\ state[i] = "asked" => token = response + 1
    /\ state[i] = "fetching" => target[i] = response + 1

PagerInv == PagerTypeOK /\ PagesBehind /\ OneIsInOrder

PagerStep == OpenPager \/ ClosePager \/ \E i \in Iterators : IteratorStep(i)

-----------------------------------------------------------------------------
(* A page that is yielded joins the ones that have been. *)
LEMMA YieldDelivers ==
  ASSUME NEW i \in Iterators, NEW page \in Nat, got \in [Iterators -> Seq(Nat)], Yield(i, page)
  PROVE  \A q : q \in Delivered' <=> q \in Delivered \/ q = page
  <1>1. /\ got'[i] = Append(got[i], page)
        /\ \A j \in Iterators \ {i} : got'[j] = got[j]
    BY DEF Yield
  <1>a. got[i] \in Seq(Nat)
    OBVIOUS
  <1>2. /\ DOMAIN Append(got[i], page) = DOMAIN got[i] \cup {Len(got[i]) + 1}
        /\ Append(got[i], page)[Len(got[i]) + 1] = page
        /\ \A n \in DOMAIN got[i] : Append(got[i], page)[n] = got[i][n]
    BY <1>a
  <1>3. ASSUME NEW q, q \in Delivered'
        PROVE  q \in Delivered \/ q = page
    <2>a. PICK j \in Iterators : q \in {got'[j][n] : n \in DOMAIN got'[j]}
      BY <1>3 DEF Delivered
    <2>1. PICK n \in DOMAIN got'[j] : q = got'[j][n]
      BY <2>a
    <2>2. CASE j = i
      <3>1. n \in DOMAIN got[i] \/ n = Len(got[i]) + 1
        BY <2>1, <2>2, <1>1, <1>2
      <3> QED
        BY <2>1, <2>2, <3>1, <1>1, <1>2 DEF Delivered
    <2>3. CASE j # i
      BY <2>1, <2>3, <1>1 DEF Delivered
    <2> QED
      BY <2>2, <2>3
  <1>4. ASSUME NEW q, q \in Delivered \/ q = page
        PROVE  q \in Delivered'
    <2>1. CASE q = page
      <3>1. q = got'[i][Len(got[i]) + 1] /\ Len(got[i]) + 1 \in DOMAIN got'[i]
        BY <2>1, <1>1, <1>2
      <3> QED
        BY <3>1 DEF Delivered
    <2>2. CASE q \in Delivered
      <3>a. PICK j \in Iterators : q \in {got[j][n] : n \in DOMAIN got[j]}
        BY <2>2 DEF Delivered
      <3>1. PICK n \in DOMAIN got[j] : q = got[j][n]
        BY <3>a
      <3>2. q = got'[j][n] /\ n \in DOMAIN got'[j]
        BY <3>1, <1>1, <1>2
      <3> QED
        BY <3>1, <3>2 DEF Delivered
    <2> QED
      BY <1>4, <2>1, <2>2
  <1> QED
    BY <1>3, <1>4

(* What a sequence holds is of its element type. *)
LEMMA Elements ==
  ASSUME NEW S, NEW s \in Seq(S), NEW n \in DOMAIN s
  PROVE  s[n] \in S
  OBVIOUS

(* The page numbers in order, with one more. *)
LEMMA CountsOn ==
  ASSUME NEW r \in Nat
  PROVE  Append([n \in 1 .. r |-> n], r + 1) = [n \in 1 .. r + 1 |-> n]
  <1> DEFINE s == [n \in 1 .. r |-> n]
  <1>1. s \in Seq(Nat) /\ Len(s) = r
    OBVIOUS
  <1>2. DOMAIN Append(s, r + 1) = 1 .. r + 1
    BY <1>1
  <1>3. \A n \in 1 .. r + 1 : Append(s, r + 1)[n] = n
    BY <1>1
  <1> QED
    BY <1>1, <1>2, <1>3

-----------------------------------------------------------------------------
(* Every variable of the pager keeps its type. *)
LEMMA PagerTypes ==
  ASSUME PagerInv, PagerStep
  PROVE  PagerTypeOK'
  <1> USE PagesAssumption DEF PagerTypeOK
  <1>a. PagerTypeOK /\ PagesBehind
    BY DEF PagerInv
  <1>1. CASE OpenPager
    <2>1. Untouched
      BY <1>1, <1>a DEF OpenPager, PagesBehind
    <2>a. <<>> \in Seq(1 .. pages')
      OBVIOUS
    <2>2. \A i \in Iterators : got[i] \in Seq(1 .. pages')
      BY <2>1, <2>a DEF Untouched
    <2>3. got \in [Iterators -> Seq(1 .. pages')]
      BY <1>a, <2>2
    <2>4. target \in [Iterators -> 0 .. pages']
      BY <1>1, <1>a, <2>1 DEF OpenPager, Untouched
    <2> QED
      BY <1>1, <1>a, <2>1, <2>3, <2>4 DEF OpenPager, Untouched
  <1>2. CASE ClosePager
    <2>1. <<>> \in Seq(1 .. pages')
      OBVIOUS
    <2>2. got' \in [Iterators -> Seq(1 .. pages')]
      BY <1>2, <2>1 DEF ClosePager
    <2>3. /\ target' \in [Iterators -> 0 .. pages']
          /\ state' \in [Iterators -> {"new", "yielded", "asked", "fetching", "done", "failed"}]
      BY <1>2 DEF ClosePager
    <2>4. open' \in BOOLEAN
      BY <1>2 DEF ClosePager
    <2>5. pages' = 1 /\ response' = 1 /\ token' = 0
      BY <1>2 DEF ClosePager
    <2>6. pages' \in 1 .. MaxPages /\ response' \in 1 .. pages' /\ token' \in 0 .. pages'
      BY <2>5
    <2> QED
      BY <2>2, <2>3, <2>4, <2>6
  <1>3. ASSUME NEW i \in Iterators, NEW page \in 1 .. pages, Yield(i, page), pages' = pages
        PROVE  got' \in [Iterators -> Seq(1 .. pages')]
    <2>1. got[i] \in Seq(1 .. pages)
      BY <1>a
    <2>2. Append(got[i], page) \in Seq(1 .. pages)
      BY <2>1
    <2> QED
      BY <1>3, <1>a, <2>2 DEF Yield
  <1>4. ASSUME NEW i \in Iterators, IteratorStep(i)
        PROVE  PagerTypeOK'
    <2>1. CASE Begin(i)
      BY <1>a, <1>3, <2>1 DEF Begin, Yield
    <2>2. CASE Ask(i)
      BY <1>a, <2>2 DEF Ask, HasNext
    <2>3. CASE Serialize(i)
      BY <1>a, <2>3 DEF Serialize
    <2>4. CASE Receive(i)
      <3>1. target[i] \in 1 .. pages
        BY <1>a, <2>4 DEF Receive, PagesBehind
      <3> QED
        BY <1>a, <1>3, <2>4, <3>1 DEF Receive, Yield
    <2>5. CASE FetchFails(i)
      BY <1>a, <2>5 DEF FetchFails
    <2>6. CASE Exhausted(i)
      BY <1>a, <2>6 DEF Exhausted
    <2> QED
      BY <1>4, <2>1, <2>2, <2>3, <2>4, <2>5, <2>6 DEF IteratorStep
  <1> QED
    BY <1>1, <1>2, <1>4 DEF PagerStep

(* All pages before the ones that are stood for have been yielded. *)
LEMMA PagesStayBehind ==
  ASSUME PagerInv, PagerStep
  PROVE  PagesBehind'
  <1>a. PagerTypeOK /\ PagesBehind
    BY DEF PagerInv
  <1>b. got \in [Iterators -> Seq(Nat)]
    BY <1>a, PagesAssumption DEF PagerTypeOK
  <1>c. pages \in Nat /\ response \in Nat /\ token \in Nat /\ target \in [Iterators -> Nat]
    BY <1>a, PagesAssumption DEF PagerTypeOK
  <1>d. state \in [Iterators -> {"new", "yielded", "asked", "fetching", "done", "failed"}]
    BY <1>a DEF PagerTypeOK
  <1>1. CASE OpenPager
    BY <1>a, <1>1 DEF OpenPager, PagesBehind, Untouched, Began
  <1>2. CASE ClosePager
    BY <1>2 DEF ClosePager, PagesBehind, Untouched, Began
  <1>3. ASSUME NEW i \in Iterators, IteratorStep(i)
        PROVE  PagesBehind'
    <2>a. open /\ Began' # {}
      <3>1. state'[i] # "new" /\ (state[i] # "new" \/ open)
        BY <1>3, <1>d DEF IteratorStep, Begin, Ask, Serialize, Receive, FetchFails, Exhausted, Yield
      <3> QED
        BY <1>a, <3>1 DEF PagesBehind, Began, Untouched
    <2>b. open' /\ pages' = pages
      BY <2>a, <1>3 DEF IteratorStep, Begin, Ask, Serialize, Receive, FetchFails, Exhausted
    <2>c. \A p : got' = got => (YieldedUpTo(p)' <=> YieldedUpTo(p))
      BY DEF YieldedUpTo, Delivered
    <2>1. CASE Begin(i)
      <3>1. \A q : q \in Delivered' <=> q \in Delivered \/ q = response
        BY <1>b, <1>c, <2>1, YieldDelivers DEF Begin
      <3>2. \A p \in Nat : YieldedUpTo(p) => YieldedUpTo(p)'
        BY <3>1 DEF YieldedUpTo
      <3>3. YieldedUpTo(response)'
        <4>1. CASE Began = {}
          BY <4>1, <1>a, <2>1, <3>1 DEF PagesBehind, Untouched, YieldedUpTo, Begin
        <4>2. CASE Began # {}
          <5>1. YieldedUpTo(response)
            BY <4>2, <1>a DEF PagesBehind
          <5> QED
            BY <5>1, <2>1, <3>1 DEF YieldedUpTo, Begin
        <4> QED
          BY <4>1, <4>2
      <3>4. /\ state'[i] = "yielded"
            /\ \A j \in Iterators \ {i} : state'[j] = state[j] /\ got'[j] = got[j]
        BY <2>1, <1>b, <1>d DEF Begin, Yield
      <3>5. \A j \in Iterators :
              /\ state'[j] = "new" => got'[j] = <<>>
              /\ state'[j] = "asked" => token' >= 1
              /\ state'[j] = "fetching" => target'[j] >= 1 /\ YieldedUpTo(target[j] - 1)'
              /\ state'[j] = "done" => YieldedUpTo(pages)'
        <4> SUFFICES ASSUME NEW j \in Iterators, j # i
                     PROVE  /\ state'[j] = "new" => got'[j] = <<>>
                            /\ state'[j] = "asked" => token' >= 1
                            /\ state'[j] = "fetching" =>
                                 target'[j] >= 1 /\ YieldedUpTo(target[j] - 1)'
                            /\ state'[j] = "done" => YieldedUpTo(pages)'
          BY <3>4
        <4>1. state'[j] = state[j] /\ got'[j] = got[j] /\ target' = target /\ token' = token
          BY <2>1, <3>4 DEF Begin
        <4>2. state[j] = "fetching" => target[j] - 1 \in Nat /\ YieldedUpTo(target[j] - 1)
          BY <1>a, <1>c DEF PagesBehind
        <4>3. state[j] = "fetching" => YieldedUpTo(target[j] - 1)'
          BY <3>2, <4>1, <4>2 DEF YieldedUpTo
        <4>4. state[j] = "done" => YieldedUpTo(pages)'
          BY <1>a, <1>c, <2>b, <3>2 DEF PagesBehind, YieldedUpTo
        <4> QED
          BY <1>a, <4>1, <4>3, <4>4 DEF PagesBehind
      <3>6. token' > 0 => YieldedUpTo(token - 1)'
        <4>1. token' = token
          BY <2>1 DEF Begin
        <4>2. token > 0 => token - 1 \in Nat /\ YieldedUpTo(token - 1)
          BY <1>a, <1>c DEF PagesBehind
        <4> QED
          BY <3>2, <4>1, <4>2 DEF YieldedUpTo
      <3> QED
        BY <2>a, <2>b, <3>3, <3>5, <3>6 DEF PagesBehind
    <2>2. CASE Ask(i)
      <3>1. YieldedUpTo(response)
        BY <1>a, <2>2 DEF PagesBehind, Ask, Began
      <3> QED
        BY <1>a, <1>c, <1>d, <2>a, <2>b, <2>c, <2>2, <3>1 DEF PagesBehind, Ask
    <2>3. CASE Serialize(i)
      BY <1>a, <1>c, <1>d, <2>a, <2>b, <2>c, <2>3 DEF PagesBehind, Serialize, Began
    <2>4. CASE Receive(i)
      <3>1. \A q : q \in Delivered' <=> q \in Delivered \/ q = target[i]
        BY <1>b, <1>c, <2>4, YieldDelivers DEF Receive
      <3>2. \A p \in Nat : YieldedUpTo(p) => YieldedUpTo(p)'
        BY <3>1 DEF YieldedUpTo
      <3>3. YieldedUpTo(target[i])'
        <4>1. target[i] >= 1 /\ YieldedUpTo(target[i] - 1)
          BY <1>a, <2>4 DEF PagesBehind, Receive
        <4>2. \A q \in 1 .. target[i] : q \in 1 .. target[i] - 1 \/ q = target[i]
          BY <1>c
        <4>3. \A q \in 1 .. target[i] : q \in Delivered'
          BY <3>1, <4>1, <4>2 DEF YieldedUpTo
        <4> QED
          BY <4>3, <2>4 DEF YieldedUpTo, Receive
      <3>4. /\ state'[i] = "yielded" /\ response' = target[i]
            /\ \A j \in Iterators \ {i} : state'[j] = state[j] /\ got'[j] = got[j]
        BY <2>4, <1>b, <1>d DEF Receive, Yield
      <3> QED
        BY <1>a, <1>c, <2>a, <2>b, <2>4, <3>2, <3>3, <3>4 DEF PagesBehind, Receive, YieldedUpTo
    <2>5. CASE FetchFails(i)
      BY <1>a, <1>c, <1>d, <2>a, <2>b, <2>c, <2>5 DEF PagesBehind, FetchFails, Began
    <2>6. CASE Exhausted(i)
      <3>1. YieldedUpTo(response) /\ response = pages
        BY <1>a, <2>6 DEF PagesBehind, Exhausted, Began, HasNext, PagerTypeOK
      <3> QED
        BY <1>a, <1>c, <1>d, <2>a, <2>b, <2>c, <2>6, <3>1 DEF PagesBehind, Exhausted, Began
    <2> QED
      BY <1>3, <2>1, <2>2, <2>3, <2>4, <2>5, <2>6 DEF IteratorStep
  <1> QED
    BY <1>1, <1>2, <1>3 DEF PagerStep

(* A single iteration goes from page to page. *)
LEMMA OneStaysInOrder ==
  ASSUME PagerInv, PagerStep
  PROVE  OneIsInOrder'
  <1>a. PagerTypeOK /\ PagesBehind /\ OneIsInOrder
    BY DEF PagerInv
  <1>b. /\ response \in Nat
        /\ got \in [Iterators -> Seq(Nat)]
        /\ target \in [Iterators -> Nat]
        /\ state \in [Iterators -> {"new", "yielded", "asked", "fetching", "done", "failed"}]
    BY <1>a, PagesAssumption DEF PagerTypeOK
  <1>1. CASE OpenPager
    BY <1>a, <1>1 DEF OpenPager, PagesBehind, Untouched, OneIsInOrder, Began
  <1>2. CASE ClosePager
    BY <1>2 DEF ClosePager, OneIsInOrder, Began
  <1>3. ASSUME NEW k \in Iterators, IteratorStep(k)
        PROVE  OneIsInOrder'
    <2> SUFFICES ASSUME NEW i \in Iterators, Began' = {i}
                 PROVE  /\ got'[i] = [n \in 1 .. response' |-> n]
                        /\ state'[i] = "asked" => token' = response' + 1
                        /\ state'[i] = "fetching" => target'[i] = response' + 1
      BY DEF OneIsInOrder
    <2>a. k = i
      BY <1>3, <1>b DEF IteratorStep, Begin, Ask, Serialize, Receive, FetchFails, Exhausted, Yield, Began
    <2>1. CASE Begin(k)
      <3>1. Began = {}
        BY <2>1, <2>a, <1>b DEF Begin, Yield, Began
      <3>2. response = 1 /\ got[k] = <<>>
        BY <3>1, <1>a DEF PagesBehind, Untouched
      <3>3. got'[i] = <<1>> /\ response' = 1 /\ state'[i] = "yielded"
        BY <2>1, <2>a, <3>2, <1>b DEF Begin, Yield
      <3>4. <<1>> = [n \in 1 .. 1 |-> n]
        OBVIOUS
      <3> QED
        BY <3>3, <3>4
    <2>b. ASSUME ~Begin(k)
          PROVE  /\ got[i] = [n \in 1 .. response |-> n]
                 /\ state[i] = "asked" => token = response + 1
                 /\ state[i] = "fetching" => target[i] = response + 1
      <3>1. Began = {i}
        BY <1>3, <1>b, <2>b, <2>a DEF IteratorStep, Ask, Serialize, Receive, FetchFails, Exhausted, Yield, Began
      <3> QED
        BY <3>1, <1>a DEF OneIsInOrder
    <2>2. CASE Ask(k)
      BY <1>b, <2>2, <2>a, <2>b DEF Ask, Begin
    <2>3. CASE Serialize(k)
      BY <1>b, <2>3, <2>a, <2>b DEF Serialize, Begin
    <2>4. CASE Receive(k)
      <3>1. response' = response + 1 /\ got'[i] = Append(got[i], response + 1) /\ state'[i] = "yielded"
        BY <1>b, <2>4, <2>a, <2>b DEF Receive, Yield, Begin
      <3>2. got[i] = [n \in 1 .. response |-> n]
        BY <1>b, <2>4, <2>a, <2>b DEF Receive, Begin
      <3> QED
        BY <3>1, <3>2, CountsOn, <1>b
    <2>5. CASE FetchFails(k)
      BY <1>b, <2>5, <2>a, <2>b DEF FetchFails, Begin
    <2>6. CASE Exhausted(k)
      BY <1>b, <2>6, <2>a, <2>b DEF Exhausted, Begin
    <2> QED
      BY <1>3, <2>1, <2>2, <2>3, <2>4, <2>5, <2>6 DEF IteratorStep
  <1> QED
    BY <1>1, <1>2, <1>3 DEF PagerStep

-----------------------------------------------------------------------------
(* The invariant holds of a program without a pager, and every step of a pager *)
(* and its iterations preserves it.                                            *)
LEMMA PagerStarts == PagerInit => PagerInv
  <1> SUFFICES ASSUME PagerInit PROVE PagerInv
    OBVIOUS
  <1>1. Untouched /\ pages = 1 /\ ~open
    BY DEF PagerInit, Untouched
  <1>2. PagerTypeOK
    <2>1. <<>> \in Seq(1 .. pages)
      OBVIOUS
    <2>2. got \in [Iterators -> Seq(1 .. pages)]
      BY <2>1 DEF PagerInit
    <2>3. /\ target \in [Iterators -> 0 .. pages]
          /\ state \in [Iterators -> {"new", "yielded", "asked", "fetching", "done", "failed"}]
      BY DEF PagerInit
    <2>4. 1 \in 1 .. MaxPages /\ 1 \in 1 .. pages /\ 0 \in 0 .. pages
      BY <1>1, PagesAssumption
    <2>5. pages \in 1 .. MaxPages /\ response \in 1 .. pages /\ token \in 0 .. pages
      BY <1>1, <2>4 DEF Untouched
    <2>6. open \in BOOLEAN
      BY DEF PagerInit
    <2> QED
      BY <2>2, <2>3, <2>5, <2>6 DEF PagerTypeOK
  <1>3. PagesBehind /\ OneIsInOrder
    BY <1>1 DEF Untouched, PagesBehind, OneIsInOrder, Began
  <1> QED
    BY <1>2, <1>3 DEF PagerInv

(* No step of the pager or of an iteration breaks the invariant. *)
LEMMA PagerGoesOn ==
  ASSUME PagerInv, PagerStep
  PROVE  PagerInv'
  BY PagerTypes, PagesStayBehind, OneStaysInOrder DEF PagerInv

(* What the invariant is for. *)
LEMMA NothingSkipped == PagerInv => NoPageSkipped
  <1> SUFFICES ASSUME PagerInv PROVE NoPageSkipped
    OBVIOUS
  <1>1. \A q \in Delivered : q \in 1 .. pages
    <2> SUFFICES ASSUME NEW i \in Iterators, NEW n \in DOMAIN got[i]
                 PROVE  got[i][n] \in 1 .. pages
      BY DEF Delivered
    <2>1. got[i] \in Seq(1 .. pages)
      BY DEF PagerInv, PagerTypeOK
    <2> QED
      BY <2>1, Elements
  <1>2. (\E i \in Iterators : state[i] = "done") => \A q \in 1 .. pages : q \in Delivered
    BY DEF PagerInv, PagesBehind, YieldedUpTo
  <1>3. (\E i \in Iterators : state[i] = "done") => Delivered = 1 .. pages
    BY <1>1, <1>2
  <1>4. \A i \in Iterators : Began = {i} => got[i] = [n \in 1 .. response |-> n]
    BY DEF PagerInv, OneIsInOrder
  <1> QED
    BY <1>3, <1>4 DEF NoPageSkipped

-----------------------------------------------------------------------------
(* The calls and the pagers together.                                          *)

(* How far a call has come, and what has been seen of it. *)
CallProgress ==
  /\ phase \in {"idle", "called"} => attempts = 0 /\ executed = 0 /\ wire = NoWire
  /\ attempts = 0 => wire = NoWire
  /\ phase = "prepared" => attempts < MaxAttempts
  /\ phase = "prepared" /\ attempts > 0 => Retries(call)
  /\ phase = "sent" => executed < attempts
  /\ attempts > 1 => Retries(call)
  /\ outcome \in LocalErrors => attempts = 0
  /\ outcome = "ok" => executed >= 1

(* A call that has been sent can be sent again. *)
StaysBound ==
  attempts > 0 /\ OverRest(call) => Rest[call.rpc].offered /\ Binds(call)

(* The request is the one that the call asks for, and so is what was sent. *)
RequestKept ==
  /\ phase \in {"prepared", "sent", "failed"} \/ wire.over # "" =>
       /\ ~Mixes(call)
       /\ ~LacksAttribute(call)
       /\ request = IF Streams(call) THEN <<>> ELSE RequestOf(call)
  /\ wire.over # "" => wire = WireOf(call)

CallInv == CallTypeOK /\ CallProgress /\ StaysBound /\ RequestKept

-----------------------------------------------------------------------------
(* A call is for its method, over its transport, and a keyword is given a      *)
(* value or not.                                                               *)
LEMMA CallsAreTyped ==
  ASSUME NEW rpc, NEW way, NEW c \in Calls(rpc, way)
  PROVE  /\ c.rpc = rpc /\ c.way = way
         /\ \A k \in DOMAIN c.keywords : c.keywords[k] \in {"none", "falsy", "keyword"}
  BY DEF Calls

(* Types and progress of one call. *)
LEMMA CallTypes ==
  ASSUME CallInv, CallStep
  PROVE  CallTypeOK' /\ CallProgress'
  <1> USE AttemptsAssumption DEF CallTypeOK, CallProgress, LocalErrors, ServerErrors, ErrorOf
  <1>a. CallTypeOK /\ CallProgress
    BY DEF CallInv
  <1>1. ASSUME NEW rpc \in Rpcs, NEW way \in Ways, Call(rpc, way)
        PROVE  CallTypeOK' /\ CallProgress'
    BY <1>a, <1>1, CallsAreTyped DEF Call
  <1>2. CASE RefuseMixture
    BY <1>a, <1>2 DEF RefuseMixture, Ends
  <1>3. CASE RefuseAttribute
    BY <1>a, <1>3 DEF RefuseAttribute, Ends
  <1>4. CASE Prepare
    BY <1>a, <1>4 DEF Prepare
  <1>5. CASE RefuseStream
    BY <1>a, <1>5 DEF RefuseStream, Ends, CallInv, StaysBound
  <1>6. CASE RefuseName
    BY <1>a, <1>6 DEF RefuseName, Ends, CallInv, StaysBound
  <1>7. CASE Send
    BY <1>a, <1>7 DEF Send
  <1>8. CASE Serve
    BY <1>a, <1>8 DEF Serve, Ends
  <1>9. CASE Refuse
    BY <1>a, <1>9 DEF Refuse, Ends
  <1>10. CASE Unavailable
    BY <1>a, <1>10 DEF Unavailable
  <1>11. CASE LoseReply
    BY <1>a, <1>11 DEF LoseReply
  <1>12. CASE BreakLink
    BY <1>a, <1>12 DEF BreakLink, Ends
  <1>13. CASE TimeOut
    BY <1>a, <1>13 DEF TimeOut, Ends
  <1>14. CASE Retry
    BY <1>a, <1>14 DEF Retry
  <1>15. CASE GiveUp
    BY <1>a, <1>15 DEF GiveUp, Ends
  <1> QED
    BY <1>1, <1>2, <1>3, <1>4, <1>5, <1>6, <1>7, <1>8, <1>9, <1>10, <1>11, <1>12, <1>13, <1>14,
       <1>15 DEF CallStep

(* The binding that a sent request has is never lost. *)
LEMMA CallStaysBound ==
  ASSUME CallInv, CallStep
  PROVE  StaysBound'
  <1> USE DEF StaysBound, Binds
  <1>a. CallTypeOK /\ CallProgress /\ StaysBound
    BY DEF CallInv
  <1>1. ASSUME NEW rpc \in Rpcs, NEW way \in Ways, Call(rpc, way)
        PROVE  StaysBound'
    BY <1>a, <1>1, AttemptsAssumption DEF Call, CallProgress
  <1>2. CASE Prepare
    BY <1>a, <1>2 DEF Prepare, CallProgress
  <1>3. CASE Send
    BY <1>a, <1>3 DEF Send
  <1>4. CASE call' = call /\ request' = request /\ attempts' = attempts
    BY <1>a, <1>4
  <1> QED
    BY <1>1, <1>2, <1>3, <1>4
       DEF CallStep, RefuseMixture, RefuseAttribute, RefuseStream, RefuseName, Serve, Refuse,
           Unavailable, LoseReply, BreakLink, TimeOut, Retry, GiveUp

(* Neither is the request. *)
LEMMA CallKeepsRequest ==
  ASSUME CallInv, CallStep
  PROVE  RequestKept'
  <1>a. CallTypeOK /\ CallProgress /\ RequestKept
    BY DEF CallInv
  <1>b. NoWire.over = ""
    BY DEF NoWire
  <1>1. ASSUME NEW rpc \in Rpcs, NEW way \in Ways, Call(rpc, way)
        PROVE  RequestKept'
    BY <1>a, <1>b, <1>1 DEF Call, CallProgress, RequestKept
  <1>2. CASE Prepare
    <2>1. wire' = NoWire /\ call' = call
      BY <1>a, <1>2 DEF Prepare, CallProgress
    <2> QED
      BY <1>b, <1>2, <2>1 DEF Prepare, RequestKept
  <1>3. CASE Send
    <2>1. wire' = WireOf(call) /\ call' = call /\ request' = request /\ phase = "prepared"
      BY <1>3 DEF Send
    <2>2. WireOf(call)' = WireOf(call)
      BY <2>1 DEF WireOf, Transcoded, Arrives, InBody, InQuery
    <2> QED
      BY <1>a, <2>1, <2>2 DEF RequestKept
  <1>4. CASE /\ UNCHANGED <<call, request, wire>>
             /\ phase' \in {"prepared", "sent", "failed"} =>
                  phase \in {"prepared", "sent", "failed"}
    <2>1. WireOf(call)' = WireOf(call)
      BY <1>4 DEF WireOf, Transcoded, Arrives, InBody, InQuery
    <2> QED
      BY <1>a, <1>4, <2>1 DEF RequestKept
  <1> QED
    BY <1>1, <1>2, <1>3, <1>4
       DEF CallStep, RefuseMixture, RefuseAttribute, RefuseStream, RefuseName, Serve, Refuse,
           Unavailable, LoseReply, BreakLink, TimeOut, Retry, GiveUp, Ends

(* What arrives of a field, over either transport. *)
LEMMA FieldArrives ==
  ASSUME NEW f, NEW v \in Values, request[f] = v
  PROVE  Arrives(call, f) <=> v \in {"object", "keyword"}
  BY DEF Arrives, InBody, InQuery, Values

(* Every field is in the URI, the body or the query, and none comes from both *)
(* the object and the keywords.                                                *)
LEMMA CallArrivesWhole == CallInv => RequestArrivesWhole
  <1> SUFFICES ASSUME CallInv, wire.over # "", ~Streams(call), NEW f \in FieldsOf(call)
               PROVE  LET given == IF f \in DOMAIN call.keywords THEN call.keywords[f] ELSE "none" IN
                      IF call.given = "none"
                        THEN wire.request[f] = (IF given = "keyword" THEN "keyword" ELSE "unset")
                        ELSE \/ wire.request[f] = ObjectField(call, f)
                             \/ given = "falsy" /\ wire.request[f] = "unset"
    BY DEF RequestArrivesWhole
  <1> DEFINE given == IF f \in DOMAIN call.keywords THEN call.keywords[f] ELSE "none"
  <1>1. /\ ~Mixes(call) /\ ~LacksAttribute(call)
        /\ request = RequestOf(call)
        /\ wire.request = Transcoded(call)
    <2>1. /\ ~Mixes(call) /\ ~LacksAttribute(call)
          /\ request = (IF Streams(call) THEN <<>> ELSE RequestOf(call))
      BY DEF CallInv, RequestKept
    <2>2. wire = WireOf(call)
      BY DEF CallInv, RequestKept
    <2>3. WireOf(call).request = Transcoded(call)
      BY DEF WireOf
    <2> QED
      BY <2>1, <2>2, <2>3
  <1>2. given \in {"none", "falsy", "keyword"}
    <2>a. NoWire.over = ""
      BY DEF NoWire
    <2>1. phase # "idle"
      BY <2>a DEF CallInv, CallProgress
    <2>2. call \in Calls(call.rpc, call.way)
      BY <2>1 DEF CallInv, CallTypeOK
    <2>3. \A k \in DOMAIN call.keywords : call.keywords[k] \in {"none", "falsy", "keyword"}
      BY <2>2, CallsAreTyped
    <2> QED
      BY <2>3
  <1>3. request[f] = IF Applied(call, f) THEN given ELSE ObjectField(call, f)
    BY <1>1 DEF RequestOf, Applied
  <1>4. ObjectField(call, f) \in {"unset", "object"} /\ (call.given = "none" => ObjectField(call, f) = "unset")
    BY DEF ObjectField
  <1>5. Applied(call, f) => given # "none"
    BY DEF Applied
  <1>6. wire.request[f] = IF request[f] \in {"object", "keyword"} THEN request[f] ELSE "unset"
    <2>1. request[f] \in Values
      BY <1>2, <1>3, <1>4, <1>5 DEF Values
    <2>2. f \in DOMAIN request
      BY <1>1 DEF RequestOf
    <2> QED
      BY <1>1, <2>1, <2>2, FieldArrives DEF Transcoded
  <1>7. CASE call.given = "none"
    <2>1. given = "keyword" => Applied(call, f)
      BY <1>1, <1>7 DEF Applied, AppliesKeywords, LacksAttribute
    <2> QED
      BY <1>2, <1>3, <1>4, <1>6, <1>7, <2>1
  <1>8. CASE call.given # "none"
    <2>1. given # "keyword"
      BY <1>1, <1>8 DEF Mixes, HasTruthyKeyword
    <2> QED
      BY <1>2, <1>3, <1>4, <1>5, <1>6, <1>8, <2>1
  <1> QED
    BY <1>7, <1>8

(* Something has arrived only of a call that was sent.                         *)
LEMMA SentIsAttempted ==
  ASSUME CallInv, wire # NoWire
  PROVE  /\ phase # "idle" /\ attempts > 0
         /\ call.rpc \in Rpcs /\ call.way \in Ways /\ call \in Calls(call.rpc, call.way)
  <1>1. CallProgress /\ CallTypeOK
    BY DEF CallInv
  <1>2. phase # "idle" /\ attempts # 0
    BY <1>1 DEF CallProgress
  <1>3. attempts \in Nat
    BY <1>1, AttemptsAssumption DEF CallTypeOK
  <1>4. attempts > 0
    BY <1>2, <1>3
  <1> QED
    BY <1>1, <1>2, <1>4 DEF CallTypeOK

(* The resource in the header is the one in the request that arrives.          *)
LEMMA CallNamesResource ==
  ASSUME PathsAgree, CallInv
  PROVE  RoutedToResource
  <1> SUFFICES ASSUME wire.over # "", ~Streams(call)
               PROVE  LET resource == wire.request[Rest[call.rpc].path[1]] IN
                      /\ resource = (IF wire.header = "falsy" THEN "unset" ELSE wire.header)
                      /\ OverRest(call) => resource \in {"object", "keyword"}
    BY DEF RoutedToResource
  <1>1. /\ phase # "idle" /\ attempts > 0
        /\ call.rpc \in Rpcs /\ call.way \in Ways /\ call \in Calls(call.rpc, call.way)
    <2>1. NoWire.over = ""
      BY DEF NoWire
    <2> QED
      BY <2>1, SentIsAttempted
  <1> DEFINE method == MethodOf(call)
             rest == Rest[call.rpc]
             f == method.path[1]
  <1>2. method.path = rest.path
    <2>1. MethodOf([rpc |-> call.rpc, way |-> call.way]) = MethodOf(call)
      BY DEF MethodOf
    <2>2. MethodOf(call).reply.kind # "stream"
      BY DEF Streams
    <2> QED
      BY <1>1, <2>1, <2>2, PathsAgree DEF PathsAgree
  <1>3. /\ ~LacksAttribute(call) /\ request = RequestOf(call)
        /\ wire.header = request[f] /\ wire.request = Transcoded(call)
    <2>1. /\ ~LacksAttribute(call)
          /\ request = (IF Streams(call) THEN <<>> ELSE RequestOf(call))
          /\ wire = WireOf(call)
      BY DEF CallInv, RequestKept
    <2>2. WireOf(call).header = request[f] /\ WireOf(call).request = Transcoded(call)
      BY DEF WireOf
    <2> QED
      BY <2>1, <2>2
  <1>4. f \in FieldsOf(call)
    BY <1>3 DEF LacksAttribute, KnowsItsFields
  <1>5. request[f] \in Values /\ f \in DOMAIN request
    <2>1. \A k \in DOMAIN call.keywords : call.keywords[k] \in {"none", "falsy", "keyword"}
      <3>1. call \in Calls(call.rpc, call.way)
        BY <1>1
      <3> QED
        BY <3>1, CallsAreTyped
    <2>2. f \in DOMAIN request
      BY <1>3, <1>4 DEF RequestOf
    <2>3. request[f] = IF Applied(call, f) THEN call.keywords[f] ELSE ObjectField(call, f)
      BY <1>3, <1>4 DEF RequestOf
    <2>4. ObjectField(call, f) \in {"unset", "object"}
      BY DEF ObjectField
    <2>5. Applied(call, f) => f \in DOMAIN call.keywords /\ call.keywords[f] # "none"
      BY DEF Applied
    <2> QED
      BY <2>1, <2>2, <2>3, <2>4, <2>5 DEF Values
  <1>6. wire.request[f] = IF request[f] \in {"object", "keyword"} THEN request[f] ELSE "unset"
    <2>1. wire.request[f] = IF Arrives(call, f) THEN request[f] ELSE "unset"
      BY <1>3, <1>5 DEF Transcoded
    <2> HIDE DEF f
    <2>2. Arrives(call, f) <=> request[f] \in {"object", "keyword"}
      BY <1>5, FieldArrives
    <2> QED
      BY <2>1, <2>2
  <1>7. wire.request[f] = IF wire.header = "falsy" THEN "unset" ELSE wire.header
    BY <1>3, <1>5, <1>6 DEF Values
  <1>8. OverRest(call) => wire.request[f] \in {"object", "keyword"}
    BY <1>1, <1>2, <1>6 DEF CallInv, StaysBound, Binds
  <1> QED
    BY <1>2, <1>7, <1>8

(* A refused call was not sent: what is refused after an attempt was refused   *)
(* before it, too.                                                             *)
LEMMA CallExecutedAsPromised ==
  ASSUME CallInv, outcome = "AttributeError" => ~MethodOf(call).coerces
  PROVE  ExecutedAsPromised
  <1>1. /\ outcome = "ok" => executed >= 1
        /\ outcome \in LocalErrors => attempts = 0
        /\ attempts > 1 => MethodOf(call).retried
        /\ attempts \in Nat /\ executed \in 0 .. attempts
    BY AttemptsAssumption DEF CallInv, CallProgress, CallTypeOK, Retries
  <1> QED
    BY <1>1 DEF ExecutedAsPromised

(* With messages that have their fields, only a mixin lacks an attribute. *)
LEMMA OnlyMixinsLackAttributes ==
  ASSUME FieldsAreKnown, CallInv, outcome = "AttributeError" => ~MethodOf(call).coerces, CallStep
  PROVE  (outcome = "AttributeError" => ~MethodOf(call).coerces)'
  <1>1. CASE RefuseAttribute
    <2>1. call \in Calls(call.rpc, call.way) /\ call.rpc \in Rpcs /\ call.way \in Ways
      BY <1>1 DEF RefuseAttribute, CallInv, CallTypeOK
    <2>2. KnowsItsFields(call)
      BY <2>1 DEF FieldsAreKnown
    <2> QED
      BY <1>1, <2>2 DEF RefuseAttribute, LacksAttribute, MethodOf
  <1>2. ASSUME NEW rpc \in Rpcs, NEW way \in Ways, Call(rpc, way)
        PROVE  outcome' # "AttributeError"
    BY <1>2 DEF Call, CallInv, CallTypeOK
  <1>3. CASE ~RefuseAttribute /\ call' = call
    <2>1. outcome' = outcome \/ outcome' # "AttributeError"
      BY <1>3 DEF CallStep, Call, RefuseMixture, Prepare, RefuseStream, RefuseName, Send, Serve,
                  Refuse, Unavailable, LoseReply, BreakLink, TimeOut, Retry, GiveUp, Ends, ErrorOf
    <2> QED
      BY <1>3, <2>1 DEF MethodOf
  <1>4. call' = call \/ \E rpc \in Rpcs, way \in Ways : Call(rpc, way)
    BY DEF CallStep, RefuseMixture, RefuseAttribute, Prepare, RefuseStream, RefuseName, Send,
           Serve, Refuse, Unavailable, LoseReply, BreakLink, TimeOut, Retry, GiveUp
  <1> QED
    BY <1>1, <1>2, <1>3, <1>4

-----------------------------------------------------------------------------
(* The composition: calls and pagers leave each other alone. *)
PagerIsBetweenCalls ==
  open => phase = "idle" /\ ReturnsPager(source) /\ source.rpc \in Rpcs /\ source.way \in Ways

ClientInv == CallInv /\ PagerInv /\ PagerIsBetweenCalls

(* A program that has not called anything yet. *)
LEMMA CallStarts == CallInit => CallInv
  <1> SUFFICES ASSUME CallInit PROVE CallInv
    OBVIOUS
  <1>1. CallTypeOK
    BY AttemptsAssumption DEF CallInit, CallTypeOK, LocalErrors, ServerErrors
  <1>2. CallProgress /\ StaysBound
    BY AttemptsAssumption DEF CallInit, CallProgress, StaysBound, LocalErrors
  <1>3. RequestKept
    BY DEF CallInit, RequestKept, NoWire
  <1> QED
    BY <1>1, <1>2, <1>3 DEF CallInv

(* No step of a call breaks its invariant. *)
LEMMA CallGoesOn ==
  ASSUME CallInv, CallStep
  PROVE  CallInv'
  BY CallTypes, CallStaysBound, CallKeepsRequest DEF CallInv

(* Neither does a step that is not the call's. *)
LEMMA CallRests ==
  ASSUME CallInv, UNCHANGED callVars
  PROVE  CallInv'
  <1>a. UNCHANGED <<phase, call, request, wire, attempts, executed, outcome>>
    BY DEF callVars
  <1>1. CallTypeOK' /\ CallProgress'
    BY <1>a DEF CallInv, CallTypeOK, CallProgress
  <1>2. StaysBound'
    BY <1>a DEF CallInv, StaysBound, Binds
  <1>3. WireOf(call)' = WireOf(call)
    BY <1>a DEF WireOf, Transcoded, Arrives, InBody, InQuery
  <1>4. RequestKept'
    BY <1>a, <1>3 DEF CallInv, RequestKept
  <1> QED
    BY <1>1, <1>2, <1>4 DEF CallInv

(* The method has returned. *)
LEMMA CallIsReleased ==
  ASSUME Released
  PROVE  CallInv'
  <1>1. CallTypeOK'
    BY AttemptsAssumption DEF Released, CallTypeOK, LocalErrors, ServerErrors
  <1>2. CallProgress' /\ StaysBound'
    BY AttemptsAssumption DEF Released, CallProgress, StaysBound, LocalErrors
  <1>3. RequestKept'
    BY DEF Released, RequestKept, NoWire
  <1> QED
    BY <1>1, <1>2, <1>3 DEF CallInv

(* A call leaves the pager's variables alone. *)
LEMMA PagerRests ==
  ASSUME PagerInv, UNCHANGED pagerVars
  PROVE  PagerInv'
  <1>a. UNCHANGED <<open, pages, response, token, state, target, got>>
    BY DEF pagerVars
  <1>1. PagerTypeOK'
    BY <1>a DEF PagerInv, PagerTypeOK
  <1>2. PagesBehind'
    BY <1>a DEF PagerInv, PagesBehind, Untouched, YieldedUpTo, Delivered, Began
  <1>3. OneIsInOrder'
    BY <1>a DEF PagerInv, OneIsInOrder, Began
  <1> QED
    BY <1>1, <1>2, <1>3 DEF PagerInv

(* Every step of the program preserves the invariant of both. *)
LEMMA ClientStep ==
  ASSUME ClientInv, [Next]_vars
  PROVE  ClientInv'
  <1>a. CallInv /\ PagerInv /\ PagerIsBetweenCalls
    BY DEF ClientInv
  <1>1. CASE CallMethod
    BY <1>a, <1>1, CallGoesOn, PagerRests DEF CallMethod, ClientInv, PagerIsBetweenCalls, pagerVars
  <1>2. CASE Return
    BY <1>a, <1>2, CallIsReleased, PagerRests
       DEF Return, Released, ClientInv, PagerIsBetweenCalls, pagerVars, ReturnsPager, MethodOf
  <1>3. CASE ReturnPager
    <2>1. CallInv' /\ PagerInv'
      BY <1>a, <1>3, CallIsReleased, PagerGoesOn DEF ReturnPager, PagerStep
    <2>2. /\ source'.rpc = call.rpc /\ source'.way = call.way
          /\ call.rpc \in Rpcs /\ call.way \in Ways
      BY <1>a, <1>3 DEF ReturnPager, NoCall, CallInv, CallTypeOK
    <2>3. ReturnsPager(source)'
      BY <1>3, <2>2 DEF ReturnPager, ReturnsPager, MethodOf
    <2> QED
      BY <1>3, <2>1, <2>2, <2>3 DEF ReturnPager, Released, ClientInv, PagerIsBetweenCalls
  <1>4. CASE DropPager
    <2>1. CallInv' /\ PagerInv'
      BY <1>a, <1>4, CallRests, PagerGoesOn DEF DropPager, PagerStep
    <2> QED
      BY <1>4, <2>1 DEF DropPager, ClosePager, ClientInv, PagerIsBetweenCalls
  <1>5. ASSUME NEW i \in Iterators, Iterate(i)
        PROVE  ClientInv'
    <2>1. CallInv' /\ PagerInv'
      BY <1>a, <1>5, CallRests, PagerGoesOn DEF Iterate, PagerStep
    <2>2. open' = open /\ UNCHANGED <<phase, source>>
      BY <1>5 DEF Iterate, IteratorStep, Begin, Ask, Serialize, Receive, FetchFails, Exhausted, callVars
    <2> QED
      BY <1>a, <2>1, <2>2 DEF ClientInv, PagerIsBetweenCalls, ReturnsPager, MethodOf
  <1>6. CASE UNCHANGED vars
    <2>1. CallInv' /\ PagerInv'
      BY <1>a, <1>6, CallRests, PagerRests DEF vars
    <2> QED
      BY <1>a, <1>6, <2>1
         DEF vars, callVars, pagerVars, ClientInv, PagerIsBetweenCalls, ReturnsPager, MethodOf
  <1> QED
    BY <1>1, <1>2, <1>3, <1>4, <1>5, <1>6 DEF Next

(* The invariant holds in every behaviour. *)
LEMMA ClientInduction == Spec => []ClientInv
  <1>1. Init => ClientInv
    BY CallStarts, PagerStarts DEF Init, ClientInv, PagerIsBetweenCalls, PagerInit
  <1>2. ClientInv /\ [Next]_vars => ClientInv'
    BY ClientStep
  <1> QED
    BY <1>1, <1>2, PTL DEF Spec

-----------------------------------------------------------------------------
(* Every variable keeps its type, and a pager exists only between calls. *)
THEOREM TypeCorrect == Spec => []TypeOK
  <1>1. ClientInv => TypeOK
    BY DEF ClientInv, CallInv, PagerInv, PagerIsBetweenCalls, TypeOK
  <1> QED
    BY <1>1, ClientInduction, PTL

(* Whatever the tables say, the server sees the whole request of the caller,   *)
(* or none: no field is mixed in, replaced or taken for unset.                 *)
THEOREM RequestsArriveWhole == Spec => []RequestArrivesWhole
  <1>1. ClientInv => RequestArrivesWhole
    BY CallArrivesWhole DEF ClientInv
  <1> QED
    BY <1>1, ClientInduction, PTL

(* If the messages have the fields that the methods use, a call that ends in   *)
(* the client was never sent, and only a retried one is executed twice.        *)
THEOREM CallsAreExecutedAsPromised ==
  ASSUME FieldsAreKnown PROVE Spec => []ExecutedAsPromised
  <1> DEFINE Mixed == outcome = "AttributeError" => ~MethodOf(call).coerces
  <1>1. Init => ClientInv /\ Mixed
    BY CallStarts, PagerStarts DEF Init, ClientInv, PagerIsBetweenCalls, PagerInit, CallInit
  <1>2. ClientInv /\ Mixed /\ [Next]_vars => Mixed'
    <2> SUFFICES ASSUME ClientInv, Mixed, [Next]_vars PROVE Mixed'
      OBVIOUS
    <2>1. CASE CallMethod
      BY <2>1, FieldsAreKnown, OnlyMixinsLackAttributes DEF CallMethod, ClientInv
    <2>2. CASE Return \/ ReturnPager
      BY <2>2 DEF Return, ReturnPager, Released
    <2>3. CASE UNCHANGED callVars
      BY <2>3 DEF callVars, MethodOf
    <2> QED
      BY <2>1, <2>2, <2>3 DEF Next, DropPager, Iterate, vars
  <1>3. ClientInv /\ Mixed => ExecutedAsPromised
    BY CallExecutedAsPromised DEF ClientInv
  <1>4. ClientInv /\ Mixed /\ [Next]_vars => (ClientInv /\ Mixed)'
    BY <1>2, ClientStep
  <1> QED
    BY <1>1, <1>3, <1>4, PTL DEF Spec

(* If client and REST transport take the resource from the same field, what a  *)
(* client method puts into the routing header is the resource of the message   *)
(* that arrives, whatever mixture of object and keywords the caller passes,    *)
(* over both transports and however often the call is repeated.                *)
THEOREM ResourceStaysRouted ==
  ASSUME PathsAgree PROVE Spec => []RoutedToResource
  <1>1. ClientInv => RoutedToResource
    BY PathsAgree, CallNamesResource DEF ClientInv
  <1> QED
    BY <1>1, ClientInduction, PTL

(* For any number of iterations over a pager, pages and overtaking replies, an *)
(* iteration that ends without an error leaves no page out, and a single one   *)
(* yields the pages in order.                                                  *)
THEOREM NoPageIsSkipped == Spec => []NoPageSkipped
  <1>1. ClientInv => NoPageSkipped
    BY NothingSkipped DEF ClientInv
  <1> QED
    BY <1>1, ClientInduction, PTL
================================================================================
