--------------------------------- MODULE Pager ---------------------------------
(* A pager (pagers.py) and the iterations over it: tasks of one event loop for *)
(* an asynchronous pager, generators of one thread for a synchronous one.  All *)
(* of them share the pager's request and its last response.  The pager is made *)
(* from the first response; every further page is fetched with the page token  *)
(* of the last one.  Pages are numbered; page p has a next page token iff      *)
(* p < pages, and the token stands for page p + 1.                             *)
EXTENDS Integers, Sequences, FiniteSets

CONSTANTS
  Iterators,  \* the iterations that are begun over one pager
  MaxPages    \* bound: the pages that the server has

ASSUME PagesAssumption == MaxPages \in Nat \ {0}

VARIABLES
  open,      \* the pager exists
  pages,     \* how many pages the server has for the request
  response,  \* the page in self._response
  token,     \* the page that self._request.page_token stands for, 0 for none
  state,     \* of every iteration: new, yielded, asked, fetching, done or failed
  target,    \* the page whose token the call of an iteration carries
  got        \* the pages that an iteration has yielded, in order
pagerVars == <<open, pages, response, token, state, target, got>>

PagerInit ==
  /\ open = FALSE
  /\ pages = 1
  /\ response = 1
  /\ token = 0
  /\ state = [i \in Iterators |-> "new"]
  /\ target = [i \in Iterators |-> 0]
  /\ got = [i \in Iterators |-> <<>>]

OpenPager ==
  /\ ~open
  /\ open' = TRUE
  /\ pages' \in 1 .. MaxPages
  /\ UNCHANGED <<response, token, state, target, got>>

(* The program lets go of the pager once no iteration is under way. *)
ClosePager ==
  /\ open
  /\ \A i \in Iterators : state[i] \in {"new", "done", "failed"}
  /\ open' = FALSE
  /\ pages' = 1
  /\ response' = 1
  /\ token' = 0
  /\ state' = [i \in Iterators |-> "new"]
  /\ target' = [i \in Iterators |-> 0]
  /\ got' = [i \in Iterators |-> <<>>]

(* Mutants of HasNext: the last page has a token; the last but one has none. *)
MutHasNext(page) == page <= pages
MutHasNextButOne(page) == page + 1 < pages

HasNext(page) == page < pages

Yield(i, page) ==
  /\ state' = [state EXCEPT ![i] = "yielded"]
  /\ got' = [got EXCEPT ![i] = Append(@, page)]

(* A generator starts with whatever the last response is by then. *)
Begin(i) ==
  /\ open
  /\ state[i] = "new"
  /\ Yield(i, response)
  /\ UNCHANGED <<open, pages, response, token, target>>

(* The token goes into the shared request; the call is made with that request. *)
Ask(i) ==
  /\ state[i] = "yielded"
  /\ HasNext(response)
  /\ token' = response + 1
  /\ state' = [state EXCEPT ![i] = "asked"]
  /\ UNCHANGED <<open, pages, response, target, got>>

(* Mutant of Serialize: it waits until the request fits the last response. *)
MutSerialize(i) ==
  /\ state[i] = "asked"
  /\ token = response + 1
  /\ state' = [state EXCEPT ![i] = "fetching"]
  /\ target' = [target EXCEPT ![i] = token]
  /\ UNCHANGED <<open, pages, response, token, got>>

(* The asynchronous call serialises the request when its task runs, with the   *)
(* token that the request has by then.                                         *)
Serialize(i) ==
  /\ state[i] = "asked"
  /\ state' = [state EXCEPT ![i] = "fetching"]
  /\ target' = [target EXCEPT ![i] = token]
  /\ UNCHANGED <<open, pages, response, token, got>>

(* Nothing is awaited between the assignment of self._response and the yield.  *)
Receive(i) ==
  /\ state[i] = "fetching"
  /\ response' = target[i]
  /\ Yield(i, target[i])
  /\ UNCHANGED <<open, pages, token, target>>

(* The call raises; the exception ends the generator and leaves the pager.     *)
FetchFails(i) ==
  /\ state[i] = "fetching"
  /\ state' = [state EXCEPT ![i] = "failed"]
  /\ UNCHANGED <<open, pages, response, token, target, got>>

Exhausted(i) ==
  /\ state[i] = "yielded"
  /\ ~HasNext(response)
  /\ state' = [state EXCEPT ![i] = "done"]
  /\ UNCHANGED <<open, pages, response, token, target, got>>

IteratorStep(i) == Begin(i) \/ Ask(i) \/ Serialize(i) \/ Receive(i) \/ FetchFails(i) \/ Exhausted(i)

-----------------------------------------------------------------------------
Began == {i \in Iterators : state[i] # "new"}
Delivered == UNION {{got[i][n] : n \in DOMAIN got[i]} : i \in Iterators}

(* The variables of a pager keep their types. *)
PagerTypeOK ==
  /\ open \in BOOLEAN
  /\ pages \in 1 .. MaxPages
  /\ response \in 1 .. pages
  /\ token \in 0 .. pages
  /\ state \in [Iterators -> {"new", "yielded", "asked", "fetching", "done", "failed"}]
  /\ target \in [Iterators -> 0 .. pages]
  /\ got \in [Iterators -> Seq(1 .. pages)]

(* When an iteration over a pager ends without an error, every page has been   *)
(* yielded by some iteration, however the replies of concurrent ones overtake  *)
(* each other; and as long as there is only one, it yields the pages in order, *)
(* each of them once.                                                          *)
NoPageSkipped ==
  /\ (\E i \in Iterators : state[i] = "done") => Delivered = 1 .. pages
  /\ \A i \in Iterators :
       Began = {i} => got[i] = [n \in 1 .. response |-> n]

(* Iterations do not keep each other from ending, although a late reply takes  *)
(* the pager back to an earlier page.                                          *)
IterationEnds == \A i \in Iterators : (state[i] = "yielded") ~> (state[i] \in {"done", "failed"})
=============================================================================
