------------------------------- MODULE ApiClient -------------------------------
(* A program that calls the methods of the Vision AI clients one after the     *)
(* other and iterates over the pagers that the list methods return.  Composes  *)
(* GapicCall and Pager: a call that returns a pager hands it the first         *)
(* response, and every further page is a call of the same wrapped method with  *)
(* the same routing header.  No list method is retried, so that a page whose   *)
(* call fails ends the iteration.                                              *)
EXTENDS GapicCall, Pager

CONSTANT Pagers  \* the descriptions of the pagers, by class

VARIABLE source  \* the call that returned the pager
vars == <<callVars, pagerVars, source>>

Init ==
  /\ CallInit
  /\ PagerInit
  /\ source = NoCall

ReturnsPager(c) == MethodOf(c).reply.kind = "pager"

(* The method returns: its arguments are gone but for the pager's copy of the  *)
(* request.                                                                    *)
Released ==
  /\ phase' = "idle"
  /\ call' = NoCall
  /\ request' = <<>>
  /\ wire' = NoWire
  /\ attempts' = 0
  /\ executed' = 0
  /\ outcome' = "none"

Return ==
  /\ phase = "done"
  /\ ~(outcome = "ok" /\ ReturnsPager(call))
  /\ Released
  /\ UNCHANGED <<pagerVars, source>>

ReturnPager ==
  /\ phase = "done"
  /\ outcome = "ok"
  /\ ReturnsPager(call)
  /\ Released
  /\ OpenPager
  /\ source' = [NoCall EXCEPT !.rpc = call.rpc, !.way = call.way]

DropPager ==
  /\ ClosePager
  /\ source' = NoCall
  /\ UNCHANGED callVars

CallMethod ==
  /\ ~open
  /\ CallStep
  /\ UNCHANGED <<pagerVars, source>>

Iterate(i) ==
  /\ IteratorStep(i)
  /\ UNCHANGED <<callVars, source>>

Next ==
  \/ CallMethod
  \/ Return
  \/ ReturnPager
  \/ DropPager
  \/ \E i \in Iterators : Iterate(i)

(* The event loop resumes every iteration that may go on, and every fetch is   *)
(* answered or fails.  Nothing makes the program call again.                   *)
Spec == Init /\ [][Next]_vars /\ \A i \in Iterators : WF_vars(Iterate(i))

-----------------------------------------------------------------------------
(* Every variable keeps its type; a pager exists only between calls. *)
TypeOK ==
  /\ CallTypeOK
  /\ PagerTypeOK
  /\ open => phase = "idle" /\ ReturnsPager(source)

(* What the tables have to fulfil: the messages have the fields that the       *)
(* methods use ...                                                             *)
FieldsAreKnown == \A rpc \in Rpcs, way \in Ways : \A c \in Calls(rpc, way) : KnowsItsFields(c)

(* ... the client and the REST transport name the same resource of the same    *)
(* message ...                                                                 *)
PathsAgree ==
  \A rpc \in Rpcs, way \in Ways :
    LET method == MethodOf([rpc |-> rpc, way |-> way]) rest == Rest[rpc] IN
    method.reply.kind # "stream" => method.path = rest.path /\ method.request = rest.request

(* ... and the pager that a method returns sends the request of that method    *)
(* again, with a page token in it, and reads fields that the response of the   *)
(* transport has.                                                              *)
PagersFit ==
  \A rpc \in Rpcs, way \in Ways :
    LET method == MethodOf([rpc |-> rpc, way |-> way])
        pager == Pagers[method.reply.class]
    IN  method.reply.kind = "pager" =>
          /\ pager.request = method.request
          /\ pager.response = Rest[rpc].reply
          /\ "page_token" \in Fields[pager.request]
          /\ {"next_page_token", pager.items} \subseteq Fields[pager.response]
=============================================================================
