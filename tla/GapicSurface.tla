------------------------------ MODULE GapicSurface ------------------------------
(* The vocabulary in which the generated Vision AI clients are described: what *)
(* a client method does with its arguments and its reply, how the REST         *)
(* transport binds a call to a URI, and what a pager iterates over.  The       *)
(* tables (WarehouseClient, WarehouseAsyncClient, WarehouseRest, ...) give one *)
(* definition per method; GapicCall says how a described call runs.            *)
(*                                                                             *)
(* A path is the sequence of attribute names that leads from the request to    *)
(* the resource name: <<"parent">>, or <<"asset", "name">> for asset.name.     *)
EXTENDS Sequences

-----------------------------------------------------------------------------
(* What a method returns: the reply itself, nothing, a future of a long        *)
(* running operation, a pager, or an iterator over the replies of a stream.    *)
Message == [kind |-> "message"]
Empty == [kind |-> "empty"]
Stream == [kind |-> "stream"]
Operation(result, metadata) == [kind |-> "operation", result |-> result, metadata |-> metadata]
Pager(class) == [kind |-> "pager", class |-> class]

-----------------------------------------------------------------------------
(* coerces: the request is built from what the caller passes, whatever it is.  *)
(* The operations mixin turns only a dict into a message, and takes no         *)
(* keywords.  extended: the repeated keywords that the asynchronous client     *)
(* extends when they are not empty, instead of assigning them.  retried: a     *)
(* call that fails with ServiceUnavailable is repeated until a deadline.       *)
(* limited: the call has a default timeout.                                    *)
Method(input, keywords, path, reply) ==
  [request |-> input, keywords |-> keywords, extended |-> {}, path |-> path, reply |-> reply,
   coerces |-> TRUE, retried |-> FALSE, limited |-> FALSE]

Mixin(input, reply) == [Method(input, {}, <<"name">>, reply) EXCEPT !.coerces = FALSE]

(* The requests of a stream are passed on as they are: no message is built and *)
(* no routing header is added.                                                 *)
StreamOf == [Method("", {}, <<>>, Stream) EXCEPT !.coerces = FALSE]

Extending(method, keywords) == [method EXCEPT !.extended = keywords]
Retried(method) == [method EXCEPT !.retried = TRUE, !.limited = TRUE]
Limited(method) == [method EXCEPT !.limited = TRUE]

(* The synchronous client takes the policies of its methods from the transport.*)
WithPolicies(methods, retried, limited) ==
  [name \in DOMAIN methods |->
    [methods[name] EXCEPT !.retried = name \in retried, !.limited = name \in limited]]

-----------------------------------------------------------------------------
(* body: the field that is sent as the HTTP body, "*" for every field that is  *)
(* not in the URI, "" for none.  defaulted: the fields that are sent in the    *)
(* query even when they are not set.  A call that REST does not offer is none. *)
Binding(verb, input, path, patterns, body, reply) ==
  [offered |-> TRUE, verb |-> verb, request |-> input, path |-> path, patterns |-> patterns,
   body |-> body, reply |-> reply, defaulted |-> {}]

Get(input, path, patterns, reply) == Binding("get", input, path, patterns, "", reply)
Delete(input, path, patterns, reply) == Binding("delete", input, path, patterns, "", reply)
Post(input, path, patterns, body, reply) == Binding("post", input, path, patterns, body, reply)
Patch(input, path, patterns, body, reply) == Binding("patch", input, path, patterns, body, reply)
Defaulting(binding, fields) == [binding EXCEPT !.defaulted = fields]
NotOffered == [Binding("", "", <<>>, {}, "", "") EXCEPT !.offered = FALSE]

-----------------------------------------------------------------------------
(* A pager sends request again, with the page token of the last response, and  *)
(* yields the items of every response.                                         *)
PagerOf(input, output, items) == [request |-> input, response |-> output, items |-> items]
=============================================================================
