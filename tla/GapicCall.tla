------------------------------- MODULE GapicCall -------------------------------
(* One call of a method of a generated client, from the caller's arguments to  *)
(* what it gets: the arguments become a request, the request goes to the       *)
(* server over gRPC or REST, and the call is repeated when its policy says so. *)
(* The synchronous client takes either transport, the asynchronous client gRPC.*)
(*                                                                             *)
(* The server, google.api_core and the network are external: a call is served, *)
(* refused, found unavailable, or served with its reply lost.                  *)
EXTENDS Integers, Sequences, FiniteSets, GapicSurface

CONSTANTS
  Rpcs,         \* the methods of the services
  Sync, Async,  \* their descriptions in the two clients
  Rest,         \* and their REST bindings
  Fields,       \* the fields of every request message
  Names,        \* the shapes of resource names that a method may be called for
  MaxAttempts   \* bound: how often a retried call is sent before its deadline

ASSUME AttemptsAssumption == MaxAttempts \in Nat \ {0}

VARIABLES
  phase,     \* idle, called, prepared, sent, failed or done
  call,      \* what the caller passes
  request,   \* the fields of the request message, once there is one
  wire,      \* what the last attempt brought to the server
  attempts,  \* attempts sent
  executed,  \* attempts the server executed
  outcome    \* how the call ended: "ok" or the error that was raised
callVars == <<phase, call, request, wire, attempts, executed, outcome>>

-----------------------------------------------------------------------------
(* A field is unset, set to a value that Python counts as false, or has the    *)
(* value it has in the caller's request object or keyword.                     *)
Values == {"unset", "falsy", "object", "keyword"}
Given == {"none", "dict", "message"}
Ways == {<<"sync", "grpc">>, <<"sync", "rest">>, <<"async", "grpc">>}
LocalErrors == {"ValueError", "AttributeError", "NotImplementedError"}
ServerErrors == {"GoogleAPICallError", "ServiceUnavailable", "DeadlineExceeded", "RetryError",
                 "RequestException", "AioRpcError"}

NoCall == [rpc |-> <<>>, way |-> <<"", "">>, given |-> "none", addressed |-> FALSE, name |-> "",
           keywords |-> <<>>]
NoWire == [over |-> "", header |-> "", request |-> <<>>]

MethodOf(c) == IF c.way[1] = "sync" THEN Sync[c.rpc] ELSE Async[c.rpc]
FieldsOf(c) == Fields[MethodOf(c).request]
OverRest(c) == c.way[2] = "rest"
Streams(c) == MethodOf(c).reply.kind = "stream"

(* The asynchronous operations mixin wraps its methods as the synchronous      *)
(* client does: the errors of gRPC, which only awaiting the call raises, are   *)
(* not converted to those of google.api_core.                                  *)
ErrorOf(c, error) ==
  IF c.way[1] = "async" /\ ~MethodOf(c).coerces /\ ~Streams(c) THEN "AioRpcError" ELSE error

(* addressed: the caller's object has the resource name.  name: its shape.     *)
Calls(rpc, way) ==
  {c \in [rpc: {rpc}, way: {way}, given: Given, addressed: BOOLEAN, name: Names[rpc],
          keywords: [MethodOf([rpc |-> rpc, way |-> way]).keywords -> {"none", "falsy", "keyword"}]] :
     c.given = "none" \/ Streams(c) => ~c.addressed /\ c.given = "none"}

HasTruthyKeyword(c) == \E k \in DOMAIN c.keywords : c.keywords[k] = "keyword"

(* The fields of the object that the caller passes as request.                 *)
ObjectField(c, f) ==
  IF c.given = "none" \/ (f = MethodOf(c).path[1] /\ ~c.addressed) THEN "unset" ELSE "object"

(* The synchronous client applies keywords to a message it builds; a caller's  *)
(* message is used as it is.  The asynchronous client copies the message and   *)
(* applies keywords in any case; it extends repeated fields only by something. *)
AppliesKeywords(c) == MethodOf(c).coerces /\ (c.way[1] = "async" \/ c.given # "message")
Applied(c, f) ==
  /\ AppliesKeywords(c)
  /\ f \in DOMAIN c.keywords
  /\ c.keywords[f] # "none"
  /\ f \in MethodOf(c).extended => c.keywords[f] = "keyword"

RequestOf(c) ==
  [f \in FieldsOf(c) |-> IF Applied(c, f) THEN c.keywords[f] ELSE ObjectField(c, f)]

KnowsItsFields(c) ==
  Streams(c) \/ {MethodOf(c).path[1]} \cup DOMAIN c.keywords \subseteq FieldsOf(c)

-----------------------------------------------------------------------------
(* Mutant of Binds: the field need not be set. *)
MutBinds(c) == c.name \in Rest[c.rpc].patterns

(* REST: the field of the path is part of the URI and has to match a pattern;  *)
(* the body is one field or all the others; the rest is the query, which       *)
(* leaves out what is not set, but for the fields that are always sent.        *)
Binds(c) ==
  LET rest == Rest[c.rpc] IN
  /\ request[rest.path[1]] \in {"object", "keyword"}
  /\ c.name \in rest.patterns

InBody(rest, f) == rest.body = "*" \/ f = rest.body
InQuery(rest, f) ==
  /\ ~InBody(rest, f)
  /\ f # rest.path[1]
  /\ request[f] \in {"object", "keyword"} \/ f \in rest.defaulted

(* A field that does not arrive, and one that arrives with its default value,  *)
(* is not set in the message that the server reads.                            *)
Arrives(c, f) ==
  LET rest == Rest[c.rpc] IN
  /\ request[f] \notin {"unset", "falsy"}
  /\ OverRest(c) => f = rest.path[1] \/ InBody(rest, f) \/ InQuery(rest, f)

Transcoded(c) == [f \in DOMAIN request |-> IF Arrives(c, f) THEN request[f] ELSE "unset"]

WireOf(c) ==
  [over |-> c.way[2],
   header |-> IF Streams(c) THEN "" ELSE request[MethodOf(c).path[1]],
   request |-> Transcoded(c)]

-----------------------------------------------------------------------------
CallInit ==
  /\ phase = "idle"
  /\ call = NoCall
  /\ request = <<>>
  /\ wire = NoWire
  /\ attempts = 0
  /\ executed = 0
  /\ outcome = "none"

Ends(with) ==
  /\ phase' = "done"
  /\ outcome' = with

Call(rpc, way) ==
  /\ phase = "idle"
  /\ phase' = "called"
  /\ call' \in Calls(rpc, way)
  /\ UNCHANGED <<request, wire, attempts, executed, outcome>>

(* Mutant of Mixes: only a message is looked at. *)
MutMixes(c) == c.given = "message" /\ HasTruthyKeyword(c)

(* A request object together with keyword arguments. *)
Mixes(c) == c.given # "none" /\ HasTruthyKeyword(c)

RefuseMixture ==
  /\ phase = "called"
  /\ Mixes(call)
  /\ Ends("ValueError")
  /\ UNCHANGED <<call, request, wire, attempts, executed>>

(* The mixin reads request.name of whatever it was given; a field that the     *)
(* message does not have cannot be assigned or read.                           *)
LacksAttribute(c) ==
  \/ ~KnowsItsFields(c)
  \/ ~MethodOf(c).coerces /\ ~Streams(c) /\ c.given = "none"

RefuseAttribute ==
  /\ phase = "called"
  /\ ~Mixes(call)
  /\ LacksAttribute(call)
  /\ Ends("AttributeError")
  /\ UNCHANGED <<call, request, wire, attempts, executed>>

Prepare ==
  /\ phase = "called"
  /\ ~Mixes(call)
  /\ ~LacksAttribute(call)
  /\ phase' = "prepared"
  /\ request' = IF Streams(call) THEN <<>> ELSE RequestOf(call)
  /\ UNCHANGED <<call, wire, attempts, executed, outcome>>

(* The REST transport does not offer streams. *)
RefuseStream ==
  /\ phase = "prepared"
  /\ OverRest(call)
  /\ ~Rest[call.rpc].offered
  /\ Ends("NotImplementedError")
  /\ UNCHANGED <<call, request, wire, attempts, executed>>

RefuseName ==
  /\ phase = "prepared"
  /\ OverRest(call)
  /\ Rest[call.rpc].offered
  /\ ~Binds(call)
  /\ Ends("ValueError")
  /\ UNCHANGED <<call, request, wire, attempts, executed>>

Send ==
  /\ phase = "prepared"
  /\ OverRest(call) => Rest[call.rpc].offered /\ Binds(call)
  /\ phase' = "sent"
  /\ attempts' = attempts + 1
  /\ wire' = WireOf(call)
  /\ UNCHANGED <<call, request, executed, outcome>>

-----------------------------------------------------------------------------
(* The server executes the call and its reply arrives. *)
Serve ==
  /\ phase = "sent"
  /\ executed' = executed + 1
  /\ Ends("ok")
  /\ UNCHANGED <<call, request, wire, attempts>>

(* Any status but UNAVAILABLE. *)
Refuse ==
  /\ phase = "sent"
  /\ Ends(ErrorOf(call, "GoogleAPICallError"))
  /\ UNCHANGED <<call, request, wire, attempts, executed>>

Unavailable ==
  /\ phase = "sent"
  /\ phase' = "failed"
  /\ UNCHANGED <<call, request, wire, attempts, executed, outcome>>

(* The server executes the call and its reply is lost: the client sees         *)
(* UNAVAILABLE, from gRPC or as the status 503 of a gateway.  A broken HTTP     *)
(* connection is an exception of the requests library, which nobody retries.   *)
LoseReply ==
  /\ phase = "sent"
  /\ executed' = executed + 1
  /\ phase' = "failed"
  /\ UNCHANGED <<call, request, wire, attempts, outcome>>

BreakLink ==
  /\ phase = "sent"
  /\ OverRest(call)
  /\ executed' \in {executed, executed + 1}
  /\ Ends("RequestException")
  /\ UNCHANGED <<call, request, wire, attempts>>

(* A default timeout ends the call, whether the server executed it or not.     *)
TimeOut ==
  /\ phase = "sent"
  /\ MethodOf(call).limited
  /\ executed' \in {executed, executed + 1}
  /\ Ends(IF OverRest(call) THEN "RequestException" ELSE "DeadlineExceeded")
  /\ UNCHANGED <<call, request, wire, attempts>>

(* Mutant of Retries: every method without a default timeout is repeated. *)
MutRetries(c) == ~MethodOf(c).limited \/ MethodOf(c).retried

(* The call is sent again as it is, as long as the deadline has not passed.    *)
Retries(c) == MethodOf(c).retried

Retry ==
  /\ phase = "failed"
  /\ Retries(call)
  /\ attempts < MaxAttempts
  /\ phase' = "prepared"
  /\ UNCHANGED <<call, request, wire, attempts, executed, outcome>>

GiveUp ==
  /\ phase = "failed"
  /\ Ends(IF Retries(call) THEN "RetryError" ELSE ErrorOf(call, "ServiceUnavailable"))
  /\ UNCHANGED <<call, request, wire, attempts, executed>>

CallStep ==
  \/ \E rpc \in Rpcs, way \in Ways : Call(rpc, way)
  \/ RefuseMixture
  \/ RefuseAttribute
  \/ Prepare
  \/ RefuseStream
  \/ RefuseName
  \/ Send
  \/ Serve
  \/ Refuse
  \/ Unavailable
  \/ LoseReply
  \/ BreakLink
  \/ TimeOut
  \/ Retry
  \/ GiveUp

-----------------------------------------------------------------------------
(* The variables of a call keep their types. *)
CallTypeOK ==
  /\ phase \in {"idle", "called", "prepared", "sent", "failed", "done"}
  /\ attempts \in 0 .. MaxAttempts
  /\ executed \in 0 .. attempts
  /\ outcome \in {"none", "ok"} \cup LocalErrors \cup ServerErrors
  /\ (phase = "done") <=> (outcome # "none")
  /\ phase # "idle" => call.rpc \in Rpcs /\ call.way \in Ways /\ call \in Calls(call.rpc, call.way)

(* A server never sees a request that was put together from the caller's       *)
(* object and from keywords, and it sees all of it: every field is that of the *)
(* object, or every field is that of the keywords, whichever client and        *)
(* transport were used.  A keyword that counts as false passes the check for   *)
(* mixtures (any([...])) and may clear a field of the object, no more.         *)
(* Over REST the transcoding puts every field somewhere; what can go wrong     *)
(* there is only that a value is taken for one that need not be sent.          *)
RequestArrivesWhole ==
  wire.over # "" /\ ~Streams(call) =>
    \A f \in FieldsOf(call) :
      LET given == IF f \in DOMAIN call.keywords THEN call.keywords[f] ELSE "none" IN
      IF call.given = "none"
        THEN wire.request[f] = (IF given = "keyword" THEN "keyword" ELSE "unset")
        ELSE \/ wire.request[f] = ObjectField(call, f)
             \/ given = "falsy" /\ wire.request[f] = "unset"

(* The routing header, which a client method makes from a field of the request *)
(* it has built, and the message that arrives, which over REST is put together *)
(* from URI, body and query again, name one resource, however the caller has   *)
(* passed it; and REST sends nothing that names none.                          *)
RoutedToResource ==
  wire.over # "" /\ ~Streams(call) =>
    LET resource == wire.request[Rest[call.rpc].path[1]] IN
    /\ resource = (IF wire.header = "falsy" THEN "unset" ELSE wire.header)
    /\ OverRest(call) => resource \in {"object", "keyword"}

(* A call that returns was executed; one that is refused in the client was     *)
(* never sent, and only the operations mixin without a request ends with an    *)
(* AttributeError; a call is executed more than once only if it is one of the  *)
(* methods that are repeated when the server is unavailable.                   *)
ExecutedAsPromised ==
  /\ outcome = "ok" => executed >= 1
  /\ outcome \in LocalErrors => executed = 0 /\ attempts = 0
  /\ outcome = "AttributeError" => ~MethodOf(call).coerces
  /\ executed > 1 => MethodOf(call).retried
=============================================================================
