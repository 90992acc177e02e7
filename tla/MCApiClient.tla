------------------------------ MODULE MCApiClient ------------------------------
(* All the methods of the five services, as their tables describe them. *)
EXTENDS ApiClient, TLC

SW == INSTANCE WarehouseClient
SA == INSTANCE AppPlatformClient
SL == INSTANCE LiveVideoAnalyticsClient
SS == INSTANCE StreamsServiceClient
SP == INSTANCE StreamingServiceClient
AW == INSTANCE WarehouseAsyncClient
AA == INSTANCE AppPlatformAsyncClient
AL == INSTANCE LiveVideoAnalyticsAsyncClient
AS == INSTANCE StreamsServiceAsyncClient
AP == INSTANCE StreamingServiceAsyncClient
RW == INSTANCE WarehouseRest
RA == INSTANCE AppPlatformRest
RL == INSTANCE LiveVideoAnalyticsRest
RS == INSTANCE StreamsServiceRest
RP == INSTANCE StreamingServiceRest
VM == INSTANCE VisionAiMessages
VP == INSTANCE VisionAiPagers

(* The tables are given as explicit functions (@@ <<>>), which TLC evaluates   *)
(* once.                                                                       *)
SyncOf ==
  [warehouse |-> SW!Methods @@ <<>>, app_platform |-> SA!Methods @@ <<>>, lva |-> SL!Methods @@ <<>>,
   streams |-> SS!Methods @@ <<>>, streaming |-> SP!Methods @@ <<>>]
AsyncOf ==
  [warehouse |-> AW!Methods, app_platform |-> AA!Methods, lva |-> AL!Methods,
   streams |-> AS!Methods, streaming |-> AP!Methods]
RestOf ==
  [warehouse |-> RW!Bindings, app_platform |-> RA!Bindings, lva |-> RL!Bindings,
   streams |-> RS!Bindings, streaming |-> RP!Bindings]

Flat(tables) ==
  LET rpcs == UNION {{<<s, m>> : m \in DOMAIN tables[s]} : s \in DOMAIN tables}
  IN  [r \in rpcs |-> tables[r[1]][r[2]]] @@ <<>>

(* An operation may belong to any resource that get_operation knows; the other *)
(* methods are called for the resources they are made for.                     *)
NamesIn(sync, rest) ==
  [r \in DOMAIN sync |->
    IF sync[r].path = <<>> THEN {""}
    ELSE IF sync[r].coerces THEN rest[r].patterns
    ELSE rest[<<r[1], "get_operation">>].patterns] @@ <<>>

SyncTable == LET t == SyncOf IN Flat(t)
AsyncTable == LET t == AsyncOf IN Flat(t)
RestTable == LET t == RestOf IN Flat(t)
FieldTable == VM!MessageFields
PagerTable == VP!PagerClasses
NameTable == LET s == SyncTable r == RestTable IN NamesIn(s, r)
AllRpcs == LET t == AsyncTable IN DOMAIN t

(* What the tables of the two clients, the REST transport, the messages and    *)
(* the pagers, each translated from a file of its own, have to do with each    *)
(* other.  The theorems about the clients start from the first two.            *)
ASSUME TablesAssumption == FieldsAreKnown /\ PathsAgree /\ PagersFit

MCRpcs == AllRpcs
MCSync == SyncTable
MCAsync == AsyncTable
MCRest == RestTable
MCFields == FieldTable
MCPagers == PagerTable
MCNames == NameTable
=============================================================================
