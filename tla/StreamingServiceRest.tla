------------------------- MODULE StreamingServiceRest -------------------------
(* The calls of StreamingServiceRestTransport                                  *)
(* (streaming_service/transports/rest.py): the HTTP verb, the field whose      *)
(* value is matched with the URI patterns, the field that is sent as the body, *)
(* and the message that the answer is parsed as.                               *)
EXTENDS GapicSurface

AcquireLease == Post("AcquireLeaseRequest", <<"series">>,
    {"projects/*/locations/*/clusters/*/series/*"}, "*", "Lease")
ReceiveEvents == NotOffered
ReceivePackets == NotOffered
ReleaseLease == Post("ReleaseLeaseRequest", <<"series">>,
    {"projects/*/locations/*/clusters/*/series/*"}, "*", "ReleaseLeaseResponse")
RenewLease == Post("RenewLeaseRequest", <<"series">>,
    {"projects/*/locations/*/clusters/*/series/*"}, "*", "Lease")
SendPackets == NotOffered
CancelOperation == Post("CancelOperationRequest", <<"name">>,
    {"projects/*/locations/*/operations/*"}, "*", "Empty")
DeleteOperation == Delete("DeleteOperationRequest", <<"name">>,
    {"projects/*/locations/*/operations/*"}, "Empty")
GetOperation == Get("GetOperationRequest", <<"name">>, {"projects/*/locations/*/operations/*",
    "projects/*/locations/*/warehouseOperations/*",
    "projects/*/locations/*/corpora/*/assets/*/operations/*",
    "projects/*/locations/*/corpora/*/collections/*/operations/*",
    "projects/*/locations/*/corpora/*/imageIndexes/*/operations/*",
    "projects/*/locations/*/corpora/*/indexes/*/operations/*",
    "projects/*/locations/*/corpora/*/operations/*",
    "projects/*/locations/*/indexEndpoints/*/operations/*"}, "Operation")
ListOperations == Get("ListOperationsRequest", <<"name">>, {"projects/*/locations/*"},
    "ListOperationsResponse")

Bindings ==
  [send_packets |-> SendPackets, receive_packets |-> ReceivePackets, receive_events |->
   ReceiveEvents, acquire_lease |-> AcquireLease, renew_lease |-> RenewLease, release_lease |->
   ReleaseLease, list_operations |-> ListOperations, get_operation |-> GetOperation,
   delete_operation |-> DeleteOperation, cancel_operation |-> CancelOperation]
=============================================================================
