------------------------ MODULE StreamingServiceClient ------------------------
(* The methods of StreamingServiceClient (streaming_service/client.py): the    *)
(* keywords that are fields of the request, the field that is sent in the      *)
(* routing header, and what the reply is wrapped in. Retries and timeouts are  *)
(* those of the transport (base.py).                                           *)
EXTENDS GapicSurface

send_packets == StreamOf
receive_packets == StreamOf
receive_events == StreamOf
acquire_lease == Method("AcquireLeaseRequest", {}, <<"series">>, Message)
renew_lease == Method("RenewLeaseRequest", {}, <<"series">>, Message)
release_lease == Method("ReleaseLeaseRequest", {}, <<"series">>, Message)
list_operations == Mixin("ListOperationsRequest", Message)
get_operation == Mixin("GetOperationRequest", Message)
delete_operation == Mixin("DeleteOperationRequest", Empty)
cancel_operation == Mixin("CancelOperationRequest", Empty)

(* The default policies, by name of the method. *)
retried == {}
limited == {}

Methods == WithPolicies(
  [send_packets |-> send_packets, receive_packets |-> receive_packets, receive_events |->
   receive_events, acquire_lease |-> acquire_lease, renew_lease |-> renew_lease, release_lease |->
   release_lease, list_operations |-> list_operations, get_operation |-> get_operation,
   delete_operation |-> delete_operation, cancel_operation |-> cancel_operation],
  retried, limited)
=============================================================================
