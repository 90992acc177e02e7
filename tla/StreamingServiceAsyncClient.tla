--------------------- MODULE StreamingServiceAsyncClient ---------------------
(* The methods of StreamingServiceAsyncClient                                  *)
(* (streaming_service/async_client.py). Unlike the synchronous client it       *)
(* copies the request before it applies the keywords, and every method names   *)
(* its own retries and timeout.                                                *)
EXTENDS GapicSurface

send_packets == StreamOf
receive_packets == StreamOf
receive_events == StreamOf
acquire_lease == Method("AcquireLeaseRequest", {}, <<"series">>, Message)
renew_lease == Method("RenewLeaseRequest", {}, <<"series">>, Message)
release_lease == Method("ReleaseLeaseRequest", {}, <<"series">>, Message)
list_operations == Mixin("ListOperationsRequest", Message)
get_operation == Mixin("GetOperationRequest", Message)
delete_operation == Mixin("DeleteOperationRequest", Empty)
cancel_operation == Mixin("CancelOperationRequest", Empty)

Methods ==
  [send_packets |-> send_packets, receive_packets |-> receive_packets, receive_events |->
   receive_events, acquire_lease |-> acquire_lease, renew_lease |-> renew_lease, release_lease |->
   release_lease, list_operations |-> list_operations, get_operation |-> get_operation,
   delete_operation |-> delete_operation, cancel_operation |-> cancel_operation]
=============================================================================
