---------------------- MODULE StreamsServiceAsyncClient ----------------------
(* The methods of StreamsServiceAsyncClient (streams_service/async_client.py). *)
(* Unlike the synchronous client it copies the request before it applies the   *)
(* keywords, and every method names its own retries and timeout.               *)
EXTENDS GapicSurface

list_clusters == Method("ListClustersRequest", {"parent"}, <<"parent">>,
    Pager("ListClustersAsyncPager"))
get_cluster == Method("GetClusterRequest", {"name"}, <<"name">>, Message)
create_cluster == Method("CreateClusterRequest", {"parent", "cluster", "cluster_id"}, <<"parent">>,
    Operation("Cluster", "OperationMetadata"))
update_cluster == Method("UpdateClusterRequest", {"cluster", "update_mask"}, <<"cluster", "name">>,
    Operation("Cluster", "OperationMetadata"))
delete_cluster == Method("DeleteClusterRequest", {"name"}, <<"name">>, Operation("Empty",
    "OperationMetadata"))
list_streams == Method("ListStreamsRequest", {"parent"}, <<"parent">>,
    Pager("ListStreamsAsyncPager"))
get_stream == Method("GetStreamRequest", {"name"}, <<"name">>, Message)
create_stream == Method("CreateStreamRequest", {"parent", "stream", "stream_id"}, <<"parent">>,
    Operation("Stream", "OperationMetadata"))
update_stream == Method("UpdateStreamRequest", {"stream", "update_mask"}, <<"stream", "name">>,
    Operation("Stream", "OperationMetadata"))
delete_stream == Method("DeleteStreamRequest", {"name"}, <<"name">>, Operation("Empty",
    "OperationMetadata"))
get_stream_thumbnail == Method("GetStreamThumbnailRequest", {"stream", "gcs_object_name"},
    <<"stream">>, Operation("GetStreamThumbnailResponse", "OperationMetadata"))
generate_stream_hls_token == Method("GenerateStreamHlsTokenRequest", {"stream"}, <<"stream">>,
    Message)
list_events == Method("ListEventsRequest", {"parent"}, <<"parent">>, Pager("ListEventsAsyncPager"))
get_event == Method("GetEventRequest", {"name"}, <<"name">>, Message)
create_event == Method("CreateEventRequest", {"parent", "event", "event_id"}, <<"parent">>,
    Operation("Event", "OperationMetadata"))
update_event == Method("UpdateEventRequest", {"event", "update_mask"}, <<"event", "name">>,
    Operation("Event", "OperationMetadata"))
delete_event == Method("DeleteEventRequest", {"name"}, <<"name">>, Operation("Empty",
    "OperationMetadata"))
list_series == Method("ListSeriesRequest", {"parent"}, <<"parent">>, Pager("ListSeriesAsyncPager"))
get_series == Method("GetSeriesRequest", {"name"}, <<"name">>, Message)
create_series == Method("CreateSeriesRequest", {"parent", "series", "series_id"}, <<"parent">>,
    Operation("Series", "OperationMetadata"))
update_series == Method("UpdateSeriesRequest", {"series", "update_mask"}, <<"series", "name">>,
    Operation("Series", "OperationMetadata"))
delete_series == Method("DeleteSeriesRequest", {"name"}, <<"name">>, Operation("Empty",
    "OperationMetadata"))
materialize_channel == Method("MaterializeChannelRequest", {"parent", "channel", "channel_id"},
    <<"parent">>, Operation("Channel", "OperationMetadata"))
list_operations == Mixin("ListOperationsRequest", Message)
get_operation == Mixin("GetOperationRequest", Message)
delete_operation == Mixin("DeleteOperationRequest", Empty)
cancel_operation == Mixin("CancelOperationRequest", Empty)

Methods ==
  [list_clusters |-> list_clusters, get_cluster |-> get_cluster, create_cluster |->
   create_cluster, update_cluster |-> update_cluster, delete_cluster |-> delete_cluster,
   list_streams |-> list_streams, get_stream |-> get_stream, create_stream |-> create_stream,
   update_stream |-> update_stream, delete_stream |-> delete_stream, get_stream_thumbnail |->
   get_stream_thumbnail, generate_stream_hls_token |-> generate_stream_hls_token, list_events |->
   list_events, get_event |-> get_event, create_event |-> create_event, update_event |->
   update_event, delete_event |-> delete_event, list_series |-> list_series, get_series |->
   get_series, create_series |-> create_series, update_series |-> update_series, delete_series |->
   delete_series, materialize_channel |-> materialize_channel, list_operations |->
   list_operations, get_operation |-> get_operation, delete_operation |-> delete_operation,
   cancel_operation |-> cancel_operation]
=============================================================================
