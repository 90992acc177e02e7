-------------------------- MODULE StreamsServiceRest --------------------------
(* The calls of StreamsServiceRestTransport                                    *)
(* (streams_service/transports/rest.py): the HTTP verb, the field whose value  *)
(* is matched with the URI patterns, the field that is sent as the body, and   *)
(* the message that the answer is parsed as.                                   *)
EXTENDS GapicSurface

CreateCluster == Defaulting(Post("CreateClusterRequest", <<"parent">>, {"projects/*/locations/*"},
    "cluster", "Operation"), {"cluster_id"})
CreateEvent == Defaulting(Post("CreateEventRequest", <<"parent">>,
    {"projects/*/locations/*/clusters/*"}, "event", "Operation"), {"event_id"})
CreateSeries == Defaulting(Post("CreateSeriesRequest", <<"parent">>,
    {"projects/*/locations/*/clusters/*"}, "series", "Operation"), {"series_id"})
CreateStream == Defaulting(Post("CreateStreamRequest", <<"parent">>,
    {"projects/*/locations/*/clusters/*"}, "stream", "Operation"), {"stream_id"})
DeleteCluster == Delete("DeleteClusterRequest", <<"name">>, {"projects/*/locations/*/clusters/*"},
    "Operation")
DeleteEvent == Delete("DeleteEventRequest", <<"name">>,
    {"projects/*/locations/*/clusters/*/events/*"}, "Operation")
DeleteSeries == Delete("DeleteSeriesRequest", <<"name">>,
    {"projects/*/locations/*/clusters/*/series/*"}, "Operation")
DeleteStream == Delete("DeleteStreamRequest", <<"name">>,
    {"projects/*/locations/*/clusters/*/streams/*"}, "Operation")
GenerateStreamHlsToken == Post("GenerateStreamHlsTokenRequest", <<"stream">>,
    {"projects/*/locations/*/clusters/*/streams/*"}, "*", "GenerateStreamHlsTokenResponse")
GetCluster == Get("GetClusterRequest", <<"name">>, {"projects/*/locations/*/clusters/*"}, "Cluster")
GetEvent == Get("GetEventRequest", <<"name">>, {"projects/*/locations/*/clusters/*/events/*"},
    "Event")
GetSeries == Get("GetSeriesRequest", <<"name">>, {"projects/*/locations/*/clusters/*/series/*"},
    "Series")
GetStream == Get("GetStreamRequest", <<"name">>, {"projects/*/locations/*/clusters/*/streams/*"},
    "Stream")
GetStreamThumbnail == Post("GetStreamThumbnailRequest", <<"stream">>,
    {"projects/*/locations/*/clusters/*/streams/*"}, "*", "Operation")
ListClusters == Get("ListClustersRequest", <<"parent">>, {"projects/*/locations/*"},
    "ListClustersResponse")
ListEvents == Get("ListEventsRequest", <<"parent">>, {"projects/*/locations/*/clusters/*"},
    "ListEventsResponse")
ListSeries == Get("ListSeriesRequest", <<"parent">>, {"projects/*/locations/*/clusters/*"},
    "ListSeriesResponse")
ListStreams == Get("ListStreamsRequest", <<"parent">>, {"projects/*/locations/*/clusters/*"},
    "ListStreamsResponse")
MaterializeChannel == Defaulting(Post("MaterializeChannelRequest", <<"parent">>,
    {"projects/*/locations/*/clusters/*"}, "channel", "Operation"), {"channel_id"})
UpdateCluster == Defaulting(Patch("UpdateClusterRequest", <<"cluster", "name">>,
    {"projects/*/locations/*/clusters/*"}, "cluster", "Operation"), {"update_mask"})
UpdateEvent == Defaulting(Patch("UpdateEventRequest", <<"event", "name">>,
    {"projects/*/locations/*/clusters/*/events/*"}, "event", "Operation"), {"update_mask"})
UpdateSeries == Defaulting(Patch("UpdateSeriesRequest", <<"series", "name">>,
    {"projects/*/locations/*/clusters/*/series/*"}, "series", "Operation"), {"update_mask"})
UpdateStream == Defaulting(Patch("UpdateStreamRequest", <<"stream", "name">>,
    {"projects/*/locations/*/clusters/*/streams/*"}, "stream", "Operation"), {"update_mask"})
CancelOperation == Post("CancelOperationRequest", <<"name">>,
    {"projects/*/locations/*/operations/*"}, "*", "Empty")
DeleteOperation == Delete("DeleteOperationRequest", <<"name">>,
    {"projects/*/locations/*/operations/*"}, "Empty")
GetOperation == Get("GetOperationRequest", <<"name">>, {"projects/*/locations/*/operations/*",
    "projects/*/locations/*/warehouseOperations/*",
    "projects/*/locations/*/corpora/*/assets/*/operations/*",
    "projects/*/locations/*/corpora/*/collections/*/operations/*",
    "projects/*/locations/*/corpora/*/imageIndexes/*/operations/*",
    "projects/*/locations/*/corpora/*/indexes/*/operations/*",
    "projects/*/locations/*/corpora/*/operations/*",
    "projects/*/locations/*/indexEndpoints/*/operations/*"}, "Operation")
ListOperations == Get("ListOperationsRequest", <<"name">>, {"projects/*/locations/*"},
    "ListOperationsResponse")

Bindings ==
  [list_clusters |-> ListClusters, get_cluster |-> GetCluster, create_cluster |-> CreateCluster,
   update_cluster |-> UpdateCluster, delete_cluster |-> DeleteCluster, list_streams |->
   ListStreams, get_stream |-> GetStream, create_stream |-> CreateStream, update_stream |->
   UpdateStream, delete_stream |-> DeleteStream, get_stream_thumbnail |-> GetStreamThumbnail,
   generate_stream_hls_token |-> GenerateStreamHlsToken, list_events |-> ListEvents, get_event |->
   GetEvent, create_event |-> CreateEvent, update_event |-> UpdateEvent, delete_event |->
   DeleteEvent, list_series |-> ListSeries, get_series |-> GetSeries, create_series |->
   CreateSeries, update_series |-> UpdateSeries, delete_series |-> DeleteSeries,
   materialize_channel |-> MaterializeChannel, list_operations |-> ListOperations, get_operation
   |-> GetOperation, delete_operation |-> DeleteOperation, cancel_operation |-> CancelOperation]
=============================================================================
