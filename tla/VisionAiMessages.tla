--------------------------- MODULE VisionAiMessages ---------------------------
(* The fields of the request messages of every method, and of the responses    *)
(* that are read page by page (visionai_v1/types). Assigning an attribute that *)
(* is not a field of the message raises AttributeError.                        *)
AcquireLeaseRequest == {"series", "owner", "term", "lease_type"}
AddApplicationStreamInputRequest == {"name", "application_stream_inputs", "request_id"}
AddCollectionItemRequest == {"item"}
AnalyzeAssetRequest == {"name"}
AnalyzeCorpusRequest == {"name"}
BatchRunProcessRequest == {"parent", "requests", "options", "batch_id"}
ClipAssetRequest == {"name", "temporal_partition"}
CreateAnalysisRequest == {"parent", "analysis_id", "analysis", "request_id"}
CreateAnnotationRequest == {"parent", "annotation", "annotation_id"}
CreateApplicationInstancesRequest == {"name", "application_instances", "request_id"}
CreateApplicationRequest == {"parent", "application_id", "application", "request_id"}
CreateAssetRequest == {"parent", "asset", "asset_id"}
CreateClusterRequest == {"parent", "cluster_id", "cluster", "request_id"}
CreateCollectionRequest == {"parent", "collection", "collection_id"}
CreateCorpusRequest == {"parent", "corpus"}
CreateDataSchemaRequest == {"parent", "data_schema"}
CreateDraftRequest == {"parent", "draft_id", "draft", "request_id"}
CreateEventRequest == {"parent", "event_id", "event", "request_id"}
CreateIndexEndpointRequest == {"parent", "index_endpoint_id", "index_endpoint"}
CreateIndexRequest == {"parent", "index_id", "index"}
CreateOperatorRequest == {"parent", "operator_id", "operator", "request_id"}
CreateProcessRequest == {"parent", "process_id", "process", "request_id"}
CreateProcessorRequest == {"parent", "processor_id", "processor", "request_id"}
CreateSearchConfigRequest == {"parent", "search_config", "search_config_id"}
CreateSearchHypernymRequest == {"parent", "search_hypernym", "search_hypernym_id"}
CreateSeriesRequest == {"parent", "series_id", "series", "request_id"}
CreateStreamRequest == {"parent", "stream_id", "stream", "request_id"}
DeleteAnalysisRequest == {"name", "request_id"}
DeleteAnnotationRequest == {"name"}
DeleteApplicationInstancesRequest == {"name", "instance_ids", "request_id"}
DeleteApplicationRequest == {"name", "request_id", "force"}
DeleteAssetRequest == {"name"}
DeleteClusterRequest == {"name", "request_id"}
DeleteCollectionRequest == {"name"}
DeleteCorpusRequest == {"name"}
DeleteDataSchemaRequest == {"name"}
DeleteDraftRequest == {"name", "request_id"}
DeleteEventRequest == {"name", "request_id"}
DeleteIndexEndpointRequest == {"name"}
DeleteIndexRequest == {"name"}
DeleteOperatorRequest == {"name", "request_id"}
DeleteProcessRequest == {"name", "request_id"}
DeleteProcessorRequest == {"name", "request_id"}
DeleteSearchConfigRequest == {"name"}
DeleteSearchHypernymRequest == {"name"}
DeleteSeriesRequest == {"name", "request_id"}
DeleteStreamRequest == {"name", "request_id"}
DeployApplicationRequest == {"name", "validate_only", "request_id", "enable_monitoring",
    "deployment_environment"}
DeployIndexRequest == {"index_endpoint", "deployed_index"}
GenerateHlsUriRequest == {"name", "temporal_partitions", "live_view_enabled"}
GenerateRetrievalUrlRequest == {"name"}
GenerateStreamHlsTokenRequest == {"stream"}
GetAnalysisRequest == {"name"}
GetAnnotationRequest == {"name"}
GetApplicationRequest == {"name"}
GetAssetRequest == {"name"}
GetClusterRequest == {"name"}
GetCollectionRequest == {"name"}
GetCorpusRequest == {"name"}
GetDataSchemaRequest == {"name"}
GetDraftRequest == {"name"}
GetEventRequest == {"name"}
GetIndexEndpointRequest == {"name"}
GetIndexRequest == {"name"}
GetInstanceRequest == {"name"}
GetOperatorRequest == {"name"}
GetProcessRequest == {"name"}
GetProcessorRequest == {"name"}
GetSearchConfigRequest == {"name"}
GetSearchHypernymRequest == {"name"}
GetSeriesRequest == {"name"}
GetStreamRequest == {"name"}
GetStreamThumbnailRequest == {"stream", "gcs_object_name", "event", "request_id"}
ImportAssetsRequest == {"assets_gcs_uri", "parent"}
IndexAssetRequest == {"name", "index"}
ListAnalysesRequest == {"parent", "page_size", "page_token", "filter", "order_by"}
ListAnalysesResponse == {"analyses", "next_page_token", "unreachable"}
ListAnnotationsRequest == {"parent", "page_size", "page_token", "filter"}
ListAnnotationsResponse == {"annotations", "next_page_token"}
ListApplicationsRequest == {"parent", "page_size", "page_token", "filter", "order_by"}
ListApplicationsResponse == {"applications", "next_page_token", "unreachable"}
ListAssetsRequest == {"parent", "page_size", "page_token", "filter"}
ListAssetsResponse == {"assets", "next_page_token"}
ListClustersRequest == {"parent", "page_size", "page_token", "filter", "order_by"}
ListClustersResponse == {"clusters", "next_page_token", "unreachable"}
ListCollectionsRequest == {"parent", "page_size", "page_token"}
ListCollectionsResponse == {"collections", "next_page_token"}
ListCorporaRequest == {"parent", "page_size", "page_token", "filter"}
ListCorporaResponse == {"corpora", "next_page_token"}
ListDataSchemasRequest == {"parent", "page_size", "page_token"}
ListDataSchemasResponse == {"data_schemas", "next_page_token"}
ListDraftsRequest == {"parent", "page_size", "page_token", "filter", "order_by"}
ListDraftsResponse == {"drafts", "next_page_token", "unreachable"}
ListEventsRequest == {"parent", "page_size", "page_token", "filter", "order_by"}
ListEventsResponse == {"events", "next_page_token", "unreachable"}
ListIndexEndpointsRequest == {"parent", "page_size", "page_token", "filter"}
ListIndexEndpointsResponse == {"index_endpoints", "next_page_token"}
ListIndexesRequest == {"parent", "page_size", "page_token"}
ListIndexesResponse == {"indexes", "next_page_token"}
ListInstancesRequest == {"parent", "page_size", "page_token", "filter", "order_by"}
ListInstancesResponse == {"instances", "next_page_token", "unreachable"}
ListOperatorsRequest == {"parent", "page_size", "page_token", "filter", "order_by"}
ListOperatorsResponse == {"operators", "next_page_token", "unreachable"}
ListPrebuiltProcessorsRequest == {"parent"}
ListProcessesRequest == {"parent", "page_size", "page_token", "filter", "order_by"}
ListProcessesResponse == {"processes", "next_page_token", "unreachable"}
ListProcessorsRequest == {"parent", "page_size", "page_token", "filter", "order_by"}
ListProcessorsResponse == {"processors", "next_page_token", "unreachable"}
ListSearchConfigsRequest == {"parent", "page_size", "page_token"}
ListSearchConfigsResponse == {"search_configs", "next_page_token"}
ListSearchHypernymsRequest == {"parent", "page_size", "page_token"}
ListSearchHypernymsResponse == {"search_hypernyms", "next_page_token"}
ListSeriesRequest == {"parent", "page_size", "page_token", "filter", "order_by"}
ListSeriesResponse == {"series", "next_page_token", "unreachable"}
ListStreamsRequest == {"parent", "page_size", "page_token", "filter", "order_by"}
ListStreamsResponse == {"streams", "next_page_token", "unreachable"}
MaterializeChannelRequest == {"parent", "channel_id", "channel", "request_id"}
ReleaseLeaseRequest == {"id", "series", "owner"}
RemoveApplicationStreamInputRequest == {"name", "target_stream_inputs", "request_id"}
RemoveCollectionItemRequest == {"item"}
RemoveIndexAssetRequest == {"name", "index"}
RenewLeaseRequest == {"id", "series", "owner", "term"}
ResolveOperatorInfoRequest == {"parent", "queries"}
SearchAssetsRequest == {"schema_key_sorting_strategy", "corpus", "page_size", "page_token",
    "content_time_ranges", "criteria", "facet_selections", "result_annotation_keys", "search_query"}
SearchAssetsResponse == {"search_result_items", "next_page_token", "facet_results"}
SearchIndexEndpointRequest == {"image_query", "text_query", "index_endpoint", "criteria",
    "exclusion_criteria", "page_size", "page_token"}
SearchIndexEndpointResponse == {"search_result_items", "next_page_token"}
UndeployApplicationRequest == {"name", "request_id"}
UndeployIndexRequest == {"index_endpoint"}
UpdateAnalysisRequest == {"update_mask", "analysis", "request_id"}
UpdateAnnotationRequest == {"annotation", "update_mask"}
UpdateApplicationInstancesRequest == {"name", "application_instances", "request_id",
    "allow_missing"}
UpdateApplicationRequest == {"update_mask", "application", "request_id"}
UpdateApplicationStreamInputRequest == {"name", "application_stream_inputs", "request_id",
    "allow_missing"}
UpdateAssetRequest == {"asset", "update_mask"}
UpdateClusterRequest == {"update_mask", "cluster", "request_id"}
UpdateCollectionRequest == {"collection", "update_mask"}
UpdateCorpusRequest == {"corpus", "update_mask"}
UpdateDataSchemaRequest == {"data_schema", "update_mask"}
UpdateDraftRequest == {"update_mask", "draft", "request_id", "allow_missing"}
UpdateEventRequest == {"update_mask", "event", "request_id"}
UpdateIndexEndpointRequest == {"index_endpoint", "update_mask"}
UpdateIndexRequest == {"index", "update_mask"}
UpdateOperatorRequest == {"update_mask", "operator", "request_id"}
UpdateProcessRequest == {"update_mask", "process", "request_id"}
UpdateProcessorRequest == {"update_mask", "processor", "request_id"}
UpdateSearchConfigRequest == {"search_config", "update_mask"}
UpdateSearchHypernymRequest == {"search_hypernym", "update_mask"}
UpdateSeriesRequest == {"update_mask", "series", "request_id"}
UpdateStreamRequest == {"update_mask", "stream", "request_id"}
UploadAssetRequest == {"name", "asset_source"}
ViewCollectionItemsRequest == {"collection", "page_size", "page_token"}
ViewCollectionItemsResponse == {"items", "next_page_token"}
ViewIndexedAssetsRequest == {"index", "page_size", "page_token", "filter"}
ViewIndexedAssetsResponse == {"indexed_assets", "next_page_token"}

(* google.longrunning.operations_pb2 *)
CancelOperationRequest == {"name"}
DeleteOperationRequest == {"name"}
GetOperationRequest == {"name"}
ListOperationsRequest == {"name", "filter", "page_size", "page_token"}

MessageFields ==
  [AcquireLeaseRequest |-> AcquireLeaseRequest, AddApplicationStreamInputRequest |->
   AddApplicationStreamInputRequest, AddCollectionItemRequest |-> AddCollectionItemRequest,
   AnalyzeAssetRequest |-> AnalyzeAssetRequest, AnalyzeCorpusRequest |-> AnalyzeCorpusRequest,
   BatchRunProcessRequest |-> BatchRunProcessRequest, CancelOperationRequest |->
   CancelOperationRequest, ClipAssetRequest |-> ClipAssetRequest, CreateAnalysisRequest |->
   CreateAnalysisRequest, CreateAnnotationRequest |-> CreateAnnotationRequest,
   CreateApplicationInstancesRequest |-> CreateApplicationInstancesRequest,
   CreateApplicationRequest |-> CreateApplicationRequest, CreateAssetRequest |->
   CreateAssetRequest, CreateClusterRequest |-> CreateClusterRequest, CreateCollectionRequest |->
   CreateCollectionRequest, CreateCorpusRequest |-> CreateCorpusRequest, CreateDataSchemaRequest
   |-> CreateDataSchemaRequest, CreateDraftRequest |-> CreateDraftRequest, CreateEventRequest |->
   CreateEventRequest, CreateIndexEndpointRequest |-> CreateIndexEndpointRequest,
   CreateIndexRequest |-> CreateIndexRequest, CreateOperatorRequest |-> CreateOperatorRequest,
   CreateProcessRequest |-> CreateProcessRequest, CreateProcessorRequest |->
   CreateProcessorRequest, CreateSearchConfigRequest |-> CreateSearchConfigRequest,
   CreateSearchHypernymRequest |-> CreateSearchHypernymRequest, CreateSeriesRequest |->
   CreateSeriesRequest, CreateStreamRequest |-> CreateStreamRequest, DeleteAnalysisRequest |->
   DeleteAnalysisRequest, DeleteAnnotationRequest |-> DeleteAnnotationRequest,
   DeleteApplicationInstancesRequest |-> DeleteApplicationInstancesRequest,
   DeleteApplicationRequest |-> DeleteApplicationRequest, DeleteAssetRequest |->
   DeleteAssetRequest, DeleteClusterRequest |-> DeleteClusterRequest, DeleteCollectionRequest |->
   DeleteCollectionRequest, DeleteCorpusRequest |-> DeleteCorpusRequest, DeleteDataSchemaRequest
   |-> DeleteDataSchemaRequest, DeleteDraftRequest |-> DeleteDraftRequest, DeleteEventRequest |->
   DeleteEventRequest, DeleteIndexEndpointRequest |-> DeleteIndexEndpointRequest,
   DeleteIndexRequest |-> DeleteIndexRequest, DeleteOperationRequest |-> DeleteOperationRequest,
   DeleteOperatorRequest |-> DeleteOperatorRequest, DeleteProcessRequest |-> DeleteProcessRequest,
   DeleteProcessorRequest |-> DeleteProcessorRequest, DeleteSearchConfigRequest |->
   DeleteSearchConfigRequest, DeleteSearchHypernymRequest |-> DeleteSearchHypernymRequest,
   DeleteSeriesRequest |-> DeleteSeriesRequest, DeleteStreamRequest |-> DeleteStreamRequest,
   DeployApplicationRequest |-> DeployApplicationRequest, DeployIndexRequest |->
   DeployIndexRequest, GenerateHlsUriRequest |-> GenerateHlsUriRequest,
   GenerateRetrievalUrlRequest |-> GenerateRetrievalUrlRequest, GenerateStreamHlsTokenRequest |->
   GenerateStreamHlsTokenRequest, GetAnalysisRequest |-> GetAnalysisRequest, GetAnnotationRequest
   |-> GetAnnotationRequest, GetApplicationRequest |-> GetApplicationRequest, GetAssetRequest |->
   GetAssetRequest, GetClusterRequest |-> GetClusterRequest, GetCollectionRequest |->
   GetCollectionRequest, GetCorpusRequest |-> GetCorpusRequest, GetDataSchemaRequest |->
   GetDataSchemaRequest, GetDraftRequest |-> GetDraftRequest, GetEventRequest |-> GetEventRequest,
   GetIndexEndpointRequest |-> GetIndexEndpointRequest, GetIndexRequest |-> GetIndexRequest,
   GetInstanceRequest |-> GetInstanceRequest, GetOperationRequest |-> GetOperationRequest,
   GetOperatorRequest |-> GetOperatorRequest, GetProcessRequest |-> GetProcessRequest,
   GetProcessorRequest |-> GetProcessorRequest, GetSearchConfigRequest |-> GetSearchConfigRequest,
   GetSearchHypernymRequest |-> GetSearchHypernymRequest, GetSeriesRequest |-> GetSeriesRequest,
   GetStreamRequest |-> GetStreamRequest, GetStreamThumbnailRequest |-> GetStreamThumbnailRequest,
   ImportAssetsRequest |-> ImportAssetsRequest, IndexAssetRequest |-> IndexAssetRequest,
   ListAnalysesRequest |-> ListAnalysesRequest, ListAnalysesResponse |-> ListAnalysesResponse,
   ListAnnotationsRequest |-> ListAnnotationsRequest, ListAnnotationsResponse |->
   ListAnnotationsResponse, ListApplicationsRequest |-> ListApplicationsRequest,
   ListApplicationsResponse |-> ListApplicationsResponse, ListAssetsRequest |-> ListAssetsRequest,
   ListAssetsResponse |-> ListAssetsResponse, ListClustersRequest |-> ListClustersRequest,
   ListClustersResponse |-> ListClustersResponse, ListCollectionsRequest |->
   ListCollectionsRequest, ListCollectionsResponse |-> ListCollectionsResponse, ListCorporaRequest
   |-> ListCorporaRequest, ListCorporaResponse |-> ListCorporaResponse, ListDataSchemasRequest |->
   ListDataSchemasRequest, ListDataSchemasResponse |-> ListDataSchemasResponse, ListDraftsRequest
   |-> ListDraftsRequest, ListDraftsResponse |-> ListDraftsResponse, ListEventsRequest |->
   ListEventsRequest, ListEventsResponse |-> ListEventsResponse, ListIndexEndpointsRequest |->
   ListIndexEndpointsRequest, ListIndexEndpointsResponse |-> ListIndexEndpointsResponse,
   ListIndexesRequest |-> ListIndexesRequest, ListIndexesResponse |-> ListIndexesResponse,
   ListInstancesRequest |-> ListInstancesRequest, ListInstancesResponse |-> ListInstancesResponse,
   ListOperationsRequest |-> ListOperationsRequest, ListOperatorsRequest |-> ListOperatorsRequest,
   ListOperatorsResponse |-> ListOperatorsResponse, ListPrebuiltProcessorsRequest |->
   ListPrebuiltProcessorsRequest, ListProcessesRequest |-> ListProcessesRequest,
   ListProcessesResponse |-> ListProcessesResponse, ListProcessorsRequest |->
   ListProcessorsRequest, ListProcessorsResponse |-> ListProcessorsResponse,
   ListSearchConfigsRequest |-> ListSearchConfigsRequest, ListSearchConfigsResponse |->
   ListSearchConfigsResponse, ListSearchHypernymsRequest |-> ListSearchHypernymsRequest,
   ListSearchHypernymsResponse |-> ListSearchHypernymsResponse, ListSeriesRequest |->
   ListSeriesRequest, ListSeriesResponse |-> ListSeriesResponse, ListStreamsRequest |->
   ListStreamsRequest, ListStreamsResponse |-> ListStreamsResponse, MaterializeChannelRequest |->
   MaterializeChannelRequest, ReleaseLeaseRequest |-> ReleaseLeaseRequest,
   RemoveApplicationStreamInputRequest |-> RemoveApplicationStreamInputRequest,
   RemoveCollectionItemRequest |-> RemoveCollectionItemRequest, RemoveIndexAssetRequest |->
   RemoveIndexAssetRequest, RenewLeaseRequest |-> RenewLeaseRequest, ResolveOperatorInfoRequest
   |-> ResolveOperatorInfoRequest, SearchAssetsRequest |-> SearchAssetsRequest,
   SearchAssetsResponse |-> SearchAssetsResponse, SearchIndexEndpointRequest |->
   SearchIndexEndpointRequest, SearchIndexEndpointResponse |-> SearchIndexEndpointResponse,
   UndeployApplicationRequest |-> UndeployApplicationRequest, UndeployIndexRequest |->
   UndeployIndexRequest, UpdateAnalysisRequest |-> UpdateAnalysisRequest, UpdateAnnotationRequest
   |-> UpdateAnnotationRequest, UpdateApplicationInstancesRequest |->
   UpdateApplicationInstancesRequest, UpdateApplicationRequest |-> UpdateApplicationRequest,
   UpdateApplicationStreamInputRequest |-> UpdateApplicationStreamInputRequest, UpdateAssetRequest
   |-> UpdateAssetRequest, UpdateClusterRequest |-> UpdateClusterRequest, UpdateCollectionRequest
   |-> UpdateCollectionRequest, UpdateCorpusRequest |-> UpdateCorpusRequest,
   UpdateDataSchemaRequest |-> UpdateDataSchemaRequest, UpdateDraftRequest |-> UpdateDraftRequest,
   UpdateEventRequest |-> UpdateEventRequest, UpdateIndexEndpointRequest |->
   UpdateIndexEndpointRequest, UpdateIndexRequest |-> UpdateIndexRequest, UpdateOperatorRequest
   |-> UpdateOperatorRequest, UpdateProcessRequest |-> UpdateProcessRequest,
   UpdateProcessorRequest |-> UpdateProcessorRequest, UpdateSearchConfigRequest |->
   UpdateSearchConfigRequest, UpdateSearchHypernymRequest |-> UpdateSearchHypernymRequest,
   UpdateSeriesRequest |-> UpdateSeriesRequest, UpdateStreamRequest |-> UpdateStreamRequest,
   UploadAssetRequest |-> UploadAssetRequest, ViewCollectionItemsRequest |->
   ViewCollectionItemsRequest, ViewCollectionItemsResponse |-> ViewCollectionItemsResponse,
   ViewIndexedAssetsRequest |-> ViewIndexedAssetsRequest, ViewIndexedAssetsResponse |->
   ViewIndexedAssetsResponse]
=============================================================================
