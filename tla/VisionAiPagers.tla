---------------------------- MODULE VisionAiPagers ----------------------------
(* The pagers of the services (pagers.py): the request that is sent again for  *)
(* every page, the response, and the field of the response whose items are     *)
(* yielded. A method of the asynchronous client returns the pager whose pages  *)
(* are awaited; both read the same fields.                                     *)
EXTENDS GapicSurface

(* services/warehouse/pagers.py *)
ListAssetsPager == PagerOf("ListAssetsRequest", "ListAssetsResponse", "assets")
ListAssetsAsyncPager == PagerOf("ListAssetsRequest", "ListAssetsResponse", "assets")
ViewIndexedAssetsPager == PagerOf("ViewIndexedAssetsRequest", "ViewIndexedAssetsResponse",
    "indexed_assets")
ViewIndexedAssetsAsyncPager == PagerOf("ViewIndexedAssetsRequest", "ViewIndexedAssetsResponse",
    "indexed_assets")
ListIndexesPager == PagerOf("ListIndexesRequest", "ListIndexesResponse", "indexes")
ListIndexesAsyncPager == PagerOf("ListIndexesRequest", "ListIndexesResponse", "indexes")
ListCorporaPager == PagerOf("ListCorporaRequest", "ListCorporaResponse", "corpora")
ListCorporaAsyncPager == PagerOf("ListCorporaRequest", "ListCorporaResponse", "corpora")
ListDataSchemasPager == PagerOf("ListDataSchemasRequest", "ListDataSchemasResponse", "data_schemas")
ListDataSchemasAsyncPager == PagerOf("ListDataSchemasRequest", "ListDataSchemasResponse",
    "data_schemas")
ListAnnotationsPager == PagerOf("ListAnnotationsRequest", "ListAnnotationsResponse", "annotations")
ListAnnotationsAsyncPager == PagerOf("ListAnnotationsRequest", "ListAnnotationsResponse",
    "annotations")
ListSearchConfigsPager == PagerOf("ListSearchConfigsRequest", "ListSearchConfigsResponse",
    "search_configs")
ListSearchConfigsAsyncPager == PagerOf("ListSearchConfigsRequest", "ListSearchConfigsResponse",
    "search_configs")
ListSearchHypernymsPager == PagerOf("ListSearchHypernymsRequest", "ListSearchHypernymsResponse",
    "search_hypernyms")
ListSearchHypernymsAsyncPager == PagerOf("ListSearchHypernymsRequest",
    "ListSearchHypernymsResponse", "search_hypernyms")
SearchAssetsPager == PagerOf("SearchAssetsRequest", "SearchAssetsResponse", "search_result_items")
SearchAssetsAsyncPager == PagerOf("SearchAssetsRequest", "SearchAssetsResponse",
    "search_result_items")
SearchIndexEndpointPager == PagerOf("SearchIndexEndpointRequest", "SearchIndexEndpointResponse",
    "search_result_items")
SearchIndexEndpointAsyncPager == PagerOf("SearchIndexEndpointRequest",
    "SearchIndexEndpointResponse", "search_result_items")
ListIndexEndpointsPager == PagerOf("ListIndexEndpointsRequest", "ListIndexEndpointsResponse",
    "index_endpoints")
ListIndexEndpointsAsyncPager == PagerOf("ListIndexEndpointsRequest", "ListIndexEndpointsResponse",
    "index_endpoints")
ListCollectionsPager == PagerOf("ListCollectionsRequest", "ListCollectionsResponse", "collections")
ListCollectionsAsyncPager == PagerOf("ListCollectionsRequest", "ListCollectionsResponse",
    "collections")
ViewCollectionItemsPager == PagerOf("ViewCollectionItemsRequest", "ViewCollectionItemsResponse",
    "items")
ViewCollectionItemsAsyncPager == PagerOf("ViewCollectionItemsRequest",
    "ViewCollectionItemsResponse", "items")

(* services/app_platform/pagers.py *)
ListApplicationsPager == PagerOf("ListApplicationsRequest", "ListApplicationsResponse",
    "applications")
ListApplicationsAsyncPager == PagerOf("ListApplicationsRequest", "ListApplicationsResponse",
    "applications")
ListInstancesPager == PagerOf("ListInstancesRequest", "ListInstancesResponse", "instances")
ListInstancesAsyncPager == PagerOf("ListInstancesRequest", "ListInstancesResponse", "instances")
ListDraftsPager == PagerOf("ListDraftsRequest", "ListDraftsResponse", "drafts")
ListDraftsAsyncPager == PagerOf("ListDraftsRequest", "ListDraftsResponse", "drafts")
ListProcessorsPager == PagerOf("ListProcessorsRequest", "ListProcessorsResponse", "processors")
ListProcessorsAsyncPager == PagerOf("ListProcessorsRequest", "ListProcessorsResponse", "processors")

(* services/live_video_analytics/pagers.py *)
ListOperatorsPager == PagerOf("ListOperatorsRequest", "ListOperatorsResponse", "operators")
ListOperatorsAsyncPager == PagerOf("ListOperatorsRequest", "ListOperatorsResponse", "operators")
ListAnalysesPager == PagerOf("ListAnalysesRequest", "ListAnalysesResponse", "analyses")
ListAnalysesAsyncPager == PagerOf("ListAnalysesRequest", "ListAnalysesResponse", "analyses")
ListProcessesPager == PagerOf("ListProcessesRequest", "ListProcessesResponse", "processes")
ListProcessesAsyncPager == PagerOf("ListProcessesRequest", "ListProcessesResponse", "processes")

(* services/streams_service/pagers.py *)
ListClustersPager == PagerOf("ListClustersRequest", "ListClustersResponse", "clusters")
ListClustersAsyncPager == PagerOf("ListClustersRequest", "ListClustersResponse", "clusters")
ListStreamsPager == PagerOf("ListStreamsRequest", "ListStreamsResponse", "streams")
ListStreamsAsyncPager == PagerOf("ListStreamsRequest", "ListStreamsResponse", "streams")
ListEventsPager == PagerOf("ListEventsRequest", "ListEventsResponse", "events")
ListEventsAsyncPager == PagerOf("ListEventsRequest", "ListEventsResponse", "events")
ListSeriesPager == PagerOf("ListSeriesRequest", "ListSeriesResponse", "series")
ListSeriesAsyncPager == PagerOf("ListSeriesRequest", "ListSeriesResponse", "series")

PagerClasses ==
  [ListAssetsPager |-> ListAssetsPager, ListAssetsAsyncPager |-> ListAssetsAsyncPager,
   ViewIndexedAssetsPager |-> ViewIndexedAssetsPager, ViewIndexedAssetsAsyncPager |->
   ViewIndexedAssetsAsyncPager, ListIndexesPager |-> ListIndexesPager, ListIndexesAsyncPager |->
   ListIndexesAsyncPager, ListCorporaPager |-> ListCorporaPager, ListCorporaAsyncPager |->
   ListCorporaAsyncPager, ListDataSchemasPager |-> ListDataSchemasPager, ListDataSchemasAsyncPager
   |-> ListDataSchemasAsyncPager, ListAnnotationsPager |-> ListAnnotationsPager,
   ListAnnotationsAsyncPager |-> ListAnnotationsAsyncPager, ListSearchConfigsPager |->
   ListSearchConfigsPager, ListSearchConfigsAsyncPager |-> ListSearchConfigsAsyncPager,
   ListSearchHypernymsPager |-> ListSearchHypernymsPager, ListSearchHypernymsAsyncPager |->
   ListSearchHypernymsAsyncPager, SearchAssetsPager |-> SearchAssetsPager, SearchAssetsAsyncPager
   |-> SearchAssetsAsyncPager, SearchIndexEndpointPager |-> SearchIndexEndpointPager,
   SearchIndexEndpointAsyncPager |-> SearchIndexEndpointAsyncPager, ListIndexEndpointsPager |->
   ListIndexEndpointsPager, ListIndexEndpointsAsyncPager |-> ListIndexEndpointsAsyncPager,
   ListCollectionsPager |-> ListCollectionsPager, ListCollectionsAsyncPager |->
   ListCollectionsAsyncPager, ViewCollectionItemsPager |-> ViewCollectionItemsPager,
   ViewCollectionItemsAsyncPager |-> ViewCollectionItemsAsyncPager, ListApplicationsPager |->
   ListApplicationsPager, ListApplicationsAsyncPager |-> ListApplicationsAsyncPager,
   ListInstancesPager |-> ListInstancesPager, ListInstancesAsyncPager |-> ListInstancesAsyncPager,
   ListDraftsPager |-> ListDraftsPager, ListDraftsAsyncPager |-> ListDraftsAsyncPager,
   ListProcessorsPager |-> ListProcessorsPager, ListProcessorsAsyncPager |->
   ListProcessorsAsyncPager, ListOperatorsPager |-> ListOperatorsPager, ListOperatorsAsyncPager
   |-> ListOperatorsAsyncPager, ListAnalysesPager |-> ListAnalysesPager, ListAnalysesAsyncPager
   |-> ListAnalysesAsyncPager, ListProcessesPager |-> ListProcessesPager, ListProcessesAsyncPager
   |-> ListProcessesAsyncPager, ListClustersPager |-> ListClustersPager, ListClustersAsyncPager
   |-> ListClustersAsyncPager, ListStreamsPager |-> ListStreamsPager, ListStreamsAsyncPager |->
   ListStreamsAsyncPager, ListEventsPager |-> ListEventsPager, ListEventsAsyncPager |->
   ListEventsAsyncPager, ListSeriesPager |-> ListSeriesPager, ListSeriesAsyncPager |->
   ListSeriesAsyncPager]
=============================================================================
