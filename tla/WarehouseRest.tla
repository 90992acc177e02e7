---------------------------- MODULE WarehouseRest ----------------------------
(* The calls of WarehouseRestTransport (warehouse/transports/rest.py): the     *)
(* HTTP verb, the field whose value is matched with the URI patterns, the      *)
(* field that is sent as the body, and the message that the answer is parsed   *)
(* as.                                                                         *)
EXTENDS GapicSurface

AddCollectionItem == Post("AddCollectionItemRequest", <<"item", "collection">>,
    {"projects/*/locations/*/corpora/*/collections/*"}, "*", "AddCollectionItemResponse")
AnalyzeAsset == Post("AnalyzeAssetRequest", <<"name">>,
    {"projects/*/locations/*/corpora/*/assets/*"}, "*", "Operation")
AnalyzeCorpus == Post("AnalyzeCorpusRequest", <<"name">>, {"projects/*/locations/*/corpora/*"}, "*",
    "Operation")
ClipAsset == Post("ClipAssetRequest", <<"name">>, {"projects/*/locations/*/corpora/*/assets/*"},
    "*", "ClipAssetResponse")
CreateAnnotation == Post("CreateAnnotationRequest", <<"parent">>,
    {"projects/*/locations/*/corpora/*/assets/*"}, "annotation", "Annotation")
CreateAsset == Post("CreateAssetRequest", <<"parent">>, {"projects/*/locations/*/corpora/*"},
    "asset", "Asset")
CreateCollection == Post("CreateCollectionRequest", <<"parent">>,
    {"projects/*/locations/*/corpora/*"}, "collection", "Operation")
CreateCorpus == Post("CreateCorpusRequest", <<"parent">>, {"projects/*/locations/*"}, "corpus",
    "Operation")
CreateDataSchema == Post("CreateDataSchemaRequest", <<"parent">>,
    {"projects/*/locations/*/corpora/*"}, "data_schema", "DataSchema")
CreateIndex == Post("CreateIndexRequest", <<"parent">>, {"projects/*/locations/*/corpora/*"},
    "index", "Operation")
CreateIndexEndpoint == Post("CreateIndexEndpointRequest", <<"parent">>, {"projects/*/locations/*"},
    "index_endpoint", "Operation")
CreateSearchConfig == Defaulting(Post("CreateSearchConfigRequest", <<"parent">>,
    {"projects/*/locations/*/corpora/*"}, "search_config", "SearchConfig"), {"search_config_id"})
CreateSearchHypernym == Post("CreateSearchHypernymRequest", <<"parent">>,
    {"projects/*/locations/*/corpora/*"}, "search_hypernym", "SearchHypernym")
DeleteAnnotation == Delete("DeleteAnnotationRequest", <<"name">>,
    {"projects/*/locations/*/corpora/*/assets/*/annotations/*"}, "Empty")
DeleteAsset == Delete("DeleteAssetRequest", <<"name">>,
    {"projects/*/locations/*/corpora/*/assets/*"}, "Operation")
DeleteCollection == Delete("DeleteCollectionRequest", <<"name">>,
    {"projects/*/locations/*/corpora/*/collections/*"}, "Operation")
DeleteCorpus == Delete("DeleteCorpusRequest", <<"name">>, {"projects/*/locations/*/corpora/*"},
    "Empty")
DeleteDataSchema == Delete("DeleteDataSchemaRequest", <<"name">>,
    {"projects/*/locations/*/corpora/*/dataSchemas/*"}, "Empty")
DeleteIndex == Delete("DeleteIndexRequest", <<"name">>,
    {"projects/*/locations/*/corpora/*/indexes/*"}, "Operation")
DeleteIndexEndpoint == Delete("DeleteIndexEndpointRequest", <<"name">>,
    {"projects/*/locations/*/indexEndpoints/*"}, "Operation")
DeleteSearchConfig == Delete("DeleteSearchConfigRequest", <<"name">>,
    {"projects/*/locations/*/corpora/*/searchConfigs/*"}, "Empty")
DeleteSearchHypernym == Delete("DeleteSearchHypernymRequest", <<"name">>,
    {"projects/*/locations/*/corpora/*/searchHypernyms/*"}, "Empty")
DeployIndex == Post("DeployIndexRequest", <<"index_endpoint">>,
    {"projects/*/locations/*/indexEndpoints/*"}, "*", "Operation")
GenerateHlsUri == Post("GenerateHlsUriRequest", <<"name">>,
    {"projects/*/locations/*/corpora/*/assets/*"}, "*", "GenerateHlsUriResponse")
GenerateRetrievalUrl == Post("GenerateRetrievalUrlRequest", <<"name">>,
    {"projects/*/locations/*/corpora/*/assets/*"}, "*", "GenerateRetrievalUrlResponse")
GetAnnotation == Get("GetAnnotationRequest", <<"name">>,
    {"projects/*/locations/*/corpora/*/assets/*/annotations/*"}, "Annotation")
GetAsset == Get("GetAssetRequest", <<"name">>, {"projects/*/locations/*/corpora/*/assets/*"},
    "Asset")
GetCollection == Get("GetCollectionRequest", <<"name">>,
    {"projects/*/locations/*/corpora/*/collections/*"}, "Collection")
GetCorpus == Get("GetCorpusRequest", <<"name">>, {"projects/*/locations/*/corpora/*"}, "Corpus")
GetDataSchema == Get("GetDataSchemaRequest", <<"name">>,
    {"projects/*/locations/*/corpora/*/dataSchemas/*"}, "DataSchema")
GetIndex == Get("GetIndexRequest", <<"name">>, {"projects/*/locations/*/corpora/*/indexes/*"},
    "Index")
GetIndexEndpoint == Get("GetIndexEndpointRequest", <<"name">>,
    {"projects/*/locations/*/indexEndpoints/*"}, "IndexEndpoint")
GetSearchConfig == Get("GetSearchConfigRequest", <<"name">>,
    {"projects/*/locations/*/corpora/*/searchConfigs/*"}, "SearchConfig")
GetSearchHypernym == Get("GetSearchHypernymRequest", <<"name">>,
    {"projects/*/locations/*/corpora/*/searchHypernyms/*"}, "SearchHypernym")
ImportAssets == Post("ImportAssetsRequest", <<"parent">>, {"projects/*/locations/*/corpora/*"}, "*",
    "Operation")
IndexAsset == Post("IndexAssetRequest", <<"name">>, {"projects/*/locations/*/corpora/*/assets/*"},
    "*", "Operation")
IngestAsset == NotOffered
ListAnnotations == Get("ListAnnotationsRequest", <<"parent">>,
    {"projects/*/locations/*/corpora/*/assets/*"}, "ListAnnotationsResponse")
ListAssets == Get("ListAssetsRequest", <<"parent">>, {"projects/*/locations/*/corpora/*"},
    "ListAssetsResponse")
ListCollections == Get("ListCollectionsRequest", <<"parent">>, {"projects/*/locations/*/corpora/*"},
    "ListCollectionsResponse")
ListCorpora == Get("ListCorporaRequest", <<"parent">>, {"projects/*/locations/*"},
    "ListCorporaResponse")
ListDataSchemas == Get("ListDataSchemasRequest", <<"parent">>, {"projects/*/locations/*/corpora/*"},
    "ListDataSchemasResponse")
ListIndexEndpoints == Get("ListIndexEndpointsRequest", <<"parent">>, {"projects/*/locations/*"},
    "ListIndexEndpointsResponse")
ListIndexes == Get("ListIndexesRequest", <<"parent">>, {"projects/*/locations/*/corpora/*"},
    "ListIndexesResponse")
ListSearchConfigs == Get("ListSearchConfigsRequest", <<"parent">>,
    {"projects/*/locations/*/corpora/*"}, "ListSearchConfigsResponse")
ListSearchHypernyms == Get("ListSearchHypernymsRequest", <<"parent">>,
    {"projects/*/locations/*/corpora/*"}, "ListSearchHypernymsResponse")
RemoveCollectionItem == Post("RemoveCollectionItemRequest", <<"item", "collection">>,
    {"projects/*/locations/*/corpora/*/collections/*"}, "*", "RemoveCollectionItemResponse")
RemoveIndexAsset == Post("RemoveIndexAssetRequest", <<"name">>,
    {"projects/*/locations/*/corpora/*/assets/*"}, "*", "Operation")
SearchAssets == Post("SearchAssetsRequest", <<"corpus">>, {"projects/*/locations/*/corpora/*"}, "*",
    "SearchAssetsResponse")
SearchIndexEndpoint == Post("SearchIndexEndpointRequest", <<"index_endpoint">>,
    {"projects/*/locations/*/indexEndpoints/*"}, "*", "SearchIndexEndpointResponse")
UndeployIndex == Post("UndeployIndexRequest", <<"index_endpoint">>,
    {"projects/*/locations/*/indexEndpoints/*"}, "*", "Operation")
UpdateAnnotation == Patch("UpdateAnnotationRequest", <<"annotation", "name">>,
    {"projects/*/locations/*/corpora/*/assets/*/annotations/*"}, "annotation", "Annotation")
UpdateAsset == Patch("UpdateAssetRequest", <<"asset", "name">>,
    {"projects/*/locations/*/corpora/*/assets/*"}, "asset", "Asset")
UpdateCollection == Patch("UpdateCollectionRequest", <<"collection", "name">>,
    {"projects/*/locations/*/corpora/*/collections/*"}, "collection", "Collection")
UpdateCorpus == Patch("UpdateCorpusRequest", <<"corpus", "name">>,
    {"projects/*/locations/*/corpora/*"}, "corpus", "Corpus")
UpdateDataSchema == Patch("UpdateDataSchemaRequest", <<"data_schema", "name">>,
    {"projects/*/locations/*/corpora/*/dataSchemas/*"}, "data_schema", "DataSchema")
UpdateIndex == Defaulting(Patch("UpdateIndexRequest", <<"index", "name">>,
    {"projects/*/locations/*/corpora/*/indexes/*"}, "index", "Operation"), {"update_mask"})
UpdateIndexEndpoint == Defaulting(Patch("UpdateIndexEndpointRequest", <<"index_endpoint", "name">>,
    {"projects/*/locations/*/indexEndpoints/*"}, "index_endpoint", "Operation"), {"update_mask"})
UpdateSearchConfig == Patch("UpdateSearchConfigRequest", <<"search_config", "name">>,
    {"projects/*/locations/*/corpora/*/searchConfigs/*"}, "search_config", "SearchConfig")
UpdateSearchHypernym == Patch("UpdateSearchHypernymRequest", <<"search_hypernym", "name">>,
    {"projects/*/locations/*/corpora/*/searchHypernyms/*"}, "search_hypernym", "SearchHypernym")
UploadAsset == Post("UploadAssetRequest", <<"name">>, {"projects/*/locations/*/corpora/*/assets/*"},
    "*", "Operation")
ViewCollectionItems == Get("ViewCollectionItemsRequest", <<"collection">>,
    {"projects/*/locations/*/corpora/*/collections/*"}, "ViewCollectionItemsResponse")
ViewIndexedAssets == Get("ViewIndexedAssetsRequest", <<"index">>,
    {"projects/*/locations/*/corpora/*/indexes/*"}, "ViewIndexedAssetsResponse")
CancelOperation == Post("CancelOperationRequest", <<"name">>,
    {"projects/*/locations/*/operations/*"}, "*", "Empty")
DeleteOperation == Delete("DeleteOperationRequest", <<"name">>,
    {"projects/*/locations/*/operations/*"}, "Empty")
GetOperation == Get("GetOperationRequest", <<"name">>, {"projects/*/locations/*/operations/*",
    "projects/*/locations/*/warehouseOperations/*",
    "projects/*/locations/*/corpora/*/assets/*/operations/*",
    "projects/*/locations/*/corpora/*/collections/*/operations/*",
    "projects/*/locations/*/corpora/*/imageIndexes/*/operations/*",
    "projects/*/locations/*/corpora/*/indexes/*/operations/*",
    "projects/*/locations/*/corpora/*/operations/*",
    "projects/*/locations/*/indexEndpoints/*/operations/*"}, "Operation")
ListOperations == Get("ListOperationsRequest", <<"name">>, {"projects/*/locations/*"},
    "ListOperationsResponse")

Bindings ==
  [create_asset |-> CreateAsset, update_asset |-> UpdateAsset, get_asset |-> GetAsset, list_assets
   |-> ListAssets, delete_asset |-> DeleteAsset, upload_asset |-> UploadAsset,
   generate_retrieval_url |-> GenerateRetrievalUrl, analyze_asset |-> AnalyzeAsset, index_asset
   |-> IndexAsset, remove_index_asset |-> RemoveIndexAsset, view_indexed_assets |->
   ViewIndexedAssets, create_index |-> CreateIndex, update_index |-> UpdateIndex, get_index |->
   GetIndex, list_indexes |-> ListIndexes, delete_index |-> DeleteIndex, create_corpus |->
   CreateCorpus, get_corpus |-> GetCorpus, update_corpus |-> UpdateCorpus, list_corpora |->
   ListCorpora, delete_corpus |-> DeleteCorpus, analyze_corpus |-> AnalyzeCorpus,
   create_data_schema |-> CreateDataSchema, update_data_schema |-> UpdateDataSchema,
   get_data_schema |-> GetDataSchema, delete_data_schema |-> DeleteDataSchema, list_data_schemas
   |-> ListDataSchemas, create_annotation |-> CreateAnnotation, get_annotation |-> GetAnnotation,
   list_annotations |-> ListAnnotations, update_annotation |-> UpdateAnnotation, delete_annotation
   |-> DeleteAnnotation, ingest_asset |-> IngestAsset, clip_asset |-> ClipAsset, generate_hls_uri
   |-> GenerateHlsUri, import_assets |-> ImportAssets, create_search_config |->
   CreateSearchConfig, update_search_config |-> UpdateSearchConfig, get_search_config |->
   GetSearchConfig, delete_search_config |-> DeleteSearchConfig, list_search_configs |->
   ListSearchConfigs, create_search_hypernym |-> CreateSearchHypernym, update_search_hypernym |->
   UpdateSearchHypernym, get_search_hypernym |-> GetSearchHypernym, delete_search_hypernym |->
   DeleteSearchHypernym, list_search_hypernyms |-> ListSearchHypernyms, search_assets |->
   SearchAssets, search_index_endpoint |-> SearchIndexEndpoint, create_index_endpoint |->
   CreateIndexEndpoint, get_index_endpoint |-> GetIndexEndpoint, list_index_endpoints |->
   ListIndexEndpoints, update_index_endpoint |-> UpdateIndexEndpoint, delete_index_endpoint |->
   DeleteIndexEndpoint, deploy_index |-> DeployIndex, undeploy_index |-> UndeployIndex,
   create_collection |-> CreateCollection, delete_collection |-> DeleteCollection, get_collection
   |-> GetCollection, update_collection |-> UpdateCollection, list_collections |->
   ListCollections, add_collection_item |-> AddCollectionItem, remove_collection_item |->
   RemoveCollectionItem, view_collection_items |-> ViewCollectionItems, list_operations |->
   ListOperations, get_operation |-> GetOperation, delete_operation |-> DeleteOperation,
   cancel_operation |-> CancelOperation]
=============================================================================
