------------------------- MODULE WarehouseAsyncClient -------------------------
(* The methods of WarehouseAsyncClient (warehouse/async_client.py). Unlike the *)
(* synchronous client it copies the request before it applies the keywords,    *)
(* and every method names its own retries and timeout.                         *)
EXTENDS GapicSurface

create_asset == Retried(Method("CreateAssetRequest", {"parent", "asset", "asset_id"}, <<"parent">>,
    Message))
update_asset == Method("UpdateAssetRequest", {"asset", "update_mask"}, <<"asset", "name">>, Message)
get_asset == Method("GetAssetRequest", {"name"}, <<"name">>, Message)
list_assets == Method("ListAssetsRequest", {"parent"}, <<"parent">>, Pager("ListAssetsAsyncPager"))
delete_asset == Method("DeleteAssetRequest", {"name"}, <<"name">>, Operation("Empty",
    "DeleteAssetMetadata"))
upload_asset == Method("UploadAssetRequest", {}, <<"name">>, Operation("UploadAssetResponse",
    "UploadAssetMetadata"))
generate_retrieval_url == Method("GenerateRetrievalUrlRequest", {}, <<"name">>, Message)
analyze_asset == Method("AnalyzeAssetRequest", {}, <<"name">>, Operation("AnalyzeAssetResponse",
    "AnalyzeAssetMetadata"))
index_asset == Method("IndexAssetRequest", {}, <<"name">>, Operation("IndexAssetResponse",
    "IndexAssetMetadata"))
remove_index_asset == Method("RemoveIndexAssetRequest", {}, <<"name">>,
    Operation("RemoveIndexAssetResponse", "RemoveIndexAssetMetadata"))
view_indexed_assets == Method("ViewIndexedAssetsRequest", {"index"}, <<"index">>,
    Pager("ViewIndexedAssetsAsyncPager"))
create_index == Method("CreateIndexRequest", {"parent", "index", "index_id"}, <<"parent">>,
    Operation("Index", "CreateIndexMetadata"))
update_index == Method("UpdateIndexRequest", {"index", "update_mask"}, <<"index", "name">>,
    Operation("Index", "UpdateIndexMetadata"))
get_index == Method("GetIndexRequest", {"name"}, <<"name">>, Message)
list_indexes == Method("ListIndexesRequest", {"parent"}, <<"parent">>,
    Pager("ListIndexesAsyncPager"))
delete_index == Method("DeleteIndexRequest", {"name"}, <<"name">>, Operation("Empty",
    "DeleteIndexMetadata"))
create_corpus == Retried(Method("CreateCorpusRequest", {"parent", "corpus"}, <<"parent">>,
    Operation("Corpus", "CreateCorpusMetadata")))
get_corpus == Method("GetCorpusRequest", {"name"}, <<"name">>, Message)
update_corpus == Method("UpdateCorpusRequest", {"corpus", "update_mask"}, <<"corpus", "name">>,
    Message)
list_corpora == Method("ListCorporaRequest", {"parent"}, <<"parent">>,
    Pager("ListCorporaAsyncPager"))
delete_corpus == Method("DeleteCorpusRequest", {"name"}, <<"name">>, Empty)
analyze_corpus == Method("AnalyzeCorpusRequest", {}, <<"name">>, Operation("AnalyzeCorpusResponse",
    "AnalyzeCorpusMetadata"))
create_data_schema == Retried(Method("CreateDataSchemaRequest", {"parent", "data_schema"},
    <<"parent">>, Message))
update_data_schema == Method("UpdateDataSchemaRequest", {"data_schema", "update_mask"},
    <<"data_schema", "name">>, Message)
get_data_schema == Method("GetDataSchemaRequest", {"name"}, <<"name">>, Message)
delete_data_schema == Method("DeleteDataSchemaRequest", {"name"}, <<"name">>, Empty)
list_data_schemas == Method("ListDataSchemasRequest", {"parent"}, <<"parent">>,
    Pager("ListDataSchemasAsyncPager"))
create_annotation == Retried(Method("CreateAnnotationRequest", {"parent", "annotation",
    "annotation_id"}, <<"parent">>, Message))
get_annotation == Method("GetAnnotationRequest", {"name"}, <<"name">>, Message)
list_annotations == Method("ListAnnotationsRequest", {"parent"}, <<"parent">>,
    Pager("ListAnnotationsAsyncPager"))
update_annotation == Method("UpdateAnnotationRequest", {"annotation", "update_mask"},
    <<"annotation", "name">>, Message)
delete_annotation == Method("DeleteAnnotationRequest", {"name"}, <<"name">>, Empty)
ingest_asset == Retried(StreamOf)
clip_asset == Method("ClipAssetRequest", {}, <<"name">>, Message)
generate_hls_uri == Method("GenerateHlsUriRequest", {}, <<"name">>, Message)
import_assets == Method("ImportAssetsRequest", {}, <<"parent">>, Operation("ImportAssetsResponse",
    "ImportAssetsMetadata"))
create_search_config == Method("CreateSearchConfigRequest", {"parent", "search_config",
    "search_config_id"}, <<"parent">>, Message)
update_search_config == Method("UpdateSearchConfigRequest", {"search_config", "update_mask"},
    <<"search_config", "name">>, Message)
get_search_config == Method("GetSearchConfigRequest", {"name"}, <<"name">>, Message)
delete_search_config == Method("DeleteSearchConfigRequest", {"name"}, <<"name">>, Empty)
list_search_configs == Method("ListSearchConfigsRequest", {"parent"}, <<"parent">>,
    Pager("ListSearchConfigsAsyncPager"))
create_search_hypernym == Method("CreateSearchHypernymRequest", {"parent", "search_hypernym",
    "search_hypernym_id"}, <<"parent">>, Message)
update_search_hypernym == Method("UpdateSearchHypernymRequest", {"search_hypernym", "update_mask"},
    <<"search_hypernym", "name">>, Message)
get_search_hypernym == Method("GetSearchHypernymRequest", {"name"}, <<"name">>, Message)
delete_search_hypernym == Method("DeleteSearchHypernymRequest", {"name"}, <<"name">>, Empty)
list_search_hypernyms == Method("ListSearchHypernymsRequest", {"parent"}, <<"parent">>,
    Pager("ListSearchHypernymsAsyncPager"))
search_assets == Method("SearchAssetsRequest", {}, <<"corpus">>, Pager("SearchAssetsAsyncPager"))
search_index_endpoint == Method("SearchIndexEndpointRequest", {}, <<"index_endpoint">>,
    Pager("SearchIndexEndpointAsyncPager"))
create_index_endpoint == Method("CreateIndexEndpointRequest", {"parent", "index_endpoint",
    "index_endpoint_id"}, <<"parent">>, Operation("IndexEndpoint", "CreateIndexEndpointMetadata"))
get_index_endpoint == Method("GetIndexEndpointRequest", {"name"}, <<"name">>, Message)
list_index_endpoints == Method("ListIndexEndpointsRequest", {"parent"}, <<"parent">>,
    Pager("ListIndexEndpointsAsyncPager"))
update_index_endpoint == Method("UpdateIndexEndpointRequest", {"index_endpoint", "update_mask"},
    <<"index_endpoint", "name">>, Operation("IndexEndpoint", "UpdateIndexEndpointMetadata"))
delete_index_endpoint == Method("DeleteIndexEndpointRequest", {"name"}, <<"name">>,
    Operation("Empty", "DeleteIndexEndpointMetadata"))
deploy_index == Method("DeployIndexRequest", {}, <<"index_endpoint">>,
    Operation("DeployIndexResponse", "DeployIndexMetadata"))
undeploy_index == Method("UndeployIndexRequest", {}, <<"index_endpoint">>,
    Operation("UndeployIndexResponse", "UndeployIndexMetadata"))
create_collection == Method("CreateCollectionRequest", {"parent", "collection", "collection_id"},
    <<"parent">>, Operation("Collection", "CreateCollectionMetadata"))
delete_collection == Method("DeleteCollectionRequest", {"name"}, <<"name">>, Operation("Empty",
    "DeleteCollectionMetadata"))
get_collection == Method("GetCollectionRequest", {"name"}, <<"name">>, Message)
update_collection == Method("UpdateCollectionRequest", {"collection", "update_mask"},
    <<"collection", "name">>, Message)
list_collections == Method("ListCollectionsRequest", {"parent"}, <<"parent">>,
    Pager("ListCollectionsAsyncPager"))
add_collection_item == Method("AddCollectionItemRequest", {"item"}, <<"item", "collection">>,
    Message)
remove_collection_item == Method("RemoveCollectionItemRequest", {"item"}, <<"item", "collection">>,
    Message)
view_collection_items == Method("ViewCollectionItemsRequest", {"collection"}, <<"collection">>,
    Pager("ViewCollectionItemsAsyncPager"))
list_operations == Mixin("ListOperationsRequest", Message)
get_operation == Mixin("GetOperationRequest", Message)
delete_operation == Mixin("DeleteOperationRequest", Empty)
cancel_operation == Mixin("CancelOperationRequest", Empty)

Methods ==
  [create_asset |-> create_asset, update_asset |-> update_asset, get_asset |-> get_asset,
   list_assets |-> list_assets, delete_asset |-> delete_asset, upload_asset |-> upload_asset,
   generate_retrieval_url |-> generate_retrieval_url, analyze_asset |-> analyze_asset, index_asset
   |-> index_asset, remove_index_asset |-> remove_index_asset, view_indexed_assets |->
   view_indexed_assets, create_index |-> create_index, update_index |-> update_index, get_index
   |-> get_index, list_indexes |-> list_indexes, delete_index |-> delete_index, create_corpus |->
   create_corpus, get_corpus |-> get_corpus, update_corpus |-> update_corpus, list_corpora |->
   list_corpora, delete_corpus |-> delete_corpus, analyze_corpus |-> analyze_corpus,
   create_data_schema |-> create_data_schema, update_data_schema |-> update_data_schema,
   get_data_schema |-> get_data_schema, delete_data_schema |-> delete_data_schema,
   list_data_schemas |-> list_data_schemas, create_annotation |-> create_annotation,
   get_annotation |-> get_annotation, list_annotations |-> list_annotations, update_annotation |->
   update_annotation, delete_annotation |-> delete_annotation, ingest_asset |-> ingest_asset,
   clip_asset |-> clip_asset, generate_hls_uri |-> generate_hls_uri, import_assets |->
   import_assets, create_search_config |-> create_search_config, update_search_config |->
   update_search_config, get_search_config |-> get_search_config, delete_search_config |->
   delete_search_config, list_search_configs |-> list_search_configs, create_search_hypernym |->
   create_search_hypernym, update_search_hypernym |-> update_search_hypernym, get_search_hypernym
   |-> get_search_hypernym, delete_search_hypernym |-> delete_search_hypernym,
   list_search_hypernyms |-> list_search_hypernyms, search_assets |-> search_assets,
   search_index_endpoint |-> search_index_endpoint, create_index_endpoint |->
   create_index_endpoint, get_index_endpoint |-> get_index_endpoint, list_index_endpoints |->
   list_index_endpoints, update_index_endpoint |-> update_index_endpoint, delete_index_endpoint
   |-> delete_index_endpoint, deploy_index |-> deploy_index, undeploy_index |-> undeploy_index,
   create_collection |-> create_collection, delete_collection |-> delete_collection,
   get_collection |-> get_collection, update_collection |-> update_collection, list_collections
   |-> list_collections, add_collection_item |-> add_collection_item, remove_collection_item |->
   remove_collection_item, view_collection_items |-> view_collection_items, list_operations |->
   list_operations, get_operation |-> get_operation, delete_operation |-> delete_operation,
   cancel_operation |-> cancel_operation]
=============================================================================
