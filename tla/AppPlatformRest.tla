--------------------------- MODULE AppPlatformRest ---------------------------
(* The calls of AppPlatformRestTransport (app_platform/transports/rest.py):    *)
(* the HTTP verb, the field whose value is matched with the URI patterns, the  *)
(* field that is sent as the body, and the message that the answer is parsed   *)
(* as.                                                                         *)
EXTENDS GapicSurface

AddApplicationStreamInput == Post("AddApplicationStreamInputRequest", <<"name">>,
    {"projects/*/locations/*/applications/*"}, "*", "Operation")
CreateApplication == Defaulting(Post("CreateApplicationRequest", <<"parent">>,
    {"projects/*/locations/*"}, "application", "Operation"), {"application_id"})
CreateApplicationInstances == Post("CreateApplicationInstancesRequest", <<"name">>,
    {"projects/*/locations/*/applications/*"}, "*", "Operation")
CreateDraft == Defaulting(Post("CreateDraftRequest", <<"parent">>,
    {"projects/*/locations/*/applications/*"}, "draft", "Operation"), {"draft_id"})
CreateProcessor == Defaulting(Post("CreateProcessorRequest", <<"parent">>,
    {"projects/*/locations/*"}, "processor", "Operation"), {"processor_id"})
DeleteApplication == Delete("DeleteApplicationRequest", <<"name">>,
    {"projects/*/locations/*/applications/*"}, "Operation")
DeleteApplicationInstances == Post("DeleteApplicationInstancesRequest", <<"name">>,
    {"projects/*/locations/*/applications/*"}, "*", "Operation")
DeleteDraft == Delete("DeleteDraftRequest", <<"name">>,
    {"projects/*/locations/*/applications/*/drafts/*"}, "Operation")
DeleteProcessor == Delete("DeleteProcessorRequest", <<"name">>,
    {"projects/*/locations/*/processors/*"}, "Operation")
DeployApplication == Post("DeployApplicationRequest", <<"name">>,
    {"projects/*/locations/*/applications/*"}, "*", "Operation")
GetApplication == Get("GetApplicationRequest", <<"name">>,
    {"projects/*/locations/*/applications/*"}, "Application")
GetDraft == Get("GetDraftRequest", <<"name">>, {"projects/*/locations/*/applications/*/drafts/*"},
    "Draft")
GetInstance == Get("GetInstanceRequest", <<"name">>,
    {"projects/*/locations/*/applications/*/instances/*"}, "Instance")
GetProcessor == Get("GetProcessorRequest", <<"name">>, {"projects/*/locations/*/processors/*"},
    "Processor")
ListApplications == Get("ListApplicationsRequest", <<"parent">>, {"projects/*/locations/*"},
    "ListApplicationsResponse")
ListDrafts == Get("ListDraftsRequest", <<"parent">>, {"projects/*/locations/*/applications/*"},
    "ListDraftsResponse")
ListInstances == Get("ListInstancesRequest", <<"parent">>,
    {"projects/*/locations/*/applications/*"}, "ListInstancesResponse")
ListPrebuiltProcessors == Post("ListPrebuiltProcessorsRequest", <<"parent">>,
    {"projects/*/locations/*"}, "*", "ListPrebuiltProcessorsResponse")
ListProcessors == Get("ListProcessorsRequest", <<"parent">>, {"projects/*/locations/*"},
    "ListProcessorsResponse")
RemoveApplicationStreamInput == Post("RemoveApplicationStreamInputRequest", <<"name">>,
    {"projects/*/locations/*/applications/*"}, "*", "Operation")
UndeployApplication == Post("UndeployApplicationRequest", <<"name">>,
    {"projects/*/locations/*/applications/*"}, "*", "Operation")
UpdateApplication == Patch("UpdateApplicationRequest", <<"application", "name">>,
    {"projects/*/locations/*/applications/*"}, "application", "Operation")
UpdateApplicationInstances == Post("UpdateApplicationInstancesRequest", <<"name">>,
    {"projects/*/locations/*/applications/*"}, "*", "Operation")
UpdateApplicationStreamInput == Post("UpdateApplicationStreamInputRequest", <<"name">>,
    {"projects/*/locations/*/applications/*"}, "*", "Operation")
UpdateDraft == Patch("UpdateDraftRequest", <<"draft", "name">>,
    {"projects/*/locations/*/applications/*/drafts/*"}, "draft", "Operation")
UpdateProcessor == Patch("UpdateProcessorRequest", <<"processor", "name">>,
    {"projects/*/locations/*/processors/*"}, "processor", "Operation")
CancelOperation == Post("CancelOperationRequest", <<"name">>,
    {"projects/*/locations/*/operations/*"}, "*", "Empty")
DeleteOperation == Delete("DeleteOperationRequest", <<"name">>,
    {"projects/*/locations/*/operations/*"}, "Empty")
GetOperation == Get("GetOperationRequest", <<"name">>, {"projects/*/locations/*/operations/*",
    "projects/*/locations/*/warehouseOperations/*",
    "projects/*/locations/*/corpora/*/assets/*/operations/*",
    "projects/*/locations/*/corpora/*/collections/*/operations/*",
    "projects/*/locations/*/corpora/*/imageIndexes/*/operations/*",
    "projects/*/locations/*/corpora/*/indexes/*/operations/*",
    "projects/*/locations/*/corpora/*/operations/*",
    "projects/*/locations/*/indexEndpoints/*/operations/*"}, "Operation")
ListOperations == Get("ListOperationsRequest", <<"name">>, {"projects/*/locations/*"},
    "ListOperationsResponse")

Bindings ==
  [list_applications |-> ListApplications, get_application |-> GetApplication, create_application
   |-> CreateApplication, update_application |-> UpdateApplication, delete_application |->
   DeleteApplication, deploy_application |-> DeployApplication, undeploy_application |->
   UndeployApplication, add_application_stream_input |-> AddApplicationStreamInput,
   remove_application_stream_input |-> RemoveApplicationStreamInput,
   update_application_stream_input |-> UpdateApplicationStreamInput, list_instances |->
   ListInstances, get_instance |-> GetInstance, create_application_instances |->
   CreateApplicationInstances, delete_application_instances |-> DeleteApplicationInstances,
   update_application_instances |-> UpdateApplicationInstances, list_drafts |-> ListDrafts,
   get_draft |-> GetDraft, create_draft |-> CreateDraft, update_draft |-> UpdateDraft,
   delete_draft |-> DeleteDraft, list_processors |-> ListProcessors, list_prebuilt_processors |->
   ListPrebuiltProcessors, get_processor |-> GetProcessor, create_processor |-> CreateProcessor,
   update_processor |-> UpdateProcessor, delete_processor |-> DeleteProcessor, list_operations |->
   ListOperations, get_operation |-> GetOperation, delete_operation |-> DeleteOperation,
   cancel_operation |-> CancelOperation]
=============================================================================
