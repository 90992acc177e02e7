-------------------------- MODULE AppPlatformClient --------------------------
(* The methods of AppPlatformClient (app_platform/client.py): the keywords     *)
(* that are fields of the request, the field that is sent in the routing       *)
(* header, and what the reply is wrapped in. Retries and timeouts are those of *)
(* the transport (base.py).                                                    *)
EXTENDS GapicSurface

list_applications == Method("ListApplicationsRequest", {"parent"}, <<"parent">>,
    Pager("ListApplicationsPager"))
get_application == Method("GetApplicationRequest", {"name"}, <<"name">>, Message)
create_application == Method("CreateApplicationRequest", {"parent", "application"}, <<"parent">>,
    Operation("Application", "OperationMetadata"))
update_application == Method("UpdateApplicationRequest", {"application", "update_mask"},
    <<"application", "name">>, Operation("Application", "OperationMetadata"))
delete_application == Method("DeleteApplicationRequest", {"name"}, <<"name">>, Operation("Empty",
    "OperationMetadata"))
deploy_application == Method("DeployApplicationRequest", {"name"}, <<"name">>,
    Operation("DeployApplicationResponse", "OperationMetadata"))
undeploy_application == Method("UndeployApplicationRequest", {"name"}, <<"name">>,
    Operation("UndeployApplicationResponse", "OperationMetadata"))
add_application_stream_input == Method("AddApplicationStreamInputRequest", {"name"}, <<"name">>,
    Operation("AddApplicationStreamInputResponse", "OperationMetadata"))
remove_application_stream_input == Method("RemoveApplicationStreamInputRequest", {"name"},
    <<"name">>, Operation("RemoveApplicationStreamInputResponse", "OperationMetadata"))
update_application_stream_input == Method("UpdateApplicationStreamInputRequest", {"name"},
    <<"name">>, Operation("UpdateApplicationStreamInputResponse", "OperationMetadata"))
list_instances == Method("ListInstancesRequest", {"parent"}, <<"parent">>,
    Pager("ListInstancesPager"))
get_instance == Method("GetInstanceRequest", {"name"}, <<"name">>, Message)
create_application_instances == Method("CreateApplicationInstancesRequest", {"name"}, <<"name">>,
    Operation("CreateApplicationInstancesResponse", "OperationMetadata"))
delete_application_instances == Method("DeleteApplicationInstancesRequest", {"name"}, <<"name">>,
    Operation("Instance", "OperationMetadata"))
update_application_instances == Method("UpdateApplicationInstancesRequest", {"name",
    "application_instances"}, <<"name">>, Operation("UpdateApplicationInstancesResponse",
    "OperationMetadata"))
list_drafts == Method("ListDraftsRequest", {"parent"}, <<"parent">>, Pager("ListDraftsPager"))
get_draft == Method("GetDraftRequest", {"name"}, <<"name">>, Message)
create_draft == Method("CreateDraftRequest", {"parent", "draft", "draft_id"}, <<"parent">>,
    Operation("Draft", "OperationMetadata"))
update_draft == Method("UpdateDraftRequest", {"draft", "update_mask"}, <<"draft", "name">>,
    Operation("Draft", "OperationMetadata"))
delete_draft == Method("DeleteDraftRequest", {"name"}, <<"name">>, Operation("Empty",
    "OperationMetadata"))
list_processors == Method("ListProcessorsRequest", {"parent"}, <<"parent">>,
    Pager("ListProcessorsPager"))
list_prebuilt_processors == Method("ListPrebuiltProcessorsRequest", {"parent"}, <<"parent">>,
    Message)
get_processor == Method("GetProcessorRequest", {"name"}, <<"name">>, Message)
create_processor == Method("CreateProcessorRequest", {"parent", "processor", "processor_id"},
    <<"parent">>, Operation("Processor", "OperationMetadata"))
update_processor == Method("UpdateProcessorRequest", {"processor", "update_mask"}, <<"processor",
    "name">>, Operation("Processor", "OperationMetadata"))
delete_processor == Method("DeleteProcessorRequest", {"name"}, <<"name">>, Operation("Empty",
    "OperationMetadata"))
list_operations == Mixin("ListOperationsRequest", Message)
get_operation == Mixin("GetOperationRequest", Message)
delete_operation == Mixin("DeleteOperationRequest", Empty)
cancel_operation == Mixin("CancelOperationRequest", Empty)

(* The default policies, by name of the method. *)
retried == {}
limited == {}

Methods == WithPolicies(
  [list_applications |-> list_applications, get_application |-> get_application,
   create_application |-> create_application, update_application |-> update_application,
   delete_application |-> delete_application, deploy_application |-> deploy_application,
   undeploy_application |-> undeploy_application, add_application_stream_input |->
   add_application_stream_input, remove_application_stream_input |->
   remove_application_stream_input, update_application_stream_input |->
   update_application_stream_input, list_instances |-> list_instances, get_instance |->
   get_instance, create_application_instances |-> create_application_instances,
   delete_application_instances |-> delete_application_instances, update_application_instances |->
   update_application_instances, list_drafts |-> list_drafts, get_draft |-> get_draft,
   create_draft |-> create_draft, update_draft |-> update_draft, delete_draft |-> delete_draft,
   list_processors |-> list_processors, list_prebuilt_processors |-> list_prebuilt_processors,
   get_processor |-> get_processor, create_processor |-> create_processor, update_processor |->
   update_processor, delete_processor |-> delete_processor, list_operations |-> list_operations,
   get_operation |-> get_operation, delete_operation |-> delete_operation, cancel_operation |->
   cancel_operation],
  retried, limited)
=============================================================================
