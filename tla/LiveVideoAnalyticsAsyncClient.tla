-------------------- MODULE LiveVideoAnalyticsAsyncClient --------------------
(* The methods of LiveVideoAnalyticsAsyncClient                                *)
(* (live_video_analytics/async_client.py). Unlike the synchronous client it    *)
(* copies the request before it applies the keywords, and every method names   *)
(* its own retries and timeout.                                                *)
EXTENDS GapicSurface

resolve_operator_info == Extending(Method("ResolveOperatorInfoRequest", {"parent", "queries"},
    <<"parent">>, Message), {"queries"})
list_operators == Limited(Method("ListOperatorsRequest", {"parent"}, <<"parent">>,
    Pager("ListOperatorsAsyncPager")))
get_operator == Limited(Method("GetOperatorRequest", {"name"}, <<"name">>, Message))
create_operator == Limited(Method("CreateOperatorRequest", {"parent", "operator", "operator_id"},
    <<"parent">>, Operation("Operator", "OperationMetadata")))
update_operator == Limited(Method("UpdateOperatorRequest", {"operator", "update_mask"},
    <<"operator", "name">>, Operation("Operator", "OperationMetadata")))
delete_operator == Limited(Method("DeleteOperatorRequest", {"name"}, <<"name">>, Operation("Empty",
    "OperationMetadata")))
list_analyses == Limited(Method("ListAnalysesRequest", {"parent"}, <<"parent">>,
    Pager("ListAnalysesAsyncPager")))
get_analysis == Limited(Method("GetAnalysisRequest", {"name"}, <<"name">>, Message))
create_analysis == Limited(Method("CreateAnalysisRequest", {"parent", "analysis", "analysis_id"},
    <<"parent">>, Operation("Analysis", "OperationMetadata")))
update_analysis == Limited(Method("UpdateAnalysisRequest", {"analysis", "update_mask"},
    <<"analysis", "name">>, Operation("Analysis", "OperationMetadata")))
delete_analysis == Limited(Method("DeleteAnalysisRequest", {"name"}, <<"name">>, Operation("Empty",
    "OperationMetadata")))
list_processes == Method("ListProcessesRequest", {"parent"}, <<"parent">>,
    Pager("ListProcessesAsyncPager"))
get_process == Method("GetProcessRequest", {"name"}, <<"name">>, Message)
create_process == Method("CreateProcessRequest", {"parent", "process", "process_id"}, <<"parent">>,
    Operation("Process", "OperationMetadata"))
update_process == Method("UpdateProcessRequest", {"process", "update_mask"}, <<"process", "name">>,
    Operation("Process", "OperationMetadata"))
delete_process == Method("DeleteProcessRequest", {"name"}, <<"name">>, Operation("Empty",
    "OperationMetadata"))
batch_run_process == Extending(Method("BatchRunProcessRequest", {"parent", "requests"}, <<"parent">>,
    Operation("BatchRunProcessResponse", "OperationMetadata")), {"requests"})
list_operations == Mixin("ListOperationsRequest", Message)
get_operation == Mixin("GetOperationRequest", Message)
delete_operation == Mixin("DeleteOperationRequest", Empty)
cancel_operation == Mixin("CancelOperationRequest", Empty)

Methods ==
  [resolve_operator_info |-> resolve_operator_info, list_operators |-> list_operators,
   get_operator |-> get_operator, create_operator |-> create_operator, update_operator |->
   update_operator, delete_operator |-> delete_operator, list_analyses |-> list_analyses,
   get_analysis |-> get_analysis, create_analysis |-> create_analysis, update_analysis |->
   update_analysis, delete_analysis |-> delete_analysis, list_processes |-> list_processes,
   get_process |-> get_process, create_process |-> create_process, update_process |->
   update_process, delete_process |-> delete_process, batch_run_process |-> batch_run_process,
   list_operations |-> list_operations, get_operation |-> get_operation, delete_operation |->
   delete_operation, cancel_operation |-> cancel_operation]
=============================================================================
