----------------------- MODULE LiveVideoAnalyticsClient -----------------------
(* The methods of LiveVideoAnalyticsClient (live_video_analytics/client.py):   *)
(* the keywords that are fields of the request, the field that is sent in the  *)
(* routing header, and what the reply is wrapped in. Retries and timeouts are  *)
(* those of the transport (base.py).                                           *)
EXTENDS GapicSurface

resolve_operator_info == Method("ResolveOperatorInfoRequest", {"parent", "queries"}, <<"parent">>,
    Message)
list_operators == Method("ListOperatorsRequest", {"parent"}, <<"parent">>,
    Pager("ListOperatorsPager"))
get_operator == Method("GetOperatorRequest", {"name"}, <<"name">>, Message)
create_operator == Method("CreateOperatorRequest", {"parent", "operator", "operator_id"},
    <<"parent">>, Operation("Operator", "OperationMetadata"))
update_operator == Method("UpdateOperatorRequest", {"operator", "update_mask"}, <<"operator",
    "name">>, Operation("Operator", "OperationMetadata"))
delete_operator == Method("DeleteOperatorRequest", {"name"}, <<"name">>, Operation("Empty",
    "OperationMetadata"))
list_analyses == Method("ListAnalysesRequest", {"parent"}, <<"parent">>, Pager("ListAnalysesPager"))
get_analysis == Method("GetAnalysisRequest", {"name"}, <<"name">>, Message)
create_analysis == Method("CreateAnalysisRequest", {"parent", "analysis", "analysis_id"},
    <<"parent">>, Operation("Analysis", "OperationMetadata"))
update_analysis == Method("UpdateAnalysisRequest", {"analysis", "update_mask"}, <<"analysis",
    "name">>, Operation("Analysis", "OperationMetadata"))
delete_analysis == Method("DeleteAnalysisRequest", {"name"}, <<"name">>, Operation("Empty",
    "OperationMetadata"))
list_processes == Method("ListProcessesRequest", {"parent"}, <<"parent">>,
    Pager("ListProcessesPager"))
get_process == Method("GetProcessRequest", {"name"}, <<"name">>, Message)
create_process == Method("CreateProcessRequest", {"parent", "process", "process_id"}, <<"parent">>,
    Operation("Process", "OperationMetadata"))
update_process == Method("UpdateProcessRequest", {"process", "update_mask"}, <<"process", "name">>,
    Operation("Process", "OperationMetadata"))
delete_process == Method("DeleteProcessRequest", {"name"}, <<"name">>, Operation("Empty",
    "OperationMetadata"))
batch_run_process == Method("BatchRunProcessRequest", {"parent", "requests"}, <<"parent">>,
    Operation("BatchRunProcessResponse", "OperationMetadata"))
list_operations == Mixin("ListOperationsRequest", Message)
get_operation == Mixin("GetOperationRequest", Message)
delete_operation == Mixin("DeleteOperationRequest", Empty)
cancel_operation == Mixin("CancelOperationRequest", Empty)

(* The default policies, by name of the method. *)
retried == {}
limited == {"list_operators", "get_operator", "create_operator", "update_operator",
    "delete_operator", "list_analyses", "get_analysis", "create_analysis", "update_analysis",
    "delete_analysis"}

Methods == WithPolicies(
  [resolve_operator_info |-> resolve_operator_info, list_operators |-> list_operators,
   get_operator |-> get_operator, create_operator |-> create_operator, update_operator |->
   update_operator, delete_operator |-> delete_operator, list_analyses |-> list_analyses,
   get_analysis |-> get_analysis, create_analysis |-> create_analysis, update_analysis |->
   update_analysis, delete_analysis |-> delete_analysis, list_processes |-> list_processes,
   get_process |-> get_process, create_process |-> create_process, update_process |->
   update_process, delete_process |-> delete_process, batch_run_process |-> batch_run_process,
   list_operations |-> list_operations, get_operation |-> get_operation, delete_operation |->
   delete_operation, cancel_operation |-> cancel_operation],
  retried, limited)
=============================================================================
