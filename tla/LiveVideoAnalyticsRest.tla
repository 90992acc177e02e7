------------------------ MODULE LiveVideoAnalyticsRest ------------------------
(* The calls of LiveVideoAnalyticsRestTransport                                *)
(* (live_video_analytics/transports/rest.py): the HTTP verb, the field whose   *)
(* value is matched with the URI patterns, the field that is sent as the body, *)
(* and the message that the answer is parsed as.                               *)
EXTENDS GapicSurface

BatchRunProcess == Post("BatchRunProcessRequest", <<"parent">>,
    {"projects/*/locations/*/clusters/*"}, "*", "Operation")
CreateAnalysis == Defaulting(Post("CreateAnalysisRequest", <<"parent">>,
    {"projects/*/locations/*/clusters/*"}, "analysis", "Operation"), {"analysis_id"})
CreateOperator == Defaulting(Post("CreateOperatorRequest", <<"parent">>, {"projects/*/locations/*"},
    "operator", "Operation"), {"operator_id"})
CreateProcess == Defaulting(Post("CreateProcessRequest", <<"parent">>,
    {"projects/*/locations/*/clusters/*"}, "process", "Operation"), {"process_id"})
DeleteAnalysis == Delete("DeleteAnalysisRequest", <<"name">>,
    {"projects/*/locations/*/clusters/*/analyses/*"}, "Operation")
DeleteOperator == Delete("DeleteOperatorRequest", <<"name">>,
    {"projects/*/locations/*/operators/*"}, "Operation")
DeleteProcess == Delete("DeleteProcessRequest", <<"name">>,
    {"projects/*/locations/*/clusters/*/processes/*"}, "Operation")
GetAnalysis == Get("GetAnalysisRequest", <<"name">>,
    {"projects/*/locations/*/clusters/*/analyses/*"}, "Analysis")
GetOperator == Get("GetOperatorRequest", <<"name">>, {"projects/*/locations/*/operators/*"},
    "Operator")
GetProcess == Get("GetProcessRequest", <<"name">>,
    {"projects/*/locations/*/clusters/*/processes/*"}, "Process")
ListAnalyses == Get("ListAnalysesRequest", <<"parent">>, {"projects/*/locations/*/clusters/*"},
    "ListAnalysesResponse")
ListOperators == Get("ListOperatorsRequest", <<"parent">>, {"projects/*/locations/*"},
    "ListOperatorsResponse")
ListProcesses == Get("ListProcessesRequest", <<"parent">>, {"projects/*/locations/*/clusters/*"},
    "ListProcessesResponse")
ResolveOperatorInfo == Post("ResolveOperatorInfoRequest", <<"parent">>, {"projects/*/locations/*"},
    "*", "ResolveOperatorInfoResponse")
UpdateAnalysis == Defaulting(Patch("UpdateAnalysisRequest", <<"analysis", "name">>,
    {"projects/*/locations/*/clusters/*/analyses/*"}, "analysis", "Operation"), {"update_mask"})
UpdateOperator == Defaulting(Patch("UpdateOperatorRequest", <<"operator", "name">>,
    {"projects/*/locations/*/operators/*"}, "operator", "Operation"), {"update_mask"})
UpdateProcess == Defaulting(Patch("UpdateProcessRequest", <<"process", "name">>,
    {"projects/*/locations/*/clusters/*/processes/*"}, "process", "Operation"), {"update_mask"})
CancelOperation == Post("CancelOperationRequest", <<"name">>,
    {"projects/*/locations/*/operations/*"}, "*", "Empty")
DeleteOperation == Delete("DeleteOperationRequest", <<"name">>,
    {"projects/*/locations/*/operations/*"}, "Empty")
GetOperation == Get("GetOperationRequest", <<"name">>, {"projects/*/locations/*/operations/*",
    "projects/*/locations/*/warehouseOperations/*",
    "projects/*/locations/*/corpora/*/assets/*/operations/*",
    "projects/*/locations/*/corpora/*/collections/*/operations/*",
    "projects/*/locations/*/corpora/*/imageIndexes/*/operations/*",
    "projects/*/locations/*/corpora/*/indexes/*/operations/*",
    "projects/*/locations/*/corpora/*/operations/*",
    "projects/*/locations/*/indexEndpoints/*/operations/*"}, "Operation")
ListOperations == Get("ListOperationsRequest", <<"name">>, {"projects/*/locations/*"},
    "ListOperationsResponse")

Bindings ==
  [resolve_operator_info |-> ResolveOperatorInfo, list_operators |-> ListOperators, get_operator
   |-> GetOperator, create_operator |-> CreateOperator, update_operator |-> UpdateOperator,
   delete_operator |-> DeleteOperator, list_analyses |-> ListAnalyses, get_analysis |->
   GetAnalysis, create_analysis |-> CreateAnalysis, update_analysis |-> UpdateAnalysis,
   delete_analysis |-> DeleteAnalysis, list_processes |-> ListProcesses, get_process |->
   GetProcess, create_process |-> CreateProcess, update_process |-> UpdateProcess, delete_process
   |-> DeleteProcess, batch_run_process |-> BatchRunProcess, list_operations |-> ListOperations,
   get_operation |-> GetOperation, delete_operation |-> DeleteOperation, cancel_operation |->
   CancelOperation]
=============================================================================
