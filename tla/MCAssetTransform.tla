---------------------------- MODULE MCAssetTransform ----------------------------
(* One program with two transformers and one that shares the analysis with it. *)
EXTENDS AssetTransform, TLC

CONSTANTS p1, p2, a1, a2

MCAssetsOf == p1 :> {a1} @@ p2 :> {a2}
MCTransformersOf == p1 :> <<"lro", "write", "lva">> @@ p2 :> <<"lva">>
=============================================================================
