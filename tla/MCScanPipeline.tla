---------------------------- MODULE MCScanPipeline ----------------------------
(* Instances of ScanPipeline: a loop of each kind.                             *)
EXTENDS ScanPipeline

CONSTANTS r1, s1

MCScans == {r1, s1}
MCKindOf == [s \in MCScans |-> IF s = r1 THEN "records" ELSE "summary"]
=============================================================================
