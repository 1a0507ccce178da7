---------------------------- MODULE MCScanReport ----------------------------
(* Two scanners: the first to start is the last to be dropped. *)
EXTENDS ScanReport

MCScanners == <<"gpu", "models">>
MCDropOrder == <<"models", "gpu">>
=============================================================================
