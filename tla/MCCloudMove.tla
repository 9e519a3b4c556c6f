---------------------------- MODULE MCCloudMove ----------------------------
(* Small instances of CloudMove for TLC.                                   *)
EXTENDS CloudMove
=============================================================================
