------------------------------- MODULE MCBuild -------------------------------
(* A library others need, one of them, and one for each way of asking for a   *)
(* version; each in two versions.                                             *)
EXTENDS Build

MCLibraries == {"boost", "avro", "capnproto", "protobuf"}
MCVersions == {1, 2}
=============================================================================
