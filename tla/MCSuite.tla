-------------------------------- MODULE MCSuite --------------------------------
(* Requests for any two tests and for all, every codec; images of avro of less *)
(* than a chunk up to more than two.                                            *)
EXTENDS Suite

Fidelity == {"same", "values", "count"}
MCJobs ==
  [name : Thrifts \cup {"capnproto", "flatbuffers"}, ids : Fidelity, strings : Fidelity]
  \cup [name : Archives, ids : Fidelity, strings : Fidelity, readable : BOOLEAN]
  \cup [name : {"avro"}, ids : Fidelity, strings : Fidelity, bytes : 1 .. 7]
MCRequests == {{}} \cup {{Order[k], Order[l]} : k, l \in DOMAIN Order}
=============================================================================
