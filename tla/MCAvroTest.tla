------------------------------ MODULE MCAvroTest ------------------------------
(* Images of less than a chunk up to more than two, exact multiples included. *)
EXTENDS AvroTest

Fidelity == {"same", "values", "count"}
MCJobs == [name : {"avro"}, ids : Fidelity, strings : Fidelity, bytes : 1 .. 7]
=============================================================================
