--------------------------- MODULE MCRecordDecode ---------------------------
(* Records of up to two elements per member, in and out. *)
EXTENDS RecordDecode

MCElem == {0, 1, 2}
MCBlank == 0
MCTorn == 9
MCOthers == {"other"}
MCRecords == {[ids |-> i, strings |-> s] : i \in {<<>>, <<1>>, <<1, 2>>}, s \in {<<>>, <<2>>, <<2, 2>>}}
=============================================================================
