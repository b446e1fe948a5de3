---------------------------- MODULE MCThriftRecord ----------------------------
(* Structs of up to three fields: members, an unknown field, a wrong type. *)
EXTENDS ThriftRecord, TLC

CONSTANTS a, b, zero

MCElem == {a, b, zero}
MCLists == {<<>>, <<a>>, <<b, a>>}
MCField ==
  [fid : {1, 2}, list : {TRUE}, elems : MCLists] \cup
  [fid : {1, 2}, list : {FALSE}, elems : {<<>>}] \cup
  [fid : {3}, list : {TRUE}, elems : {<<b>>}]
MCStreams == UNION {[1 .. n -> MCField] : n \in 0 .. 3}
MCRecords ==
  { [ids |-> <<>>, strings |-> <<>>], [ids |-> <<b, a>>, strings |-> <<a>>],
    [ids |-> <<a>>, strings |-> <<b, a>>] }
=============================================================================
