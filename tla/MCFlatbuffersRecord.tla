------------------------ MODULE MCFlatbuffersRecord ------------------------
(* Buffers of up to two records, with empty and other strings and vectors of strings. *)
EXTENDS FlatbuffersRecord

MCIds == {<<7>>}
MCStrings == {<<>>, <<9>>}
MCDamages == {-1, 0, 2, 40}
=============================================================================
