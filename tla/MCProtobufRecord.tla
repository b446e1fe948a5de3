--------------------------- MODULE MCProtobufRecord ---------------------------
(* Two messages; one integer to add, which may also be the length of a       *)
(* packed field; a string that is not UTF-8.  From elsewhere: every field    *)
(* alone, whole or cut, pairs of which the first is an id, packed ones or a  *)
(* foreign field; behind an id also two empty packed fields and a cut one.   *)
EXTENDS ProtobufRecord, TLC

CONSTANTS r1, r2, empty, bad, f

MCMessages == {r1, r2}
MCAdded == {1}
MCIds == {0, 1}
MCStrings == {empty, bad}
MCUtf8 == {empty}
MCForeign == {f}
MCGarbage == {2}

MCInt64Size(x) == 1

BadTagField == [kind |-> "bad", whole |-> TRUE, len |-> 0, items |-> <<>>]
Cutoff(g) == [g EXCEPT !.whole = FALSE]

First == {Packed(1, <<1>>), One("id", 1), One("unknown", f)}
Whole == First \cup {Packed(0, <<>>), One("string", empty), One("string", bad), BadTagField}
Short == {Cutoff(g) : g \in First \cup {One("string", empty), BadTagField}}

MCWires ==
  {<<>>} \cup {<<g>> : g \in Whole \cup Short} \cup {<<g, h>> : g \in First, h \in Whole}
  \cup {<<One("id", 1), Packed(0, <<>>), Packed(0, <<>>)>>, <<One("id", 1), Cutoff(Packed(1, <<1>>))>>}

\* Nothing, a tag of no type, that of a foreign field, or of one that is cut.
MCRereads ==
  {<<>>, <<BadTagField>>, <<One("unknown", f)>>, <<Cutoff(One("unknown", f))>>, <<One("unknown", f), One("id", 1)>>}
=============================================================================
