---------------------------- MODULE MCCapnpRecord ----------------------------
(* Two messages, one orphan, three lists of up to one item. *)
EXTENDS CapnpRecord

CONSTANTS m1, m2, o1

MCMessages == {m1, m2}
MCOrphans == {o1}
MCItems == {0, 1}
MCZero == 0
=============================================================================
