--------------------------- MODULE MCReplayServer ---------------------------
(* ReplayServer with an editor of one bundle, a visitor of two, and one     *)
(* replay that both ask for.                                                *)
EXTENDS ReplayServer

CONSTANTS editor, visitor, bundle1, bundle2, replay1

Page == [c \in Client |->
    {[kind |-> "at", key |-> replay1]} \cup
    (IF c = editor THEN {[kind |-> "edit", key |-> bundle1]}
     ELSE {[kind |-> "view", key |-> bundle1],
           [kind |-> "read", key |-> bundle2]})]
Bytes3 == [k \in Key |-> IF k = replay1 THEN 2 ELSE 1]
=============================================================================
