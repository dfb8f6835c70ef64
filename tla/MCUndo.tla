------------------------------- MODULE MCUndo -------------------------------
(* Instances of Undo: directory "d" holds "f"; a second file "g" and the     *)
(* excluded "x", where there are any, lie directly below the root.           *)
EXTENDS Undo, TLC

MCParent == [p \in Paths |-> IF p = "f" THEN "d" ELSE Root]
MCSize == [c \in Contents |-> 1]
MCSymmetry == Permutations(Contents)

\* Bound: beside a second file there is no excluded one and none that cannot be
\* read.
SecondFileAlone ==
    \/ fs["g"] = Gone
    \/ /\ fs["x"] = Gone
       /\ \A p \in Paths : fs[p].kind = "file" => fs[p].mode \in Readable
=============================================================================
