------------------------------ MODULE MCMemory ------------------------------
(* Memory for TLC: two containers and two texts of the program. *)
EXTENDS Memory

CONSTANTS o1, o2

MCPairings == {[o \in Objects |-> "vector"], [o \in Objects |-> "string"],
               [o \in Objects |-> IF o = o1 THEN "string" ELSE "block"]}
MCLiterals == <<<<1>>, <<2, 1>>>>

\* The view of a state leaves out what no call and no property tells apart: the
\* cells past what a container holds, and which address and which token a block
\* and an element got.  While OneOwner and ElementsAlive hold, the rest follows.
Shown(o) ==
    LET n == Size(o) + Zt(Obj(o))
    IN  IF ~InBounds(mem, Obj(o).data, 0, n) THEN <<>>
        ELSE IF IsVector(o) /\ n > 0 THEN Elements(mem, o)
        ELSE IF n > 0 THEN SubSeq(Cells(mem, Obj(o).data), 1, n) ELSE <<>>
View ==
    <<kind, expected, mem.fault, OneOwner, ElementsAlive,
      [o \in Objects |-> [Obj(o) EXCEPT !.data = IF Owns(o) THEN 1 ELSE @]],
      [o \in Objects |-> Shown(o)]>>
=============================================================================
