---------------------------- MODULE MCSelection ----------------------------
(* Two normal windows on two workspaces and a special one that comes and    *)
(* goes, two lines on the screen.                                           *)
EXTENDS Selection

MCKind == [i \in Ids |-> [normal |-> i # 3, desktop |-> IF i = 2 THEN 2 ELSE 1]]
=============================================================================
