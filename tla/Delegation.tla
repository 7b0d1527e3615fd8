----------------------------- MODULE Delegation -----------------------------
(***************************************************************************)
(* What an invocation of cofi is promised.  An invocation may ask for      *)
(* something (a tab, the command line, the run prompt); what it asks for   *)
(* is done once, or the invocation, or the daemon it asked, ends and it is *)
(* never done.                                                             *)
(***************************************************************************)
CONSTANT Proc       \* invocations of the program

VARIABLE fate       \* what became of the request of each of them

Init == fate = [p \in Proc |-> "idle"]

Ask(p) ==
    /\ fate[p] = "idle"
    /\ fate' = [fate EXCEPT ![p] = "asked"]

Handle(p) ==
    /\ fate[p] = "asked"
    /\ fate' = [fate EXCEPT ![p] = "handled"]

(* A daemon that ends takes with it the requests it has not handled.       *)
End(P) ==
    /\ P # {} /\ \A p \in P : fate[p] = "asked"
    /\ fate' = [p \in Proc |-> IF p \in P THEN "ended" ELSE fate[p]]

Next ==
    \/ \E p \in Proc : Ask(p) \/ Handle(p)
    \/ \E P \in SUBSET Proc : End(P)

Open == {p \in Proc : fate[p] = "asked"}

Safety == Init /\ [][Next]_fate
Spec == Safety /\ []<>(Open = {})
=============================================================================
