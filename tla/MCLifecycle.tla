---------------------------- MODULE MCLifecycle ----------------------------
(* Instances of Lifecycle.  entered is the command that the last step ran   *)
(* from the command line.                                                   *)
EXTENDS Lifecycle

VARIABLE entered

InitEntered == Init /\ entered = "none"

NextEntered ==
    \/ Next /\ entered' = "none"
    \/ \E c \in Command :
          /\ app.round = <<>> /\ app.text # <<>> /\ OnEnterCommand(c)
          /\ entered' = c

SpecEntered == InitEntered /\ [][NextEntered]_<<app, entered>>

\* A command that succeeds on the command line and is marked
\* closes_cofi_after_execute closes cofi.
Dismissed ==
    Succeeds(entered) /\ ClosesAfter(entered) => ~app.visible
=============================================================================
