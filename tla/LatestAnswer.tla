---------------------------- MODULE LatestAnswer ----------------------------
(***************************************************************************)
(* What an asynchronous search promises.  Questions are numbered; a new    *)
(* one supersedes the one before.  The answer shown is the answer to the   *)
(* newest question or, until that comes, an older one; an answer that was  *)
(* not waited for is never shown.  No question stays open.                 *)
(***************************************************************************)
EXTENDS Naturals

VARIABLES
    asked,      \* the newest question
    open,       \* its answer is waited for
    answered    \* the question whose answer is shown, or 0

vars == <<asked, open, answered>>

Init == asked = 0 /\ open = FALSE /\ answered = 0

(* A new question; what was shown may be taken away at once.  It is not    *)
(* open when it could not be put.                                          *)
Ask ==
    /\ asked' = asked + 1
    /\ open' \in BOOLEAN
    /\ answered' \in {answered, 0}

Answer ==
    /\ open /\ open' = FALSE
    /\ answered' = asked
    /\ UNCHANGED asked

(* The question was given up, or timed out.                                *)
GiveUp ==
    /\ open' = FALSE
    /\ answered' \in {answered, 0}
    /\ UNCHANGED asked

Next == Ask \/ Answer \/ GiveUp

Safety == Init /\ [][Next]_vars

(* A question that is not superseded does not stay open.                   *)
Ends == []<>~open \/ []<><<Ask>>_vars

Spec == Safety /\ Ends
=============================================================================
