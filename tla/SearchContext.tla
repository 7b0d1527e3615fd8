--------------------------- MODULE SearchContext ---------------------------
(***************************************************************************)
(* The context of a search in a child process, as files_search.c and       *)
(* projects_locate.c keep it: a reference count, a read of the output and  *)
(* a wait for the end of the process that are both under way, a timer, and *)
(* the flag that it was given up.  Each of the three callbacks and the     *)
(* pointer to the pending search hold a reference.                         *)
(***************************************************************************)
EXTENDS Naturals

CONSTANT MaxAsked   \* bound: searches and fetches in a behaviour

ASSUME MaxAskedAssumption == MaxAsked \in Nat \ {0}

Id == 1..MaxAsked   \* a search is named by its generation

(* "out": the callback will come; "done": it came and counted.             *)
Search ==
    [abandoned : BOOLEAN, read : {"out", "done", "dropped"},
     wait : {"out", "done", "dropped"}, timer : BOOLEAN, refcount : 0..4]

Freed ==
    [abandoned |-> FALSE, read |-> "dropped", wait |-> "dropped",
     timer |-> FALSE, refcount |-> 0]

Launched ==
    [abandoned |-> FALSE, read |-> "out", wait |-> "out", timer |-> TRUE,
     refcount |-> 4]

Unref(s) == IF s.refcount = 1 THEN Freed ELSE [s EXCEPT !.refcount = @ - 1]

\* Mutant: the flag is set and the reference of the pointer kept.
AbandonPendingLeaking(ss, p) ==
    IF p = 0 THEN ss ELSE [ss EXCEPT ![p] = [@ EXCEPT !.abandoned = TRUE]]

(* Give up the pending search, which drops the pointer's reference.        *)
AbandonPending(ss, p) ==
    IF p = 0 THEN ss ELSE [ss EXCEPT ![p] = Unref([@ EXCEPT !.abandoned = TRUE])]

Ended(s) == s.read = "done" /\ s.wait = "done"

Running(s) == ~s.abandoned /\ ("out" \in {s.read, s.wait})

Count(b) == IF b THEN 1 ELSE 0
Holders(s, pending) ==
    Count(pending) + Count(s.read = "out") + Count(s.wait = "out") + Count(s.timer)

(* What holds of the contexts ss of one provider with pending search p:    *)
(* only the pending one runs, and every reference has its holder.          *)
Accounted(ss, p) ==
    \A g \in Id : /\ Running(ss[g]) => g = p
                  /\ ss[g].refcount = Holders(ss[g], g = p)
=============================================================================
