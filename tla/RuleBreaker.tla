---------------------------- MODULE RuleBreaker ----------------------------
(* The circuit breaker of the rules (src/src/rules/rules.c:                 *)
(* rule_breaker_should_fire): a rule whose commands change what it matches  *)
(* would fire for ever, so that a pair of rule and window may fire Limit    *)
(* times in a burst and then stays silent until it was quiet for a while.   *)
(* Time is in milliseconds; when a rule wants to fire is open.              *)
EXTENDS Naturals, Sequences

CONSTANTS Pairs,        \* of rule index and window
          Limit,        \* RULE_BREAKER_BURST_LIMIT
          Window,       \* RULE_BREAKER_BURST_WINDOW_MS
          Quiet,        \* RULE_BREAKER_QUIET_RESET_MS
          MaxEntries,   \* RULE_BREAKER_MAX_ENTRIES
          MaxTime,      \* bound: the clock
          MaxTries      \* bound: calls of rule_breaker_should_fire

(* entry: the table by pair; start, count, last and suppressed are the      *)
(* fields of an entry.  The rest observes: fired is the times at which a    *)
(* pair fired; tried is the last call for it, idle the time without one     *)
(* before, passed whether it fired.                                         *)
VARIABLE br

Fresh(now) == [used |-> TRUE, start |-> now, count |-> 0, last |-> 0, suppressed |-> FALSE]
NoEntry == [used |-> FALSE, start |-> 0, count |-> 0, last |-> 0, suppressed |-> FALSE]

(* An entry that is suppressed is armed again by a quiet time, and a burst  *)
(* that is over makes room for the next.                                    *)
Rearmed(e, now) ==
    IF e.suppressed /\ now - e.last > Quiet
    THEN [e EXCEPT !.suppressed = FALSE, !.count = 0, !.start = now] ELSE e

\* Mutant: the next burst does not begin now.
RestartedThere(e, now) ==
    IF now - e.start > Window THEN [e EXCEPT !.count = 0] ELSE e

Restarted(e, now) ==
    IF now - e.start > Window THEN [e EXCEPT !.count = 0, !.start = now] ELSE e
Counted(e, now) ==
    [e EXCEPT !.count = @ + 1, !.last = now, !.suppressed = e.count + 1 > Limit]

\* Mutant: the entry stays suppressed once it was.
AfterForEver(e, now) ==
    IF e.suppressed THEN e ELSE Counted(Restarted(e, now), now)

After(e, now) ==
    LET f == Rearmed(e, now) IN
    IF f.suppressed THEN f ELSE Counted(Restarted(f, now), now)

(* rule_breaker_should_fire: without an entry and with a full table the     *)
(* rule fires.                                                              *)
Try(p, now) ==
    LET known == br.entry[p].used
        room == br.entries < MaxEntries
        e == After(IF known THEN br.entry[p] ELSE Fresh(now), now)
        open == ~known /\ ~room
        fires == open \/ ~e.suppressed
    IN  /\ now >= br.now
        /\ br' = [now |-> now, tries |-> br.tries + 1,
                  entries |-> IF known \/ open THEN br.entries ELSE br.entries + 1,
                  entry |-> IF open THEN br.entry ELSE [br.entry EXCEPT ![p] = e],
                  fired |-> IF fires THEN [br.fired EXCEPT ![p] = Append(@, now)] ELSE br.fired,
                  tried |-> [br.tried EXCEPT ![p] = now],
                  idle |-> [br.idle EXCEPT ![p] = now - br.tried[p]],
                  passed |-> [br.passed EXCEPT ![p] = fires]]

Init == br = [now |-> 0, tries |-> 0, entries |-> 0, entry |-> [p \in Pairs |-> NoEntry],
              fired |-> [p \in Pairs |-> <<>>], tried |-> [p \in Pairs |-> 0],
              idle |-> [p \in Pairs |-> 0], passed |-> [p \in Pairs |-> TRUE]]

Next == br.tries < MaxTries /\ \E p \in Pairs, now \in 0..MaxTime : Try(p, now)

Spec == Init /\ [][Next]_br

-----------------------------------------------------------------------------
(* A pair that has an entry fires at most twice the limit within the time   *)
(* of a burst, wherever the bursts begin.                                   *)
LoopsAreStopped ==
    \A p \in Pairs : br.entry[p].used =>
        \A i, j \in DOMAIN br.fired[p] :
            i + 2 * Limit <= j => br.fired[p][j] - br.fired[p][i] > Window

(* A call after a quiet time fires, and one is refused only when as many    *)
(* fires as the limit lie within one burst not long ago.                    *)
QuietRearms == \A p \in Pairs : br.idle[p] > Quiet => br.passed[p]
OnlyBurstsAreRefused ==
    \A p \in Pairs : ~br.passed[p] =>
        LET n == Len(br.fired[p]) IN
        /\ n >= Limit
        /\ br.fired[p][n] - br.fired[p][n - Limit + 1] <= Window
        /\ br.tried[p] - br.fired[p][n] <= Window + Quiet
BreakerHolds == LoopsAreStopped /\ QuietRearms /\ OnlyBurstsAreRefused
=============================================================================
