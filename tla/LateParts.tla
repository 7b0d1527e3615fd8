------------------------------ MODULE LateParts ------------------------------
(* The parts that what they have asked for may come too late for: the lists *)
(* of pactl and of /proc, the lines of ripgrep, and the timers.             *)
EXTENDS PartState, Naturals, Sequences

\* Sinks and Processes
CONSTANTS SinkNames, Filters, Heard, OtherRows
CONSTANTS Procs, Foreign, Patterns, Score, Windowed
\* Sessions
CONSTANTS Logs, SessionOf, Subagents, Modified, Label, Terms, Refines, SessionNames, Fixed,
          LinesRead, MaxSessions, MaxHits, MaxReads
\* WorkspaceRipple, FrameRestore and RuleBreaker
CONSTANTS Win, Desks, MaxEvents, MaxTimers
CONSTANTS RulePairs, Limit, Window, Quiet, MaxEntries, MaxTime, MaxTries

SK == INSTANCE Sinks WITH sk <- st, Names <- SinkNames, Matching <- Heard
PR == INSTANCE Processes WITH pr <- st, Others <- Foreign, Filters <- Patterns
SN == INSTANCE Sessions WITH se <- st, Names <- SessionNames, MaxLines <- LinesRead
RP == INSTANCE WorkspaceRipple WITH rp <- st
FR == INSTANCE FrameRestore WITH fr <- st
BR == INSTANCE RuleBreaker WITH br <- st, Pairs <- RulePairs

-----------------------------------------------------------------------------
(* The sessions have an order, and so do the times of their logs.           *)
SessionsFit == SessionOf \in [Logs -> Nat] /\ Modified \in [Logs -> Nat]

(* There are windows.  The limits are such that a quiet time is no shorter  *)
(* than a burst: rules.h has 10 fires, 1000 ms and 2000 ms.                 *)
TimersFit == Win # {} /\ MaxTimers \in Nat
LimitsFit ==
    /\ Limit \in Nat \ {0} /\ MaxEntries \in Nat /\ MaxTime \in Nat
    /\ Window \in Nat /\ Quiet \in Nat /\ Window <= Quiet
=============================================================================
