--------------------------- MODULE LatePartsProofs ---------------------------
(* The ring round a window, the timers that restore layouts, the circuit    *)
(* breaker of the rules, the Sinks, the Proc and the Sessions tab, for      *)
(* every size.  No assumption is made of their constants but those a lemma  *)
(* states.                                                                  *)
EXTENDS LateParts, TabPartsProofs

-----------------------------------------------------------------------------
(* The ring round the window that becomes active. *)

RPEvents == {"active", "desktop"}
RPSomebody == Win \cup {0, 1}
RPState == [on : BOOLEAN, active : RPSomebody, desk : {1} \cup 1..Desks, queue : Seq(RPEvents),
            asked : RPSomebody, state : {"none", "suppress", "highlight"}, timer : BOOLEAN,
            ring : RPSomebody, ringed : RPSomebody, switched : BOOLEAN, stuck : BOOLEAN]

(* A switch by others is in the queue, or waits for its ring, or has had    *)
(* it; the mark of an activation by cofi does not come after it.            *)
InQueue(queue) == \E i \in 1..Len(queue) : queue[i] = "desktop"
RPWaits(s) == s.state = "highlight" => s.timer
RPClear(s) == s.switched /\ ~s.stuck => s.state # "suppress"
RPShown(s) ==
    s.on /\ s.switched /\ ~s.stuck /\ s.active \notin {0, 1} =>
        InQueue(s.queue) \/ s.state = "highlight" \/ s.ringed = s.active
RPGood(s) == s \in RPState /\ RPWaits(s) /\ RPClear(s) /\ RPShown(s)
RPInv == RPGood(st)

LEMMA QueueStays ==
    ASSUME NEW q \in Seq(RPEvents), NEW e \in Seq(RPEvents)
    PROVE  /\ q \o e \in Seq(RPEvents)
           /\ InQueue(q) \/ InQueue(e) => InQueue(q \o e)
<1>1. InQueue(q) => InQueue(q \o e)
  BY DEF InQueue
<1>2. ASSUME InQueue(e) PROVE InQueue(q \o e)
  <2>1. PICK i \in 1..Len(e) : e[i] = "desktop"
    BY <1>2 DEF InQueue
  <2>2. Len(q) + i \in 1..Len(q \o e) /\ (q \o e)[Len(q) + i] = e[i]
    OBVIOUS
  <2> QED
    BY <2>1, <2>2 DEF InQueue
<1> QED
  BY <1>1, <1>2

LEMMA QueueNext ==
    ASSUME NEW q \in Seq(RPEvents), q # <<>>
    PROVE  /\ Tail(q) \in Seq(RPEvents)
           /\ InQueue(q) => Head(q) = "desktop" \/ InQueue(Tail(q))
<1>1. Tail(q) \in Seq(RPEvents) /\ Len(Tail(q)) = Len(q) - 1
  OBVIOUS
<1>2. ASSUME NEW i \in 1..Len(q), q[i] = "desktop", Head(q) # "desktop"
      PROVE  InQueue(Tail(q))
  <2>1. i # 1
    BY <1>2
  <2>2. i - 1 \in 1..Len(Tail(q)) /\ Tail(q)[i - 1] = q[i]
    BY <1>1, <2>1
  <2> QED
    BY <2>2, <1>2 DEF InQueue
<1> QED
  BY <1>1, <1>2 DEF InQueue

(* highlight_window: the ring is that of the window, if any is drawn. *)
LEMMA Ringing ==
    ASSUME NEW s \in RPState, NEW w \in RPSomebody, NEW t \in RP!Ring(s, w)
    PROVE  /\ t \in RPState
           /\ t.on = s.on /\ t.active = s.active /\ t.queue = s.queue /\ t.state = s.state
           /\ t.timer = s.timer /\ t.switched = s.switched /\ t.stuck = s.stuck
           /\ s.on => t.ringed = w
<1>1. CASE s.on
  <2>1. PICK r \in {w, 0} : t = [[s EXCEPT !.ring = 0] EXCEPT !.ring = r, !.ringed = w]
    BY <1>1 DEF RP!Ring, RP!NoRing, RP!Nobody
  <2>2. r \in RPSomebody
    BY DEF RPSomebody
  <2> QED
    BY <2>1, <2>2 DEF RPState
<1>2. CASE ~s.on
  BY <1>2 DEF RP!Ring
<1> QED
  BY <1>1, <1>2 DEF RPState

(* The reports of a change: one of the desktop if it changed. *)
LEMMA Reported ==
    ASSUME NEW s \in RPState, NEW d \in 1..Desks, NEW a \in RPSomebody, st \in RPState,
           NEW t \in RP!Changes(s, d, a)
    PROVE  /\ t \in RPState
           /\ t.on = s.on /\ t.active = a /\ t.state = s.state /\ t.timer = s.timer
           /\ t.switched = s.switched /\ t.stuck = s.stuck /\ t.ringed = s.ringed
           /\ InQueue(s.queue) => InQueue(t.queue)
           /\ d # st.desk => InQueue(t.queue)
<1>1. PICK e \in RP!Reports(d, a) : t = [s EXCEPT !.desk = d, !.active = a, !.queue = @ \o e]
  BY DEF RP!Changes
<1>. DEFINE x == IF d # st.desk THEN <<"desktop">> ELSE <<>>
            y == IF a # st.active THEN <<"active">> ELSE <<>>
<1>2. e \in {x \o y, y \o x}
  BY DEF RP!Reports
<1>3. x \in Seq(RPEvents) /\ y \in Seq(RPEvents)
  <2>1. <<"desktop">> \in Seq(RPEvents) /\ <<"active">> \in Seq(RPEvents)
    BY DEF RPEvents
  <2>2. <<>> \in Seq(RPEvents)
    OBVIOUS
  <2> QED
    BY Zenon, <2>1, <2>2
<1>4. d # st.desk => InQueue(x)
  BY DEF InQueue
<1>. HIDE DEF x, y
<1>5. e \in Seq(RPEvents) /\ (d # st.desk => InQueue(e))
  <2>1. /\ x \o y \in Seq(RPEvents) /\ (InQueue(x) => InQueue(x \o y))
        /\ y \o x \in Seq(RPEvents) /\ (InQueue(x) => InQueue(y \o x))
    BY <1>3, QueueStays
  <2> QED
    BY <2>1, <1>2, <1>4
<1>6. s.queue \in Seq(RPEvents)
  BY DEF RPState
<1>7. s.queue \o e \in Seq(RPEvents) /\ (InQueue(s.queue) \/ InQueue(e) => InQueue(s.queue \o e))
  BY <1>5, <1>6, QueueStays
<1>8. /\ t \in RPState
      /\ t.on = s.on /\ t.active = a /\ t.state = s.state /\ t.timer = s.timer
      /\ t.switched = s.switched /\ t.stuck = s.stuck /\ t.ringed = s.ringed
      /\ t.queue = s.queue \o e
  BY <1>1, <1>7 DEF RPState
<1> QED
  BY <1>5, <1>7, <1>8

(* No handler forgets a ring that waits. *)
LEMMA RPNext == ASSUME RPGood(st), RP!Next PROVE RPGood(st')
<1>. USE DEF RPGood
<1>a. st \in RPState
  OBVIOUS
<1>b. st.queue \in Seq(RPEvents) /\ st.active \in RPSomebody /\ st.asked \in RPSomebody
  BY DEF RPState
<1>1. ASSUME NEW desk \in 1..Desks, NEW active \in Win \cup RP!ByOthers, RP!OthersSwitch(desk, active)
      PROVE  RPGood(st')
  <2>. DEFINE s == [st EXCEPT !.switched = desk # st.desk, !.stuck = st.state = "suppress"]
  <2>1. st' \in RP!Changes(s, desk, active)
    BY <1>1 DEF RP!OthersSwitch
  <2>2. s \in RPState
    BY DEF RPState
  <2>3. active \in RPSomebody
    BY DEF RP!ByOthers, RP!Nobody, RP!Own, RPSomebody
  <2>4. /\ s.state = st.state /\ s.timer = st.timer /\ s.switched = (desk # st.desk)
        /\ s.stuck = (st.state = "suppress")
    BY DEF RPState
  <2>. HIDE DEF s
  <2>5. /\ st' \in RPState
        /\ st'.on = s.on /\ st'.active = active /\ st'.state = s.state /\ st'.timer = s.timer
        /\ st'.switched = s.switched /\ st'.stuck = s.stuck /\ st'.ringed = s.ringed
        /\ desk # st.desk => InQueue(st'.queue)
    BY <2>1, <2>2, <2>3, <1>a, Reported
  <2>6. RPWaits(st')
    BY <2>4, <2>5 DEF RPWaits
  <2>7. RPClear(st')
    BY <2>4, <2>5 DEF RPClear
  <2>8. RPShown(st')
    BY <2>4, <2>5 DEF RPShown
  <2> QED
    BY <2>5, <2>6, <2>7, <2>8
<1>2. ASSUME NEW w \in Win, RP!CofiActivates(w) PROVE RPGood(st')
  <2>. DEFINE s == [st EXCEPT !.state = "suppress", !.asked = w, !.switched = FALSE]
  <2>1. st' \in RP!Ring(s, w)
    BY <1>2 DEF RP!CofiActivates
  <2>2. w \in RPSomebody
    BY DEF RPSomebody
  <2>3. s \in RPState /\ s.state = "suppress" /\ ~s.switched
    BY <2>2 DEF RPState
  <2>. HIDE DEF s
  <2>4. st' \in RPState /\ st'.state = s.state /\ st'.switched = s.switched
    BY <2>1, <2>2, <2>3, Ringing
  <2> QED
    BY <2>3, <2>4 DEF RPWaits, RPClear, RPShown
<1>3. ASSUME NEW desk \in 1..Desks, RP!Granted(desk) PROVE RPGood(st')
  <2>. DEFINE s == [st EXCEPT !.asked = RP!Nobody, !.switched = FALSE]
  <2>1. st' \in RP!Changes(s, desk, st.asked)
    BY <1>3 DEF RP!Granted
  <2>2. RP!Nobody \in RPSomebody
    BY DEF RPSomebody, RP!Nobody
  <2>3. s \in RPState /\ s.state = st.state /\ s.timer = st.timer /\ ~s.switched
    BY <2>2 DEF RPState
  <2>. HIDE DEF s
  <2>4. st' \in RPState /\ st'.state = s.state /\ st'.timer = s.timer /\ st'.switched = s.switched
    BY <2>1, <2>3, <1>a, <1>b, Reported
  <2> QED
    BY <2>3, <2>4 DEF RPWaits, RPClear, RPShown
<1>4. ASSUME RP!ActiveChanged PROVE RPGood(st')
  <2>. DEFINE next == [st EXCEPT !.queue = Tail(@)]
              done == RP!NoTimer([next EXCEPT !.state = "none"])
  <2>1. /\ st.queue # <<>> /\ Head(st.queue) = "active"
        /\ IF st.state = "none" \/ st.active \in RP!ByOthers THEN st' = next
           ELSE IF st.state = "highlight" THEN st' \in RP!Ring(done, st.active)
           ELSE st' = done
    BY <1>4 DEF RP!ActiveChanged
  <2>2. Tail(st.queue) \in Seq(RPEvents) /\ (InQueue(st.queue) => InQueue(Tail(st.queue)))
    BY <1>b, <2>1, QueueNext
  <2>3. /\ next \in RPState /\ next.queue = Tail(st.queue)
        /\ next.on = st.on /\ next.active = st.active /\ next.state = st.state /\ next.timer = st.timer
        /\ next.switched = st.switched /\ next.stuck = st.stuck /\ next.ringed = st.ringed
    BY <2>2 DEF RPState
  <2>4. /\ done \in RPState /\ done.queue = Tail(st.queue) /\ done.state = "none"
        /\ done.on = st.on /\ done.active = st.active
        /\ done.switched = st.switched /\ done.stuck = st.stuck /\ done.ringed = st.ringed
    BY <2>2 DEF RPState, RP!NoTimer
  <2>. HIDE DEF next, done
  <2>5. CASE st' = next
    BY <2>5, <2>2, <2>3 DEF RPWaits, RPClear, RPShown
  <2>6. ASSUME st.state = "highlight", st' \in RP!Ring(done, st.active) PROVE RPGood(st')
    <3>1. /\ st' \in RPState
          /\ st'.on = done.on /\ st'.active = done.active /\ st'.state = done.state
          /\ st'.switched = done.switched /\ st'.stuck = done.stuck
          /\ done.on => st'.ringed = st.active
      BY <2>6, <2>4, <1>b, Ringing
    <3> QED
      BY <3>1, <2>4 DEF RPWaits, RPClear, RPShown
  <2>7. ASSUME st.state = "suppress", st' = done PROVE RPGood(st')
    BY <2>7, <2>4 DEF RPWaits, RPClear, RPShown
  <2>8. st.state \in {"none", "suppress", "highlight"}
    BY DEF RPState
  <2> QED
    BY <2>1, <2>5, <2>6, <2>7, <2>8
<1>5. ASSUME RP!DesktopChanged PROVE RPGood(st')
  <2>. DEFINE next == [st EXCEPT !.queue = Tail(@), !.timer = TRUE]
              lit == RP!NoRing([next EXCEPT !.state = "highlight"])
  <2>1. /\ st.queue # <<>>
        /\ st' = IF st.state = "suppress" THEN next ELSE lit
    BY <1>5 DEF RP!DesktopChanged
  <2>2. Tail(st.queue) \in Seq(RPEvents)
    BY <1>b, <2>1, QueueNext
  <2>3. /\ next \in RPState /\ next.timer /\ next.state = st.state
        /\ next.switched = st.switched /\ next.stuck = st.stuck
    BY <2>2 DEF RPState
  <2>4. lit \in RPState /\ lit.timer /\ lit.state = "highlight"
    BY <2>2 DEF RPState, RP!NoRing, RP!Nobody, RPSomebody
  <2>. HIDE DEF next, lit
  <2>5. CASE st.state = "suppress"
    BY <2>5, <2>1, <2>3 DEF RPWaits, RPClear, RPShown
  <2>6. CASE st.state # "suppress"
    BY <2>6, <2>1, <2>4 DEF RPWaits, RPClear, RPShown
  <2> QED
    BY <2>5, <2>6
<1>6. ASSUME RP!Timeout PROVE RPGood(st')
  <2>. DEFINE done == RP!NoTimer([st EXCEPT !.state = "none"])
  <2>1. IF st.state = "highlight" /\ st.active \notin RP!ByOthers
        THEN st' \in RP!Ring(done, st.active) ELSE st' = done
    BY <1>6 DEF RP!Timeout
  <2>2. /\ done \in RPState /\ done.queue = st.queue /\ done.state = "none"
        /\ done.on = st.on /\ done.active = st.active
        /\ done.switched = st.switched /\ done.stuck = st.stuck /\ done.ringed = st.ringed
    BY DEF RPState, RP!NoTimer
  <2>. HIDE DEF done
  <2>3. ASSUME st' \in RP!Ring(done, st.active) PROVE RPGood(st')
    <3>1. /\ st' \in RPState
          /\ st'.on = done.on /\ st'.active = done.active /\ st'.state = done.state
          /\ st'.switched = done.switched /\ st'.stuck = done.stuck
          /\ done.on => st'.ringed = st.active
      BY <2>3, <2>2, <1>b, Ringing
    <3> QED
      BY <3>1, <2>2 DEF RPWaits, RPClear, RPShown
  <2>4. ASSUME st' = done, ~(st.state = "highlight" /\ st.active \notin RP!ByOthers) PROVE RPGood(st')
    <3>1. RP!ByOthers = {0, 1}
      BY DEF RP!ByOthers, RP!Nobody, RP!Own
    <3> QED
      BY <2>4, <2>2, <3>1 DEF RPWaits, RPClear, RPShown
  <2> QED
    BY <2>1, <2>3, <2>4
<1>7. ASSUME RP!RingEnds PROVE RPGood(st')
  <2>1. st' = [st EXCEPT !.ring = 0]
    BY <1>7 DEF RP!RingEnds, RP!NoRing, RP!Nobody
  <2>2. /\ st' \in RPState /\ st'.queue = st.queue /\ st'.state = st.state /\ st'.timer = st.timer
        /\ st'.on = st.on /\ st'.active = st.active
        /\ st'.switched = st.switched /\ st'.stuck = st.stuck /\ st'.ringed = st.ringed
    BY <2>1 DEF RPState, RPSomebody
  <2> QED
    BY <2>2 DEF RPWaits, RPClear, RPShown
<1> QED
  BY <1>1, <1>2, <1>3, <1>4, <1>5, <1>6, <1>7 DEF RP!Next

(* A switch of workspace by others is shown: whatever the order of the two  *)
(* reports and however late the timer, the ring that waits keeps its timer, *)
(* and when all is quiet the last ring was that of the active window.       *)
LEMMA SwitchesAreShown == RP!Spec => []RP!SwitchIsShown
<1>1. ASSUME RP!Init PROVE RPInv
  <2>1. PICK on \in BOOLEAN :
            st = [on |-> on, active |-> 0, desk |-> 1, queue |-> <<>>, asked |-> 0,
                  state |-> "none", timer |-> FALSE, ring |-> 0,
                  ringed |-> 0, switched |-> FALSE, stuck |-> FALSE]
    BY <1>1 DEF RP!Init, RP!Nobody
  <2>2. st \in RPState
    BY <2>1 DEF RPState, RPSomebody
  <2> QED
    BY <2>1, <2>2 DEF RPInv, RPGood, RPWaits, RPClear, RPShown
<1>2. ASSUME RPInv, [RP!Next]_st PROVE RPInv'
  BY <1>2, RPNext DEF RPInv
<1>3. ASSUME RPInv PROVE RP!SwitchIsShown
  <2>1. st.state = "highlight" => st.timer
    BY <1>3 DEF RPInv, RPGood, RPWaits
  <2>2. ~InQueue(<<>>)
    BY DEF InQueue
  <2>3. ASSUME st.on, st.switched, st.queue = <<>>, ~st.timer, st.active \notin RP!ByOthers, ~st.stuck
        PROVE  st.ringed = st.active
    <3>1. RP!ByOthers = {0, 1}
      BY DEF RP!ByOthers, RP!Nobody, RP!Own
    <3> QED
      BY <2>1, <2>2, <2>3, <3>1, <1>3 DEF RPInv, RPGood, RPShown
  <2> QED
    BY <2>1, <2>3 DEF RP!SwitchIsShown
<1> QED
  BY <1>1, <1>2, <1>3, PTL DEF RP!Spec

-----------------------------------------------------------------------------
(* The timers that restore layouts: none is lost, none is left over, and    *)
(* the last one counts.                                                     *)

-----------------------------------------------------------------------------
(* The invariant. *)

FRTypeOK ==
    /\ st \in [listed : SUBSET Win, table : [Win -> Nat], started : Nat,
               windowOf : [1..MaxTimers -> Win], sources : SUBSET Nat, freed : SUBSET Nat,
               running : BOOLEAN, restored : SUBSET Nat, dropped : SUBSET Nat]
    /\ st.started <= MaxTimers

(* A context is freed or belongs to a timer, and never both.                *)
FRContextsFit == st.sources \cap st.freed = {} /\ st.sources \cup st.freed = FR!Live

(* A timer that may still fire is the one in the table for its window.      *)
FRCurrent == \A n \in st.sources : st.table[st.windowOf[n]] = n

(* What the table names is a timer of that window that has not fired.       *)
FRTablePoints ==
    \A w \in Win : st.table[w] # FR!None =>
        st.table[w] \in st.sources /\ st.windowOf[st.table[w]] = w

(* The last timer of a window waits, or its window was seen to.             *)
FRSeenTo(n) == n \in st.sources \cup st.restored \cup st.dropped
FRLastOf(w, n) == n \in FR!TimersOf(w) /\ \A m \in FR!TimersOf(w) : m <= n
FRLastFits(w) == FR!TimersOf(w) # {} => \E n : FRLastOf(w, n) /\ (st.running => FRSeenTo(n))

FRStopped == st.running \/ st.sources = {}

FRIInv == FRTypeOK /\ FRContextsFit /\ FRCurrent /\ FRTablePoints /\ (\A w \in Win : FRLastFits(w)) /\ FRStopped

-----------------------------------------------------------------------------
(* The steps. *)

(* A step that starts no timer and forgets none that was seen to keeps the  *)
(* last one of each window.                                                 *)
LEMMA FRLastKept ==
    ASSUME NEW w \in Win, FRLastFits(w),
           st'.started = st.started, st'.windowOf = st.windowOf,
           st'.running => st.running,
           st'.running => \A n \in FR!Live : FRSeenTo(n) => FRSeenTo(n)'
    PROVE  FRLastFits(w)'
<1>1. FR!TimersOf(w)' = FR!TimersOf(w) /\ FR!TimersOf(w) \subseteq FR!Live
  BY DEF FR!TimersOf, FR!Live
<1> QED BY <1>1 DEF FRLastFits, FRLastOf

(* A new timer is the last one of its window; the one before it is freed,   *)
(* and no longer a source.                                                  *)
LEMMA FRExtentsStay ==
    ASSUME TimersFit, FRIInv, NEW w \in Win, FR!FrameExtents(w)
    PROVE  FRIInv'
<1>0. FRTypeOK /\ FRContextsFit /\ FRCurrent /\ FRTablePoints /\ FRStopped /\ st.running
  BY DEF FRIInv, FR!FrameExtents
<1>1. CASE st' = st
  BY <1>1 DEF FRIInv, FRTypeOK, FRContextsFit, FRCurrent, FRTablePoints, FRLastFits, FRLastOf,
                FRSeenTo, FR!TimersOf, FR!Live, FRStopped
<1>2. CASE FR!Listed(w)
  <2> DEFINE old == {st.table[w]} \ {FR!None}
             new == st.started + 1
  <2>1. /\ new \in 1..MaxTimers /\ new \notin FR!Live /\ new # FR!None /\ new \in Nat
        /\ 1..new = FR!Live \cup {new} /\ old \subseteq Nat
    BY <1>0, <1>2 DEF FR!FrameExtents, FRTypeOK, TimersFit, FR!Live, FR!None
  <2>2. st' = [st EXCEPT !.started = new, !.windowOf[new] = w, !.table[w] = new,
                         !.sources = (@ \ old) \cup {new}, !.freed = @ \cup old]
    BY <1>2 DEF FR!FrameExtents
  <2> HIDE DEF new, old
  <2>3. /\ st'.started = new /\ st'.running = st.running
        /\ st'.restored = st.restored /\ st'.dropped = st.dropped
        /\ st'.sources = (st.sources \ old) \cup {new} /\ st'.freed = st.freed \cup old
    BY <1>0, <2>1, <2>2 DEF FRTypeOK
  <2>4. /\ st'.windowOf = [st.windowOf EXCEPT ![new] = w]
        /\ st'.table = [st.table EXCEPT ![w] = new]
    BY <1>0, <2>1, <2>2 DEF FRTypeOK
  <2>5. FRTypeOK'
    <3>1. st'.windowOf \in [1..MaxTimers -> Win] /\ st'.table \in [Win -> Nat]
      BY <1>0, <2>1, <2>4 DEF FRTypeOK
    <3>2. st'.sources \in SUBSET Nat /\ st'.freed \in SUBSET Nat
      BY <1>0, <2>1, <2>3 DEF FRTypeOK
    <3>3. /\ st' \in [listed : SUBSET Win, table : {st'.table}, started : {st'.started},
                      windowOf : {st'.windowOf}, sources : {st'.sources}, freed : {st'.freed},
                      running : BOOLEAN, restored : SUBSET Nat, dropped : SUBSET Nat]
      BY <1>0, <2>2 DEF FRTypeOK
    <3>4. st'.started \in Nat /\ st'.started <= MaxTimers
      BY <2>1, <2>3 DEF TimersFit
    <3> QED BY <3>1, <3>2, <3>3, <3>4 DEF FRTypeOK
  <2>6. FR!Live' = FR!Live \cup {new} /\ st.sources \subseteq FR!Live /\ FR!Live \subseteq 1..MaxTimers
    <3>1. FR!Live' = 1..new
      BY <2>3 DEF FR!Live
    <3>2. FR!Live \subseteq 1..MaxTimers
      BY <1>0 DEF FR!Live, FRTypeOK, TimersFit
    <3>3. st.sources \subseteq FR!Live
      BY <1>0 DEF FRContextsFit
    <3> QED BY <2>1, <3>1, <3>2, <3>3
  <2>7. /\ \A n \in FR!Live : st.windowOf[n] \in Win /\ st'.windowOf[n] = st.windowOf[n]
        /\ st'.windowOf[new] = w
    <3>1. st.windowOf \in [1..MaxTimers -> Win]
      BY <1>0 DEF FRTypeOK
    <3> QED BY <2>1, <2>4, <2>6, <3>1
  <2>8. /\ st'.table[w] = new /\ \A v \in Win : v # w => st'.table[v] = st.table[v]
    BY <1>0, <2>4 DEF FRTypeOK
  <2>9. st.table[w] = FR!None \/ st.table[w] \in st.sources
    BY <1>0 DEF FRTablePoints
  <2>10. FRContextsFit'
    BY <1>0, <2>1, <2>3, <2>6, <2>9 DEF FRContextsFit, old
  <2>11. FRCurrent'
    <3> SUFFICES ASSUME NEW n \in st'.sources, n # new
                 PROVE  st'.table[st'.windowOf[n]] = n
      BY <2>7, <2>8 DEF FRCurrent
    <3>1. n \in st.sources /\ n \notin old /\ n \in FR!Live /\ n # FR!None
      BY <2>3, <2>6 DEF FR!Live, FR!None
    <3>2. st.table[st.windowOf[n]] = n /\ st.windowOf[n] # w
      BY <1>0, <3>1 DEF FRCurrent, old
    <3> QED BY <2>7, <2>8, <3>1, <3>2
  <2>12. FRTablePoints'
    <3> SUFFICES ASSUME NEW v \in Win, st'.table[v] # FR!None
                 PROVE  st'.table[v] \in st'.sources /\ st'.windowOf[st'.table[v]] = v
      BY DEF FRTablePoints
    <3>1. CASE v = w
      BY <2>3, <2>7, <2>8, <3>1
    <3>2. CASE v # w
      <4>1. st.table[v] \in st.sources /\ st.windowOf[st.table[v]] = v /\ st'.table[v] = st.table[v]
        BY <1>0, <2>8, <3>2 DEF FRTablePoints
      <4>2. st.table[v] # st.table[w]
        BY <1>0, <2>9, <3>2, <4>1 DEF FRTablePoints
      <4>3. st'.table[v] \in st'.sources
        BY <2>3, <4>1, <4>2 DEF old
      <4> QED BY <2>6, <2>7, <4>1, <4>3
    <3> QED BY <3>1, <3>2
  <2>13. FRStopped'
    BY <1>0, <2>3 DEF FRStopped
  <2>14. ASSUME NEW v \in Win PROVE FRLastFits(v)'
    <3>1. CASE v = w
      <4>1. new \in FR!TimersOf(w)' /\ FR!TimersOf(w)' \subseteq FR!Live \cup {new}
        BY <2>6, <2>7 DEF FR!TimersOf
      <4>2. \A m \in FR!Live \cup {new} : m <= new
        BY <2>1
      <4> PICK k : k = new
        OBVIOUS
      <4>3. FRLastOf(w, k)' /\ FRSeenTo(k)'
        BY <2>3, <4>1, <4>2 DEF FRLastOf, FRSeenTo
      <4> QED BY <3>1, <4>3 DEF FRLastFits
    <3>2. CASE v # w
      <4>1. FR!TimersOf(v)' = FR!TimersOf(v)
        BY <2>6, <2>7, <3>2 DEF FR!TimersOf
      <4>2. ASSUME NEW n \in FR!TimersOf(v), FRSeenTo(n) PROVE FRSeenTo(n)'
        <5>1. n \in FR!Live /\ st.windowOf[n] # w /\ n # FR!None
          BY <3>2 DEF FR!TimersOf, FR!Live, FR!None
        <5>2. n \notin old
          BY <1>0, <2>9, <5>1 DEF FRTablePoints, old
        <5> QED BY <2>3, <4>2, <5>2 DEF FRSeenTo
      <4>3. FRLastFits(v)
        BY DEF FRIInv
      <4>4. ASSUME FR!TimersOf(v) # {} PROVE \E n : (FRLastOf(v, n) /\ (st.running => FRSeenTo(n)))'
        <5>1. PICK n : FRLastOf(v, n) /\ (st.running => FRSeenTo(n))
          BY <4>3, <4>4 DEF FRLastFits
        <5>2. FRLastOf(v, n)' /\ (st.running => FRSeenTo(n))'
          BY <2>3, <4>1, <4>2, <5>1 DEF FRLastOf
        <5> QED BY <5>2
      <4> QED BY <4>1, <4>4 DEF FRLastFits
    <3> QED BY <3>1, <3>2
  <2> QED BY <2>5, <2>10, <2>11, <2>12, <2>13, <2>14 DEF FRIInv
<1> QED BY <1>1, <1>2 DEF FR!FrameExtents

(* A timer that fires is freed, and was seen to if it is the current one.   *)
LEMMA FRFiresStay ==
    ASSUME TimersFit, FRIInv, NEW n \in st.sources, FR!Fires(n)
    PROVE  FRIInv'
<1>0. FRTypeOK /\ FRContextsFit /\ FRCurrent /\ FRTablePoints /\ FRStopped
  BY DEF FRIInv
<1> DEFINE w == st.windowOf[n]
<1>1. n \in FR!Live /\ n \in Nat /\ n # FR!None /\ w \in Win /\ st.table[w] = n
  <2>1. n \in FR!Live
    BY <1>0 DEF FRContextsFit
  <2>2. n \in 1..MaxTimers
    BY <1>0, <2>1 DEF FR!Live, FRTypeOK, TimersFit
  <2>3. n \in Nat /\ n # FR!None
    BY <2>2 DEF FR!None
  <2>4. w \in Win
    BY <1>0, <2>2 DEF FRTypeOK
  <2>5. st.table[w] = n
    BY <1>0 DEF FRCurrent
  <2> QED BY <2>1, <2>3, <2>4, <2>5
<1>2. \/ st' = [st EXCEPT !.sources = @ \ {n}, !.freed = @ \cup {n},
                          !.table[w] = FR!None, !.restored = @ \cup {n}]
      \/ st' = [st EXCEPT !.sources = @ \ {n}, !.freed = @ \cup {n},
                          !.table[w] = FR!None, !.dropped = @ \cup {n}]
  BY <1>0, <1>1 DEF FR!Fires, FRTypeOK
<1> HIDE DEF w
<1>3. /\ st'.sources = st.sources \ {n} /\ st'.freed = st.freed \cup {n}
      /\ st'.started = st.started /\ st'.windowOf = st.windowOf /\ st'.running = st.running
  BY <1>0, <1>2 DEF FRTypeOK
<1>4. st'.table = [st.table EXCEPT ![w] = FR!None]
  BY <1>0, <1>2 DEF FRTypeOK
<1>5. /\ st'.restored \cup st'.dropped = st.restored \cup st.dropped \cup {n}
      /\ st'.restored \in SUBSET Nat /\ st'.dropped \in SUBSET Nat
  <2>1. st.restored \in SUBSET Nat /\ st.dropped \in SUBSET Nat
    BY <1>0 DEF FRTypeOK
  <2>2. \/ st'.restored = st.restored \cup {n} /\ st'.dropped = st.dropped
        \/ st'.restored = st.restored /\ st'.dropped = st.dropped \cup {n}
    BY <1>0, <1>2 DEF FRTypeOK
  <2> QED BY <1>1, <2>1, <2>2
<1>6. FRTypeOK'
  <2>1. st'.table \in [Win -> Nat] /\ st'.sources \in SUBSET Nat /\ st'.freed \in SUBSET Nat
    BY <1>0, <1>1, <1>3, <1>4 DEF FRTypeOK, FR!None
  <2>2. st' \in [listed : SUBSET Win, table : {st'.table}, started : Nat,
                 windowOf : [1..MaxTimers -> Win], sources : {st'.sources}, freed : {st'.freed},
                 running : BOOLEAN, restored : {st'.restored}, dropped : {st'.dropped}]
    BY <1>0, <1>2 DEF FRTypeOK
  <2>3. st'.started <= MaxTimers
    BY <1>0, <1>3 DEF FRTypeOK
  <2> QED BY <1>5, <2>1, <2>2, <2>3 DEF FRTypeOK
<1>7. FRContextsFit'
  BY <1>0, <1>1, <1>3 DEF FRContextsFit, FR!Live
<1>8. st'.table[w] = FR!None /\ \A v \in Win : v # w => st'.table[v] = st.table[v]
  BY <1>0, <1>1, <1>4 DEF FRTypeOK
<1>9. FRCurrent'
  <2> SUFFICES ASSUME NEW m \in st'.sources PROVE st'.table[st'.windowOf[m]] = m
    BY DEF FRCurrent
  <2>1. m \in st.sources /\ m # n /\ m \in 1..MaxTimers
    BY <1>0, <1>3 DEF FRContextsFit, FR!Live, FRTypeOK, TimersFit
  <2>2. st.table[st.windowOf[m]] = m /\ st.windowOf[m] \in Win
    BY <1>0, <2>1 DEF FRCurrent, FRTypeOK
  <2>3. st.windowOf[m] # w
    BY <1>1, <2>1, <2>2
  <2> QED BY <1>3, <1>8, <2>2, <2>3
<1>10. FRTablePoints'
  <2> SUFFICES ASSUME NEW v \in Win, st'.table[v] # FR!None
               PROVE  st'.table[v] \in st'.sources /\ st'.windowOf[st'.table[v]] = v
    BY DEF FRTablePoints
  <2>1. v # w /\ st'.table[v] = st.table[v]
    BY <1>8
  <2>2. st.table[v] \in st.sources /\ st.windowOf[st.table[v]] = v
    BY <1>0, <2>1 DEF FRTablePoints
  <2>3. st.table[v] # n
    BY <2>1, <2>2 DEF w
  <2> QED BY <1>3, <2>1, <2>2, <2>3
<1>11. FRStopped'
  BY <1>0, <1>3 DEF FRStopped
<1>12. \A m \in FR!Live : FRSeenTo(m) => FRSeenTo(m)'
  BY <1>3, <1>5 DEF FRSeenTo
<1>13. ASSUME NEW v \in Win PROVE FRLastFits(v)'
  BY <1>3, <1>12, FRLastKept DEF FRIInv
<1> QED BY <1>6, <1>7, <1>9, <1>10, <1>11, <1>13 DEF FRIInv

(* The windows that are listed only decide what a timer does.               *)
LEMMA FRListStays ==
    ASSUME TimersFit, FRIInv, NEW S \in SUBSET Win, FR!ListChanges(S)
    PROVE  FRIInv'
<1>1. /\ st'.sources = st.sources /\ st'.freed = st.freed /\ st'.table = st.table
      /\ st'.started = st.started /\ st'.windowOf = st.windowOf /\ st'.running = st.running
      /\ st'.restored = st.restored /\ st'.dropped = st.dropped
  <2>1. FRTypeOK /\ st' = [st EXCEPT !.listed = S]
    BY DEF FR!ListChanges, FRIInv
  <2> QED BY <2>1 DEF FRTypeOK
<1>2. FRTypeOK'
  BY DEF FR!ListChanges, FRIInv, FRTypeOK
<1>3. FRContextsFit' /\ FRCurrent' /\ FRTablePoints' /\ FRStopped'
  BY <1>1 DEF FRIInv, FRContextsFit, FR!Live, FRCurrent, FRTablePoints, FRStopped
<1>4. ASSUME NEW v \in Win PROVE FRLastFits(v)'
  BY <1>1, FRLastKept DEF FRIInv, FRSeenTo
<1> QED BY <1>2, <1>3, <1>4 DEF FRIInv

(* The cleanup removes the timers of the table, which are all there are.    *)
LEMMA FRCleanupStays ==
    ASSUME TimersFit, FRIInv, FR!Cleanup
    PROVE  FRIInv'
<1>0. FRTypeOK /\ FRContextsFit /\ FRCurrent /\ FRTablePoints
  BY DEF FRIInv
<1> DEFINE pending == {st.table[w] : w \in Win} \ {FR!None}
<1>1. st' = [st EXCEPT !.running = FALSE, !.sources = @ \ pending, !.freed = @ \cup pending,
                       !.table = [w \in Win |-> FR!None]]
  BY DEF FR!Cleanup
<1>2. pending = st.sources
  <2>1. ASSUME NEW n \in st.sources PROVE n \in pending
    <3>1. n \in FR!Live
      BY <1>0 DEF FRContextsFit
    <3>2. n \in 1..MaxTimers /\ n # FR!None
      BY <1>0, <3>1 DEF FR!Live, FRTypeOK, TimersFit, FR!None
    <3>3. st.windowOf[n] \in Win /\ st.table[st.windowOf[n]] = n
      BY <1>0, <3>2 DEF FRCurrent, FRTypeOK
    <3> QED BY <3>2, <3>3
  <2>2. ASSUME NEW n \in pending PROVE n \in st.sources
    BY <1>0 DEF FRTablePoints
  <2> QED BY <2>1, <2>2
<1> HIDE DEF pending
<1>3. /\ st'.running = FALSE /\ st'.sources = {} /\ st'.freed = st.freed \cup st.sources
      /\ st'.table = [w \in Win |-> FR!None]
      /\ st'.started = st.started /\ st'.windowOf = st.windowOf
  BY <1>0, <1>1, <1>2 DEF FRTypeOK
<1>4. FRTypeOK'
  <2>1. st'.table \in [Win -> Nat] /\ st'.sources \in SUBSET Nat /\ st'.freed \in SUBSET Nat
    BY <1>0, <1>3 DEF FRTypeOK, FR!None
  <2>2. st' \in [listed : SUBSET Win, table : {st'.table}, started : Nat,
                 windowOf : [1..MaxTimers -> Win], sources : {st'.sources}, freed : {st'.freed},
                 running : BOOLEAN, restored : SUBSET Nat, dropped : SUBSET Nat]
    BY <1>0, <1>1 DEF FRTypeOK
  <2> QED BY <1>0, <1>3, <2>1, <2>2 DEF FRTypeOK
<1>5. FRContextsFit' /\ FRCurrent' /\ FRTablePoints' /\ FRStopped'
  BY <1>0, <1>3 DEF FRContextsFit, FR!Live, FRCurrent, FRTablePoints, FRStopped
<1>6. ASSUME NEW v \in Win PROVE FRLastFits(v)'
  BY <1>3, FRLastKept DEF FRIInv
<1> QED BY <1>4, <1>5, <1>6 DEF FRIInv

-----------------------------------------------------------------------------
(* The theorems. *)

(* The invariant of the timers: a context is freed or belongs to a timer,   *)
(* the table and the timers name one another, and the last timer of a       *)
(* window is the one that counts (handle_net_frame_extents_property,        *)
(* deferred_restore_cb, cleanup_frame_extents_restore_timeouts).            *)
LEMMA FRInductive == ASSUME TimersFit PROVE FR!Spec => []FRIInv
<1>1. FR!Init => FRIInv
  <2> SUFFICES ASSUME FR!Init PROVE FRIInv
    OBVIOUS
  <2>1. /\ st.started = 0 /\ st.sources = {} /\ st.freed = {} /\ st.running = TRUE
        /\ st.table = [w \in Win |-> FR!None]
    BY DEF FR!Init
  <2>2. st.windowOf \in [1..MaxTimers -> Win]
    BY DEF FR!Init, TimersFit
  <2>3. FRTypeOK
    BY <2>1, <2>2 DEF FR!Init, FRTypeOK, TimersFit, FR!None
  <2>4. FR!Live = {}
    BY <2>1 DEF FR!Live
  <2>5. FRContextsFit /\ FRCurrent /\ FRTablePoints /\ FRStopped
    BY <2>1, <2>4 DEF FRContextsFit, FRCurrent, FRTablePoints, FRStopped
  <2>6. \A w \in Win : FRLastFits(w)
    BY <2>4 DEF FRLastFits, FR!TimersOf
  <2> QED BY <2>3, <2>5, <2>6 DEF FRIInv
<1>2. FRIInv /\ [FR!Next]_st => FRIInv'
  <2> SUFFICES ASSUME FRIInv, [FR!Next]_st PROVE FRIInv'
    OBVIOUS
  <2>1. CASE st' = st
    BY <2>1 DEF FRIInv, FRTypeOK, FRContextsFit, FRCurrent, FRTablePoints, FRLastFits, FRLastOf, FRSeenTo,
                FR!TimersOf, FR!Live, FRStopped
  <2> QED BY <2>1, FRExtentsStay, FRFiresStay, FRListStays, FRCleanupStays DEF FR!Next
<1> QED BY <1>1, <1>2, PTL DEF FR!Spec

(* Whatever fires, comes and goes in between, for any windows: no timer     *)
(* holds a freed context, no context is lost, a window has at most one      *)
(* timer, its last change is waited for or was seen to, and the cleanup     *)
(* leaves no timer (frame_extents_restore.c).                               *)
LEMMA RestoresHold == ASSUME TimersFit PROVE FR!Spec => []FR!RestoresLast
<1>1. ASSUME FRIInv PROVE FR!RestoresLast
  <2>0. FRTypeOK /\ FRContextsFit /\ FRCurrent /\ FRStopped
    BY <1>1 DEF FRIInv
  <2>1. ASSUME NEW w \in Win PROVE Cardinality(FR!TimersOf(w) \cap st.sources) <= 1
    <3>1. (FR!TimersOf(w) \cap st.sources) \in SUBSET {st.table[w]}
      BY <2>0 DEF FR!TimersOf, FRCurrent
    <3>2. IsFiniteSet({st.table[w]}) /\ Cardinality({st.table[w]}) = 1
      BY FS_Singleton
    <3> QED BY <3>1, <3>2, FS_Subset
  <2>2. ASSUME st.running, NEW w \in Win, FR!TimersOf(w) # {}
        PROVE  FR!Max(FR!TimersOf(w)) \in st.sources \cup st.restored \cup st.dropped
    <3>1. PICK n : FRLastOf(w, n) /\ FRSeenTo(n)
      BY <1>1, <2>2 DEF FRIInv, FRLastFits
    <3>2. FR!TimersOf(w) \subseteq Nat
      BY <2>0 DEF FR!TimersOf, FR!Live, FRTypeOK
    <3>3. n \in FR!TimersOf(w) /\ \A m \in FR!TimersOf(w) : n >= m
      BY <3>1, <3>2 DEF FRLastOf
    <3>4. FR!Max(FR!TimersOf(w)) \in FR!TimersOf(w) /\ \A m \in FR!TimersOf(w) : FR!Max(FR!TimersOf(w)) >= m
      BY <3>3 DEF FR!Max
    <3>5. FR!Max(FR!TimersOf(w)) = n
      BY <3>2, <3>3, <3>4
    <3> QED BY <3>1, <3>5 DEF FRSeenTo
  <2>3. \A w \in Win : FR!Cardinality(FR!TimersOf(w) \cap st.sources) <= 1
    BY Zenon, <2>1 DEF FR!Cardinality, Cardinality
  <2> QED BY <2>0, <2>2, <2>3 DEF FR!RestoresLast, FRContextsFit, FRStopped
<1> QED BY <1>1, FRInductive, PTL

-----------------------------------------------------------------------------
(* The circuit breaker of the rules.                                        *)

-----------------------------------------------------------------------------
(* The invariant. *)

BREntry == [used : BOOLEAN, start : Nat, count : Nat, last : Nat, suppressed : BOOLEAN]

BRTypeOK ==
    st \in [now : Nat, tries : Nat, entries : Nat, entry : [RulePairs -> BREntry],
            fired : [RulePairs -> Seq(Nat)], tried : [RulePairs -> Nat], idle : [RulePairs -> Int],
            passed : [RulePairs -> BOOLEAN]]

(* How many fires the burst of an entry has; the call that suppresses it    *)
(* counts and does not fire.                                                *)
BRInBurst(e) == IF e.suppressed THEN Limit ELSE e.count

(* The fires f of an entry: those of its burst lie within the time of one,  *)
(* those before it are not later than its start, and the burst before it    *)
(* began more than that time before it.                                     *)
BRBurstFits(e, f) ==
    /\ BRInBurst(e) <= Limit /\ BRInBurst(e) <= Len(f)
    /\ \A i \in 1..Len(f) :
         /\ i > Len(f) - BRInBurst(e) => e.start <= f[i] /\ f[i] <= e.start + Window
         /\ i <= Len(f) - BRInBurst(e) => f[i] <= e.start
         /\ i <= Len(f) - BRInBurst(e) - Limit => f[i] + Window < e.start

BRSpread(f) == \A i, j \in 1..Len(f) : i + 2 * Limit <= j => f[j] - f[i] > Window

BREntryInv(e, f) ==
    /\ e.used
    /\ BRBurstFits(e, f)
    /\ BRSpread(f)
    /\ e.suppressed => e.start <= e.last /\ e.last <= e.start + Window

(* A pair without an entry that has fired found the table full, and will    *)
(* find it full for ever.                                                   *)
BRPairInv(p) ==
    /\ st.tried[p] <= st.now
    /\ st.entry[p].used =>
         /\ BREntryInv(st.entry[p], st.fired[p])
         /\ st.entry[p].last <= st.tried[p] /\ st.entry[p].start <= st.tried[p]
    /\ ~st.entry[p].used => st.passed[p]
    /\ ~st.entry[p].used /\ st.fired[p] # <<>> => st.entries >= MaxEntries
    /\ st.idle[p] > Quiet => st.passed[p]
    /\ ~st.passed[p] => st.entry[p].suppressed /\ st.tried[p] - st.entry[p].last <= Quiet

BRIInv == BRTypeOK /\ \A p \in RulePairs : BRPairInv(p)

-----------------------------------------------------------------------------
(* One call of rule_breaker_should_fire for one entry. *)

(* A burst that begins now, more than the time of one after the last began. *)
LEMMA BRNewBurst ==
    ASSUME LimitsFit, NEW e \in BREntry, NEW f \in Seq(Nat), NEW now \in Nat,
           BREntryInv(e, f), now > e.start + Window
    PROVE  LET g == [e EXCEPT !.suppressed = FALSE, !.count = 0, !.start = now]
           IN  g \in BREntry /\ BREntryInv(g, f)
<1> DEFINE g == [e EXCEPT !.suppressed = FALSE, !.count = 0, !.start = now]
<1>1. g \in BREntry /\ g.used /\ ~g.suppressed /\ g.start = now /\ BRInBurst(g) = 0
  BY DEF BREntry, BRInBurst, BREntryInv
<1>2. ASSUME NEW i \in 1..Len(f)
      PROVE  f[i] <= now /\ (i <= Len(f) - Limit => f[i] + Window < now)
  <2>1. f[i] \in Nat /\ e.start \in Nat /\ BRInBurst(e) \in Nat /\ Len(f) \in Nat
    BY DEF BREntry, BRInBurst, LimitsFit
  <2>2. f[i] <= e.start + Window /\ (i <= Len(f) - BRInBurst(e) => f[i] <= e.start)
    <3>1. /\ i > Len(f) - BRInBurst(e) => f[i] <= e.start + Window
          /\ i <= Len(f) - BRInBurst(e) => f[i] <= e.start
      BY DEF BREntryInv, BRBurstFits
    <3>2. i > Len(f) - BRInBurst(e) \/ i <= Len(f) - BRInBurst(e)
      BY <2>1
    <3>3. f[i] <= e.start => f[i] <= e.start + Window
      BY <2>1 DEF LimitsFit
    <3> QED BY <3>1, <3>2, <3>3
  <2>3. BRInBurst(e) <= Limit
    BY DEF BREntryInv, BRBurstFits
  <2>4. Limit \in Nat /\ Window \in Nat
    BY DEF LimitsFit
  <2>5. f[i] <= now
    BY <2>1, <2>2, <2>4
  <2>6. CASE i <= Len(f) - Limit
    <3>1. i <= Len(f) - BRInBurst(e)
      BY <2>1, <2>3, <2>4, <2>6
    <3>2. f[i] <= e.start
      BY <3>1, <2>2
    <3>3. f[i] + Window < now
      BY <3>2, <2>1, <2>4
    <3> QED BY <3>3, <2>5
  <2> QED BY <2>5, <2>6
<1>3. BRBurstFits(g, f)
  BY <1>1, <1>2 DEF BRBurstFits, LimitsFit
<1> HIDE DEF g
<1>4. BREntryInv(g, f)
  BY <1>1, <1>3 DEF BREntryInv
<1> QED BY <1>1, <1>4 DEF g

(* A call within a burst: the fire, or the refusal that suppresses.         *)
LEMMA BRWithinBurst ==
    ASSUME LimitsFit, NEW e \in BREntry, NEW f \in Seq(Nat), NEW now \in Nat,
           BREntryInv(e, f), ~e.suppressed, e.start <= now, now <= e.start + Window
    PROVE  LET g == BR!Counted(e, now)
           IN  /\ g \in BREntry /\ g.start = e.start /\ g.last = now
               /\ BREntryInv(g, IF g.suppressed THEN f ELSE Append(f, now))
<1> DEFINE g == BR!Counted(e, now)
           h == Append(f, now)
<1>1. /\ g \in BREntry /\ g.used /\ g.start = e.start /\ g.last = now
      /\ g.count = e.count + 1 /\ (g.suppressed <=> e.count + 1 > Limit)
  <2> DEFINE s == e.count + 1 > Limit
  <2>1. s \in BOOLEAN /\ e.count + 1 \in Nat
    BY DEF BREntry
  <2>2. g = [e EXCEPT !.count = e.count + 1, !.last = now, !.suppressed = s]
    BY DEF BR!Counted
  <2> HIDE DEF s
  <2>3. /\ g \in BREntry /\ g.used = e.used /\ g.start = e.start /\ g.last = now
        /\ g.count = e.count + 1 /\ g.suppressed = s
    BY <2>1, <2>2 DEF BREntry
  <2> QED BY <2>3 DEF s, BREntryInv
<1>2. BRInBurst(e) = e.count /\ e.count \in Nat /\ e.start \in Nat /\ e.count <= Limit
  BY DEF BREntry, BRInBurst, BREntryInv, BRBurstFits
<1> HIDE DEF g
<1>3. CASE g.suppressed
  <2>1. BRInBurst(g) = BRInBurst(e)
    BY <1>1, <1>2, <1>3 DEF BRInBurst, LimitsFit
  <2>2. BRBurstFits(g, f)
    BY <1>1, <2>1 DEF BRBurstFits, BREntryInv
  <2>3. BREntryInv(g, f)
    BY <1>1, <2>2 DEF BREntryInv
  <2> QED BY <1>1, <1>3, <2>3 DEF g
<1>4. CASE ~g.suppressed
  <2>1. BRInBurst(g) = e.count + 1 /\ e.count + 1 <= Limit
    BY <1>1, <1>2, <1>4 DEF BRInBurst, LimitsFit
  <2>2. /\ Len(f) \in Nat /\ Len(h) = Len(f) + 1 /\ h[Len(f) + 1] = now
        /\ \A i \in 1..Len(f) : h[i] = f[i] /\ h[i] \in Nat
    OBVIOUS
  <2>2a. Len(f) \in Nat /\ Len(h) = Len(f) + 1
    BY <2>2
  <2> HIDE DEF h
  <2>3. ASSUME NEW i \in 1..Len(h)
        PROVE  /\ i > Len(h) - BRInBurst(g) => g.start <= h[i] /\ h[i] <= g.start + Window
               /\ i <= Len(h) - BRInBurst(g) => h[i] <= g.start
               /\ i <= Len(h) - BRInBurst(g) - Limit => h[i] + Window < g.start
    <3>1. CASE i = Len(f) + 1
      BY <3>1, <1>1, <1>2, <2>1, <2>2 DEF LimitsFit
    <3>2. CASE i \in 1..Len(f)
      <4>1. Len(h) - BRInBurst(g) = Len(f) - BRInBurst(e)
        <5>1. \A m, n \in Nat : (m + 1) - (n + 1) = m - n
          OBVIOUS
        <5>2. (Len(f) + 1) - (e.count + 1) = Len(f) - e.count
          BY <1>2, <2>2a, <5>1, Zenon
        <5> QED BY <1>2, <2>1, <2>2a, <5>2, Zenon
      <4> QED BY <4>1, <3>2, <1>1, <2>2 DEF BREntryInv, BRBurstFits
    <3> QED BY <3>1, <3>2, <2>2
  <2>4. BRBurstFits(g, h)
    BY <1>2, <2>1, <2>2, <2>3 DEF BRBurstFits, BREntryInv
  <2>5. ASSUME NEW i \in 1..Len(h), NEW j \in 1..Len(h), i + 2 * Limit <= j
        PROVE  h[j] - h[i] > Window
    <3>0. Limit \in Nat \ {0} /\ Window \in Nat
      BY DEF LimitsFit
    <3>1. CASE j = Len(f) + 1
      <4>0. /\ i \in Nat /\ i >= 1 /\ Len(f) \in Nat /\ e.count \in Nat
            /\ i + 2 * Limit <= Len(f) + 1 /\ e.count + 1 <= Limit
        BY <3>1, <2>5, <1>2, <2>1, <2>2a
      <4>a. Limit \in Nat /\ Limit >= 1
        BY <3>0
      <4>b. i <= Len(f)
        BY <4>0, <4>a
      <4>c. i <= Len(f) - e.count - Limit
        <5>1. \A a, b, c, l \in Nat : a + 2 * l <= b + 1 /\ c + 1 <= l => a <= b - c - l
          OBVIOUS
        <5> QED BY <4>0, <4>a, <5>1, ZenonT(60)
      <4>1. i \in 1..Len(f) /\ i <= Len(f) - BRInBurst(e) - Limit
        BY <4>0, <4>b, <4>c, <1>2
      <4>2. f[i] + Window < e.start /\ h[i] = f[i] /\ h[i] \in Nat
        BY <4>1, <2>2 DEF BREntryInv, BRBurstFits
      <4> QED BY <3>0, <3>1, <4>2, <1>2, <2>2
    <3>2. CASE j \in 1..Len(f)
      <4>1. i \in 1..Len(f)
        BY <3>0, <3>2, <2>2, <2>5
      <4> QED BY <4>1, <3>2, <2>2, <2>5 DEF BREntryInv, BRSpread
    <3> QED BY <3>1, <3>2, <2>2
  <2>6. BREntryInv(g, h)
    BY <1>1, <1>4, <2>4, <2>5 DEF BREntryInv, BRSpread
  <2> QED BY <1>1, <1>4, <2>6 DEF g, h
<1> QED BY <1>3, <1>4

(* The call as a whole: an entry that stays suppressed is left alone and    *)
(* was not quiet, one that is suppressed now had its burst.                 *)
LEMMA BRAfterFits ==
    ASSUME LimitsFit, NEW e \in BREntry, NEW f \in Seq(Nat), NEW now \in Nat,
           BREntryInv(e, f), e.start <= now, e.last <= now
    PROVE  LET g == BR!After(e, now)
           IN  /\ g \in BREntry /\ g.start <= now /\ g.last <= now
               /\ BREntryInv(g, IF g.suppressed THEN f ELSE Append(f, now))
               /\ g.suppressed => now - g.last <= Quiet
               /\ g.suppressed => now - e.start <= Window \/ now - e.last <= Quiet
<1> DEFINE r == BR!Rearmed(e, now)
           b == BR!Restarted(r, now)
<1>0. /\ Limit \in Nat \ {0} /\ Window \in Nat /\ Quiet \in Nat /\ Window <= Quiet
      /\ e.start \in Nat /\ e.last \in Nat /\ e.count \in Nat
  BY DEF LimitsFit, BREntry
<1>1. CASE e.suppressed /\ now - e.last <= Quiet
  <2>1. r = e /\ BR!After(e, now) = e
    BY <1>0, <1>1 DEF BR!Rearmed, BR!After
  <2> QED BY <1>0, <1>1, <2>1
<1>2. CASE e.suppressed /\ now - e.last > Quiet
  <2>1. now > e.start + Window
    <3>1. e.start <= e.last
      BY <1>2 DEF BREntryInv
    <3> QED BY <1>0, <1>2, <3>1
  <2>2. r = [e EXCEPT !.suppressed = FALSE, !.count = 0, !.start = now]
    BY <1>2 DEF BR!Rearmed
  <2>3. r \in BREntry /\ BREntryInv(r, f)
    BY <2>1, <2>2, BRNewBurst, ZenonT(60)
  <2>4. ~r.suppressed /\ r.start = now /\ r.count = 0
    BY <2>2 DEF BREntry
  <2> HIDE DEF r
  <2>5. b = r
    BY <1>0, <2>4 DEF BR!Restarted
  <2>6. BR!After(e, now) = BR!Counted(r, now)
    BY <2>4, <2>5 DEF BR!After, r, b
  <2>7. ~BR!Counted(r, now).suppressed
    <3>1. ~(r.count + 1 > Limit)
      BY <1>0, <2>4
    <3> QED BY <2>3, <3>1 DEF BR!Counted, BREntry
  <2> QED BY <1>0, <2>3, <2>4, <2>6, <2>7, BRWithinBurst
<1>3. CASE ~e.suppressed /\ now - e.start > Window
  <2>1. r = e
    BY <1>3 DEF BR!Rearmed
  <2>2. b = [e EXCEPT !.suppressed = FALSE, !.count = 0, !.start = now]
    BY <1>3, <2>1 DEF BR!Restarted, BREntry
  <2>3. now > e.start + Window
    BY <1>0, <1>3
  <2>3a. b \in BREntry /\ BREntryInv(b, f)
    BY <2>2, <2>3, BRNewBurst, ZenonT(60)
  <2>4. ~b.suppressed /\ b.start = now /\ b.count = 0
    BY <2>2 DEF BREntry
  <2>5. BR!After(e, now) = BR!Counted(b, now)
    BY <1>3, <2>1 DEF BR!After
  <2> HIDE DEF b
  <2>6. ~BR!Counted(b, now).suppressed
    <3>1. ~(b.count + 1 > Limit)
      BY <1>0, <2>4
    <3> QED BY <2>3a, <3>1 DEF BR!Counted, BREntry
  <2> QED BY <1>0, <2>3a, <2>4, <2>5, <2>6, BRWithinBurst
<1>4. CASE ~e.suppressed /\ now - e.start <= Window
  <2>1. BR!After(e, now) = BR!Counted(e, now)
    BY <1>0, <1>4 DEF BR!After, BR!Rearmed, BR!Restarted
  <2>2. now <= e.start + Window
    BY <1>0, <1>4
  <2> HIDE DEF r, b
  <2> QED BY <1>0, <1>4, <2>1, <2>2, BRWithinBurst
<1> QED BY <1>0, <1>1, <1>2, <1>3, <1>4

-----------------------------------------------------------------------------
(* The steps. *)

LEMMA BRInitHolds == ASSUME LimitsFit, BR!Init PROVE BRIInv
<1>1. BRTypeOK
  BY DEF BR!Init, BRTypeOK, BREntry, BR!NoEntry
<1>2. ASSUME NEW p \in RulePairs PROVE BRPairInv(p)
  BY DEF BR!Init, BRPairInv, BR!NoEntry, LimitsFit
<1> QED BY <1>1, <1>2 DEF BRIInv

(* What a call changes, by the cases of its pair. *)
LEMMA BRTryHolds ==
    ASSUME LimitsFit, BRIInv, NEW p \in RulePairs, NEW now \in 0..MaxTime, BR!Try(p, now)
    PROVE  BRIInv'
<1> DEFINE known == st.entry[p].used
           room == st.entries < MaxEntries
           before == IF known THEN st.entry[p] ELSE BR!Fresh(now)
           e == BR!After(before, now)
           open == ~known /\ ~room
           fires == open \/ ~e.suppressed
<1>0. /\ now \in Nat /\ now >= st.now /\ st.now \in Nat /\ st.tries \in Nat /\ st.entries \in Nat
      /\ st.entry \in [RulePairs -> BREntry] /\ st.fired \in [RulePairs -> Seq(Nat)]
      /\ st.tried \in [RulePairs -> Nat] /\ st.idle \in [RulePairs -> Int] /\ st.passed \in [RulePairs -> BOOLEAN]
      /\ Quiet \in Nat /\ Window \in Nat /\ Window <= Quiet /\ MaxEntries \in Nat
  BY DEF BRIInv, BRTypeOK, BR!Try, LimitsFit
<1>1. st' = [now |-> now, tries |-> st.tries + 1,
             entries |-> IF known \/ open THEN st.entries ELSE st.entries + 1,
             entry |-> IF open THEN st.entry ELSE [st.entry EXCEPT ![p] = e],
             fired |-> IF fires THEN [st.fired EXCEPT ![p] = Append(@, now)] ELSE st.fired,
             tried |-> [st.tried EXCEPT ![p] = now],
             idle |-> [st.idle EXCEPT ![p] = now - st.tried[p]],
             passed |-> [st.passed EXCEPT ![p] = fires]]
  BY DEF BR!Try
<1> HIDE DEF known, open, fires, e
<1>1a. /\ st'.now = now /\ st'.tries = st.tries + 1
       /\ st'.entries = IF known \/ open THEN st.entries ELSE st.entries + 1
       /\ st'.entry = IF open THEN st.entry ELSE [st.entry EXCEPT ![p] = e]
       /\ st'.fired = IF fires THEN [st.fired EXCEPT ![p] = Append(@, now)] ELSE st.fired
       /\ st'.tried = [st.tried EXCEPT ![p] = now]
       /\ st'.idle = [st.idle EXCEPT ![p] = now - st.tried[p]]
       /\ st'.passed = [st.passed EXCEPT ![p] = fires]
  BY <1>1
<1>1b. /\ now \in Nat /\ now >= st.now /\ st.now \in Nat /\ st.tries \in Nat /\ st.entries \in Nat
       /\ st'.now = now /\ st'.tries = st.tries + 1
       /\ st'.entries = st.entries \/ st'.entries = st.entries + 1
  BY <1>0, <1>1a
<1>1c. ASSUME NEW q \in RulePairs, q # p
       PROVE  /\ st'.entry[q] = st.entry[q] /\ st'.fired[q] = st.fired[q]
              /\ st'.tried[q] = st.tried[q] /\ st'.idle[q] = st.idle[q]
              /\ st'.passed[q] = st.passed[q]
  <2>1. st'.entry[q] = st.entry[q]
    BY <1>0, <1>1a, <1>1c
  <2>2. st'.fired[q] = st.fired[q]
    BY <1>0, <1>1a, <1>1c
  <2>3. st'.tried[q] = st.tried[q] /\ st'.idle[q] = st.idle[q] /\ st'.passed[q] = st.passed[q]
    BY <1>0, <1>1a, <1>1c
  <2> QED BY <2>1, <2>2, <2>3
<1>1d. /\ st'.tried[p] = now /\ st'.idle[p] = now - st.tried[p] /\ st'.passed[p] = fires
       /\ st'.fired[p] = IF fires THEN Append(st.fired[p], now) ELSE st.fired[p]
       /\ st'.entry[p] = IF open THEN st.entry[p] ELSE e
  <2>1. st'.tried[p] = now /\ st'.idle[p] = now - st.tried[p] /\ st'.passed[p] = fires
    BY <1>0, <1>1a
  <2>2. st'.fired[p] = IF fires THEN Append(st.fired[p], now) ELSE st.fired[p]
    BY <1>0, <1>1a
  <2>3. st'.entry[p] = IF open THEN st.entry[p] ELSE e
    BY <1>0, <1>1a
  <2> QED BY <2>1, <2>2, <2>3
<1>2. /\ st.tried[p] <= st.now /\ st.entry[p] \in BREntry /\ st.tried[p] \in Nat
      /\ st.fired[p] \in Seq(Nat)
      /\ known => /\ BREntryInv(st.entry[p], st.fired[p])
                  /\ st.entry[p].last <= st.tried[p] /\ st.entry[p].start <= st.tried[p]
      /\ ~known /\ st.fired[p] # <<>> => st.entries >= MaxEntries
  BY <1>0 DEF BRIInv, BRPairInv, known
<1>3. ASSUME ~open
      PROVE  /\ before \in BREntry /\ BREntryInv(before, st.fired[p])
             /\ before.start <= now /\ before.last <= now
             /\ known => before.start <= st.tried[p] /\ before.last <= st.tried[p]
  <2>1. CASE known
    <3>1. before = st.entry[p]
      BY <2>1
    <3>2. st.entry[p].start \in Nat /\ st.entry[p].last \in Nat
      BY <1>2 DEF BREntry
    <3> HIDE DEF before
    <3> QED BY <1>0, <1>2, <2>1, <3>1, <3>2
  <2>2. CASE ~known
    <3>1. st.fired[p] = <<>>
      BY <1>0, <1>2, <1>3, <2>2 DEF open
    <3>2. before = BR!Fresh(now)
      BY <2>2
    <3>3. before \in BREntry /\ before.start = now /\ before.last = 0 /\ BRInBurst(before) = 0
          /\ before.used /\ ~before.suppressed
      BY <1>0, <3>2 DEF BR!Fresh, BREntry, BRInBurst
    <3>4. BREntryInv(before, <<>>)
      BY <3>3 DEF BREntryInv, BRBurstFits, BRSpread, LimitsFit
    <3> QED BY <1>0, <2>2, <3>1, <3>3, <3>4
  <2> QED BY <2>1, <2>2
<1> HIDE DEF before
<1>4. ASSUME ~open
      PROVE  /\ e \in BREntry /\ e.start <= now /\ e.last <= now
             /\ BREntryInv(e, IF e.suppressed THEN st.fired[p] ELSE Append(st.fired[p], now))
             /\ e.suppressed => now - e.last <= Quiet
             /\ e.suppressed => now - before.start <= Window \/ now - before.last <= Quiet
  BY <1>0, <1>2, <1>3, <1>4, BRAfterFits DEF e
<1>5. /\ fires \in BOOLEAN /\ open \in BOOLEAN /\ known \in BOOLEAN
      /\ open => ~known /\ fires /\ st.entries >= MaxEntries
      /\ ~open => fires = ~e.suppressed
  <2>1. known \in BOOLEAN
    BY <1>2 DEF BREntry, known
  <2>2. ~open => e.suppressed \in BOOLEAN
    BY <1>4 DEF BREntry
  <2> QED BY <1>0, <2>1, <2>2 DEF open, fires
<1>6. BRTypeOK'
  <2>1. st'.entry \in [RulePairs -> BREntry]
    BY <1>0, <1>1a, <1>4
  <2>2. st'.fired \in [RulePairs -> Seq(Nat)]
    BY <1>0, <1>1a, <1>2
  <2>3. st'.tried \in [RulePairs -> Nat] /\ st'.idle \in [RulePairs -> Int] /\ st'.passed \in [RulePairs -> BOOLEAN]
    BY <1>0, <1>1a, <1>2, <1>5
  <2>4. st'.now \in Nat /\ st'.tries \in Nat /\ st'.entries \in Nat
    BY <1>1b
  <2>5. st' = [now |-> st'.now, tries |-> st'.tries, entries |-> st'.entries, entry |-> st'.entry,
               fired |-> st'.fired, tried |-> st'.tried, idle |-> st'.idle, passed |-> st'.passed]
    BY <1>1, <1>1a
  <2> QED BY <2>1, <2>2, <2>3, <2>4, <2>5 DEF BRTypeOK
<1>7. ASSUME NEW q \in RulePairs PROVE BRPairInv(q)'
  <2>1. CASE q # p
    <3>1. /\ st'.entry[q] = st.entry[q] /\ st'.fired[q] = st.fired[q] /\ st'.tried[q] = st.tried[q]
          /\ st'.idle[q] = st.idle[q] /\ st'.passed[q] = st.passed[q]
      BY <1>1c, <2>1
    <3>2. st'.entries >= st.entries /\ st'.now >= st.now /\ st'.now \in Nat /\ st'.entries \in Nat
      BY <1>1b
    <3>3. BRPairInv(q) /\ st.tried[q] \in Nat
      BY <1>0 DEF BRIInv
    <3>4. st.tried[q] <= st'.now
      BY <1>1b, <3>2, <3>3 DEF BRPairInv
    <3>5. st.entries >= MaxEntries => st'.entries >= MaxEntries
      BY <1>0, <1>1b, <3>2
    <3> QED BY <3>1, <3>3, <3>4, <3>5 DEF BRPairInv
  <2>2. CASE q = p /\ open
    <3>1. /\ st'.entry[p] = st.entry[p] /\ ~st.entry[p].used /\ st'.entries = st.entries
          /\ st.entries >= MaxEntries /\ st'.passed[p] = TRUE /\ st'.tried[p] = now /\ st'.now = now
      BY <1>1a, <1>1d, <1>5, <2>2 DEF known
    <3>2. st'.idle[p] \in Int
      BY <1>1b, <1>1d, <1>2
    <3> QED BY <1>0, <2>2, <3>1, <3>2 DEF BRPairInv
  <2>3. CASE q = p /\ ~open
    <3>1. /\ st'.entry[p] = e /\ st'.tried[p] = now /\ st'.now = now /\ st'.idle[p] = now - st.tried[p]
          /\ st'.passed[p] = fires
          /\ st'.fired[p] = IF fires THEN Append(st.fired[p], now) ELSE st.fired[p]
      BY <1>1b, <1>1d, <2>3
    <3>2. e.suppressed => now - st.tried[p] <= Quiet
      <4>1. CASE known
        <5>1. before.start \in Nat /\ before.last \in Nat
          BY <1>3, <2>3 DEF BREntry
        <5> QED BY <1>0, <1>2, <1>3, <1>4, <2>3, <4>1, <5>1
      <4>2. CASE ~known
        <5>1. before = BR!Fresh(now)
          BY <4>2 DEF before
        <5>2. e = BR!Counted(BR!Fresh(now), now)
          <6>1. ~BR!Fresh(now).suppressed /\ BR!Fresh(now).start = now
            BY DEF BR!Fresh
          <6>2. BR!Rearmed(BR!Fresh(now), now) = BR!Fresh(now)
            BY <6>1 DEF BR!Rearmed
          <6>3. BR!Restarted(BR!Fresh(now), now) = BR!Fresh(now)
            BY <1>0, <6>1 DEF BR!Restarted
          <6> QED BY <5>1, <6>1, <6>2, <6>3 DEF e, BR!After
        <5>3. ~(BR!Fresh(now).count + 1 > Limit)
          BY DEF BR!Fresh, LimitsFit
        <5>4. ~e.suppressed
          BY <5>2, <5>3 DEF BR!Counted, BR!Fresh
        <5> QED BY <5>4
      <4> QED BY <4>1, <4>2
    <3>3. e \in BREntry /\ e.used
      BY <1>4, <2>3 DEF BREntryInv
    <3>4. BREntryInv(st'.entry[p], st'.fired[p])
      BY <1>4, <1>5, <2>3, <3>1
    <3>5. st'.passed[p] <=> ~e.suppressed
      BY <1>5, <2>3, <3>1
    <3> HIDE DEF before
    <3> QED BY <1>0, <1>2, <1>4, <2>3, <3>1, <3>2, <3>3, <3>4, <3>5 DEF BRPairInv
  <2> QED BY <2>1, <2>2, <2>3
<1> QED BY <1>6, <1>7 DEF BRIInv

LEMMA BRNextHolds == ASSUME LimitsFit, BRIInv, [BR!Next]_st PROVE BRIInv'
<1>1. CASE BR!Next
  <2>1. PICK p \in RulePairs, now \in 0..MaxTime : BR!Try(p, now)
    BY <1>1 DEF BR!Next
  <2> QED BY <2>1, BRTryHolds
<1>2. CASE st' = st
  BY <1>2 DEF BRIInv, BRTypeOK, BRPairInv
<1> QED BY <1>1, <1>2

(* The strengthening: what an entry remembers of its burst is true of the   *)
(* fires, and a pair without an entry met a full table (rules.c).           *)
LEMMA BRInductive == ASSUME LimitsFit PROVE BR!Spec => []BRIInv
<1>1. BR!Init => BRIInv
  BY BRInitHolds
<1>2. BRIInv /\ [BR!Next]_st => BRIInv'
  BY BRNextHolds
<1> QED BY <1>1, <1>2, PTL DEF BR!Spec

-----------------------------------------------------------------------------
(* What the entries mean. *)

LEMMA BRStopped == ASSUME LimitsFit, BRIInv PROVE BR!LoopsAreStopped
<1> SUFFICES ASSUME NEW p \in RulePairs, st.entry[p].used,
                    NEW i \in DOMAIN st.fired[p], NEW j \in DOMAIN st.fired[p], i + 2 * Limit <= j
             PROVE  st.fired[p][j] - st.fired[p][i] > Window
  BY DEF BR!LoopsAreStopped
<1>1. st.fired[p] \in Seq(Nat) /\ BRSpread(st.fired[p])
  BY DEF BRIInv, BRTypeOK, BRPairInv, BREntryInv
<1>2. DOMAIN st.fired[p] = 1..Len(st.fired[p])
  BY <1>1
<1> QED BY <1>1, <1>2 DEF BRSpread

LEMMA BRBursts == ASSUME LimitsFit, BRIInv PROVE BR!OnlyBurstsAreRefused
<1> SUFFICES ASSUME NEW p \in RulePairs, ~st.passed[p]
             PROVE  LET n == Len(st.fired[p]) IN
                    /\ n >= Limit
                    /\ st.fired[p][n] - st.fired[p][n - Limit + 1] <= Window
                    /\ st.tried[p] - st.fired[p][n] <= Window + Quiet
  BY DEF BR!OnlyBurstsAreRefused
<1> DEFINE f == st.fired[p]
           e == st.entry[p]
           n == Len(f)
<1>1. /\ f \in Seq(Nat) /\ e \in BREntry /\ st.tried[p] \in Nat /\ n \in Nat
      /\ Limit \in Nat /\ Limit >= 1 /\ Window \in Nat /\ Quiet \in Nat
  BY DEF BRIInv, BRTypeOK, LimitsFit
<1>2. BRPairInv(p)
  BY DEF BRIInv
<1>3. /\ BREntryInv(e, f) /\ e.suppressed /\ st.tried[p] - e.last <= Quiet
  BY <1>2 DEF BRPairInv
<1>4. e.start \in Nat /\ e.last \in Nat /\ e.last <= e.start + Window
  BY <1>1, <1>3 DEF BREntry, BREntryInv
<1>5. BRInBurst(e) = Limit /\ n >= Limit
  BY <1>3 DEF BRInBurst, BREntryInv, BRBurstFits
<1> HIDE DEF f, e, n
<1>6. ASSUME NEW i \in 1..n, i > n - Limit
      PROVE  f[i] \in Nat /\ e.start <= f[i] /\ f[i] <= e.start + Window
  <2>1. i \in 1..Len(f) /\ i > Len(f) - BRInBurst(e) /\ Len(f) \in Nat
    BY <1>1, <1>5, <1>6 DEF n
  <2> QED BY <1>1, <1>3, <2>1 DEF BREntryInv, BRBurstFits
<1> DEFINE k == n - Limit + 1
<1>7. n \in 1..n /\ n > n - Limit /\ k \in 1..n /\ k > n - Limit
  BY <1>1, <1>5
<1> HIDE DEF k
<1>8. /\ f[n] \in Nat /\ e.start <= f[n] /\ f[n] <= e.start + Window
      /\ f[k] \in Nat /\ e.start <= f[k]
  <2>1. f[n] \in Nat /\ e.start <= f[n] /\ f[n] <= e.start + Window
    BY <1>6, <1>7
  <2>2. f[k] \in Nat /\ e.start <= f[k]
    BY <1>6, <1>7
  <2> QED BY <2>1, <2>2
<1>9. f[n] - f[k] <= Window /\ st.tried[p] - f[n] <= Window + Quiet
  <2>1. ASSUME NEW a \in Nat, NEW b \in Nat, NEW s \in Nat, NEW l \in Nat, NEW t \in Nat,
               s <= a, a <= s + Window, s <= b, l <= s + Window, t - l <= Quiet
        PROVE  a - b <= Window /\ t - a <= Window + Quiet
    BY <2>1, <1>1
  <2> QED BY <2>1, <1>1, <1>3, <1>4, <1>8
<1> QED BY <1>5, <1>9 DEF f, n, k

(* A rule that fires for a window again and again is stopped: of any fires  *)
(* of a pair, those twice the limit apart are further apart in time than a  *)
(* burst.  It is held back only after a burst of as many fires as the       *)
(* limit, and fires again after a quiet time                                *)
(* (rules.c: rule_breaker_should_fire).                                     *)
LEMMA BreakersHold == ASSUME LimitsFit PROVE BR!Spec => []BR!BreakerHolds
<1>1. BRIInv => BR!BreakerHolds
  BY BRStopped, BRBursts DEF BR!BreakerHolds, BR!QuietRearms, BRIInv, BRPairInv
<1> QED BY <1>1, BRInductive, PTL

-----------------------------------------------------------------------------
(* The Sinks tab: on it, what is drawn is what the rows are. *)
SKFields == {"list", "error", "rows", "row", "tab", "text", "refreshing", "setting", "drawn"}
SKDrawn(s) ==
    [error |-> s.error, row |-> s.row, names |-> [n \in DOMAIN s.rows |-> SK!SinkAtVisible(s, n)]]
SKGood(s) == DOMAIN s = SKFields /\ (s.tab = "sinks" => s.drawn = SKDrawn(s))
SKInv == SKGood(st)

LEMMA SKDraws ==
    ASSUME NEW s, DOMAIN s = SKFields
    PROVE  SKGood(SK!UpdateDisplay(s)) /\ SK!UpdateDisplay(s).tab = s.tab
<1>. DEFINE t == [s EXCEPT !.drawn = SKDrawn(s)]
<1>1. SK!UpdateDisplay(s) = IF s.tab # "sinks" THEN s ELSE t
  BY DEF SK!UpdateDisplay, SKDrawn
<1>2. DOMAIN t = SKFields /\ t.tab = s.tab /\ t.drawn = SKDrawn(s)
      /\ t.error = s.error /\ t.row = s.row /\ t.rows = s.rows /\ t.list = s.list
  BY DEF SKFields
<1>3. SKDrawn(t) = SKDrawn(s)
  BY <1>2 DEF SKDrawn, SK!SinkAtVisible
<1>. HIDE DEF t
<1> QED
  BY <1>1, <1>2, <1>3 DEF SKGood

(* Steps that change neither what is drawn nor what it was drawn from. *)
SKSame(s, t) ==
    /\ t.tab = s.tab /\ t.drawn = s.drawn /\ t.error = s.error /\ t.row = s.row
    /\ t.rows = s.rows /\ t.list = s.list

LEMMA SKStays ==
    ASSUME NEW s, SKGood(s), NEW t, DOMAIN t = SKFields, SKSame(s, t)
    PROVE  SKGood(t)
<1>1. SKDrawn(t) = SKDrawn(s)
  BY DEF SKDrawn, SK!SinkAtVisible, SKSame
<1> QED
  BY <1>1 DEF SKGood, SKSame

LEMMA SKChanges ==
    ASSUME NEW s, SKGood(s), NEW text
    PROVE  SKGood(SK!OnQueryChanged(s, text)) /\ SKGood(SK!HideWindow(s))
<1>1. ASSUME NEW x PROVE SKGood(SK!OnQueryChanged(s, x))
  <2>. DEFINE c == [s EXCEPT !.text = x]
              t == SK!Filtered(c, x)
              u == [t EXCEPT !.row = IF s.error THEN 1 ELSE SK!AtName(t, SK!SinkAtVisible(s, s.row))]
  <2>1. DOMAIN c = SKFields /\ SKSame(s, c)
    BY DEF SKGood, SKFields, SKSame
  <2>2. SKGood(c)
    BY <2>1, SKStays
  <2>3. DOMAIN t = SKFields
    BY <2>1 DEF SK!Filtered
  <2>4. DOMAIN u = SKFields
    BY <2>3
  <2>5. SK!OnQueryChanged(s, x) = IF x = s.text \/ s.tab # "sinks" THEN c ELSE SK!UpdateDisplay(u)
    BY DEF SK!OnQueryChanged
  <2>. HIDE DEF c, t, u
  <2> QED
    BY <2>2, <2>4, <2>5, SKDraws
<1>. DEFINE h == SK!OnQueryChanged(s, SK!Empty)
<1>2. SKGood(h)
  BY <1>1
<1>3. SK!HideWindow(s) = [h EXCEPT !.tab = "windows"]
  BY DEF SK!HideWindow
<1>. HIDE DEF h
<1>4. SKGood(SK!HideWindow(s))
  BY <1>2, <1>3 DEF SKGood, SKFields
<1> QED
  BY <1>1, <1>4

LEMMA SKRefreshes ==
    ASSUME NEW s, SKGood(s), NEW sinks PROVE SKGood(SK!ApplyRefreshResult(s, sinks))
<1>. DEFINE c == [s EXCEPT !.list = sinks, !.error = sinks = <<>>]
            t == SK!Filtered(c, s.text)
            u == [t EXCEPT !.row = SK!AtName(t, SK!SinkAtVisible(s, s.row))]
<1>1. DOMAIN c = SKFields
  BY DEF SKGood
<1>2. DOMAIN t = SKFields
  BY <1>1 DEF SK!Filtered
<1>3. DOMAIN u = SKFields
  BY <1>2
<1>4. SK!ApplyRefreshResult(s, sinks) = s \/ SK!ApplyRefreshResult(s, sinks) = SK!UpdateDisplay(u)
  BY DEF SK!ApplyRefreshResult
<1>. HIDE DEF u
<1> QED
  BY <1>3, <1>4, SKDraws

LEMMA SinksHold == SK!Spec => []SK!DrawnIsMeant
<1>1. SK!Init => SKInv
  BY DEF SK!Init, SKInv, SKGood, SKFields
<1>2. SKInv /\ [SK!Next]_st => SKInv'
  <2>. SUFFICES ASSUME SKInv, [SK!Next]_st PROVE SKInv'
    OBVIOUS
  <2>0. SKGood(st) /\ DOMAIN st = SKFields
    BY DEF SKInv, SKGood
  <2>1. ASSUME SK!OnRefreshDone PROVE SKInv'
    <3>. DEFINE s == [st EXCEPT !.refreshing = FALSE]  e == [s EXCEPT !.error = TRUE]
    <3>1. DOMAIN s = SKFields /\ SKSame(st, s) /\ DOMAIN e = SKFields
      BY <2>0 DEF SKFields, SKSame
    <3>2. SKGood(s)
      BY <2>0, <3>1, SKStays
    <3>3. st' = SK!UpdateDisplay(e) \/ \E sinks \in SK!Listings : st' = SK!ApplyRefreshResult(s, sinks)
      BY <2>1 DEF SK!OnRefreshDone
    <3>. HIDE DEF s, e
    <3> QED
      BY <3>1, <3>2, <3>3, SKDraws, SKRefreshes DEF SKInv
  <2>2. ASSUME SK!Hide PROVE SKInv'
    BY <2>0, <2>2, SKChanges DEF SK!Hide, SKInv
  <2>3. ASSUME SK!Tick PROVE SKInv'
    <3>1. DOMAIN st' = SKFields /\ SKSame(st, st')
      BY <2>0, <2>3 DEF SK!Tick, SK!RefreshAsync, SKFields, SKSame
    <3> QED
      BY <2>0, <3>1, SKStays DEF SKInv
  <2>4. ASSUME NEW name PROVE SKGood(SK!HideWindow(SK!Switch(name)))
    <3>. DEFINE s == SK!Switch(name)
    <3>1. DOMAIN s = SKFields /\ SKSame(st, s)
      BY <2>0 DEF SK!Switch, SKFields, SKSame
    <3>. HIDE DEF s
    <3>2. SKGood(s)
      BY <2>0, <3>1, SKStays
    <3>3. SKGood(SK!HideWindow(s))
      BY <3>2, SKChanges
    <3> QED
      BY <3>3 DEF s
  <2>5. ASSUME SK!EnterPressed PROVE SKInv'
    BY <2>4, <2>5 DEF SK!EnterPressed, SKInv
  <2>6. ASSUME NEW name \in SinkNames, SK!SlotRecall(name) PROVE SKInv'
    BY <2>4, <2>6 DEF SK!SlotRecall, SKInv
  <2>7. ASSUME NEW text \in Filters \cup {SK!Empty}, SK!TypeText(text) PROVE SKInv'
    BY <2>0, <2>7, SKChanges DEF SK!TypeText, SKInv
  <2>8. ASSUME NEW n \in 1..(SK!Cardinality(SinkNames) + 1), SK!MoveTo(n) PROVE SKInv'
    <3>. DEFINE s == [st EXCEPT !.row = n]
    <3>1. DOMAIN s = SKFields /\ st' = SK!UpdateDisplay(s)
      BY <2>0, <2>8 DEF SK!MoveTo
    <3>. HIDE DEF s
    <3> QED
      BY <3>1, SKDraws DEF SKInv
  <2>9. ASSUME NEW tab \in {"sinks", "other"}, SK!OpenTab(tab) PROVE SKInv'
    <3>. DEFINE s == [st EXCEPT !.tab = tab, !.text = SK!Empty]
                t == [IF tab = "sinks" THEN SK!RefreshAsync(s) ELSE s EXCEPT !.row = 1]
    <3>1. DOMAIN t = SKFields /\ st' = SK!UpdateDisplay(t)
      BY <2>0, <2>9 DEF SK!OpenTab, SK!RefreshAsync
    <3>. HIDE DEF t
    <3> QED
      BY <3>1, SKDraws DEF SKInv
  <2>10. ASSUME NEW name \in SinkNames, SK!OnSetDefaultDone(name) PROVE SKInv'
    <3>. DEFINE s == [st EXCEPT !.setting = @ \ {name}]
                r == SK!RefreshAsync(s)
                e == [s EXCEPT !.error = TRUE]
    <3>1. DOMAIN r = SKFields /\ SKSame(st, r)
      BY <2>0 DEF SK!RefreshAsync, SKFields, SKSame
    <3>2. DOMAIN e = SKFields
      BY <2>0
    <3>3. st' = SK!HideWindow(r) \/ st' = SK!UpdateDisplay(e)
      BY <2>10 DEF SK!OnSetDefaultDone
    <3>. HIDE DEF r, e
    <3>4. SKGood(SK!HideWindow(r))
      BY <2>0, <3>1, SKStays, SKChanges
    <3> QED
      BY <3>2, <3>3, <3>4, SKDraws DEF SKInv
  <2> QED
    BY <2>1, <2>2, <2>3, <2>5, <2>6, <2>7, <2>8, <2>9, <2>10 DEF SK!Next, SKInv
<1>3. SKInv => SK!DrawnIsMeant
  BY DEF SKInv, SKGood, SKDrawn, SK!DrawnIsMeant, SK!OnTab
<1> QED
  BY <1>1, <1>2, <1>3, PTL DEF SK!Spec

-----------------------------------------------------------------------------
(* The Proc tab: on it, what is drawn is what the rows are. *)
PRFields == {"alive", "list", "error", "rows", "row", "tab", "text", "drawn"}
PRDrawn(s) == [error |-> s.error, row |-> s.row, rows |-> IF s.error THEN <<>> ELSE s.rows]
PRGood(s) == DOMAIN s = PRFields /\ (s.tab = "proc" => s.drawn = PRDrawn(s))
PRInv == PRGood(st)

LEMMA PRDraws ==
    ASSUME NEW s, DOMAIN s = PRFields
    PROVE  PRGood(PR!UpdateDisplay(s)) /\ PR!UpdateDisplay(s).tab = s.tab
<1>. DEFINE t == [s EXCEPT !.drawn = PRDrawn(s)]
<1>1. PR!UpdateDisplay(s) = t
  BY DEF PR!UpdateDisplay, PRDrawn
<1>2. DOMAIN t = PRFields /\ t.tab = s.tab /\ t.drawn = PRDrawn(s) /\ PRDrawn(t) = PRDrawn(s)
  BY DEF PRFields, PRDrawn
<1>. HIDE DEF t
<1> QED
  BY <1>1, <1>2 DEF PRGood

(* Steps that change neither what is drawn nor what it was drawn from. *)
PRSame(s, t) ==
    t.tab = s.tab /\ t.drawn = s.drawn /\ t.error = s.error /\ t.row = s.row /\ t.rows = s.rows

LEMMA PRStays ==
    ASSUME NEW s, PRGood(s), NEW t, DOMAIN t = PRFields, PRSame(s, t) PROVE PRGood(t)
  BY DEF PRGood, PRSame, PRDrawn

LEMMA PRRefreshes ==
    ASSUME NEW s, DOMAIN s = PRFields
    PROVE  LET t == PR!Refresh(s)
           IN  DOMAIN t = PRFields /\ t.tab = s.tab /\ (t = s \/ PRGood(t))
<1>. DEFINE rows == PR!Hits(s.alive, s.text.filter)
            c == [s EXCEPT !.list = s.alive, !.error = s.alive = <<>>, !.rows = rows,
                           !.row = PR!AtPid(rows, PR!PidAt(s))]
<1>1. DOMAIN c = PRFields /\ c.tab = s.tab
  BY DEF PRFields
<1>2. PR!Refresh(s) = s \/ PR!Refresh(s) = PR!UpdateDisplay(c)
  BY DEF PR!Refresh, PR!ApplyEntries
<1>. HIDE DEF c
<1> QED
  BY <1>1, <1>2, PRDraws DEF PRGood

LEMMA PRChanges ==
    ASSUME NEW s, DOMAIN s = PRFields, NEW text
    PROVE  LET t == PR!OnQueryChanged(s, text)
           IN  DOMAIN t = PRFields /\ t.tab = s.tab /\ (t = s \/ PRGood(t))
<1>. DEFINE rows == PR!Hits(s.list, text.filter)
            c == [s EXCEPT !.text = text, !.rows = rows,
                           !.row = IF s.error THEN 1 ELSE PR!AtPid(rows, PR!PidAt(s))]
<1>1. DOMAIN c = PRFields /\ c.tab = s.tab
  BY DEF PRFields
<1>2. PR!OnQueryChanged(s, text) = s \/ PR!OnQueryChanged(s, text) = PR!UpdateDisplay(c)
  BY DEF PR!OnQueryChanged
<1>. HIDE DEF c
<1> QED
  BY <1>1, <1>2, PRDraws DEF PRGood

LEMMA PRHides ==
    ASSUME NEW s, DOMAIN s = PRFields
    PROVE  PRGood(PR!HideWindow(s)) /\ PR!HideWindow(s).tab # "proc"
<1>. DEFINE t == PR!OnQueryChanged(s, PR!NoText)
<1>1. DOMAIN t = PRFields /\ t.tab = s.tab
  BY PRChanges
<1>2. PR!HideWindow(s) = IF s.tab = "proc" THEN [t EXCEPT !.tab = "other"] ELSE s
  BY DEF PR!HideWindow
<1>. HIDE DEF t
<1> QED
  BY <1>1, <1>2 DEF PRGood, PRFields

LEMMA ProcessesHold == PR!Spec => []PR!ActsOnWhatIsShown
<1>1. PR!Init => PRInv
  BY DEF PR!Init, PRInv, PRGood, PRFields
<1>2. PRInv /\ [PR!Next]_st => PRInv'
  <2>. SUFFICES ASSUME PRInv, [PR!Next]_st PROVE PRInv'
    OBVIOUS
  <2>0. PRGood(st) /\ DOMAIN st = PRFields
    BY DEF PRInv, PRGood
  <2>1. ASSUME PR!SignalTargets PROVE PRInv'
    <3>. DEFINE e == [st EXCEPT !.error = TRUE]
                c(left) == [st EXCEPT !.error = FALSE, !.alive = left]
    <3>1. st' = PR!UpdateDisplay(e) \/ \E left : st' = PR!HideWindow(PR!Refresh(c(left)))
      BY Zenon, <2>1 DEF PR!SignalTargets
    <3>2. DOMAIN e = PRFields
      BY <2>0
    <3>3. ASSUME NEW left PROVE PRGood(PR!HideWindow(PR!Refresh(c(left))))
      <4>1. DOMAIN c(left) = PRFields /\ c(left).error = FALSE
        BY <2>0 DEF PRFields
      <4>. HIDE DEF c
      <4>2. DOMAIN PR!Refresh(c(left)) = PRFields
        BY <4>1, PRRefreshes
      <4> QED
        BY <4>2, PRHides
    <3>. HIDE DEF c, e
    <3> QED
      BY <3>1, <3>2, <3>3, PRDraws DEF PRInv
  <2>2. ASSUME PR!ShowTarget PROVE PRInv'
    <3>. DEFINE h == PR!HideWindow(st)
                c == [h EXCEPT !.error = FALSE]
                e == [st EXCEPT !.error = TRUE]
    <3>1. PRGood(h) /\ DOMAIN h = PRFields /\ h.tab # "proc"
      BY <2>0, PRHides DEF PRGood
    <3>. HIDE DEF h
    <3>2. DOMAIN c = PRFields /\ c.tab # "proc"
      BY <3>1 DEF PRFields
    <3>3. PRGood(c)
      BY <3>2 DEF PRGood
    <3>. HIDE DEF c
    <3>4. PRGood(PR!Refresh(c))
      BY <3>2, <3>3, PRRefreshes
    <3>5. DOMAIN e = PRFields
      BY <2>0
    <3>6. st' = PR!Refresh(c) \/ st' = PR!UpdateDisplay(e)
      BY <2>2 DEF PR!ShowTarget, c, h
    <3>. HIDE DEF e
    <3> QED
      BY <3>4, <3>5, <3>6, PRDraws DEF PRInv
  <2>3. ASSUME PR!Tick PROVE PRInv'
    BY <2>0, <2>3, PRRefreshes DEF PR!Tick, PRInv
  <2>4. ASSUME PR!CommandAndBack \/ PR!Churn PROVE PRInv'
    <3>1. DOMAIN st' = PRFields /\ PRSame(st, st')
      BY <2>0, <2>4 DEF PR!CommandAndBack, PR!Churn, PRFields, PRSame
    <3> QED
      BY <2>0, <3>1, PRStays DEF PRInv
  <2>5. ASSUME NEW text \in PR!Texts, PR!TypeText(text) PROVE PRInv'
    BY <2>0, <2>5, PRChanges DEF PR!TypeText, PRInv
  <2>6. ASSUME NEW up \in BOOLEAN, PR!MoveSelection(up) PROVE PRInv'
    <3>. DEFINE s(n) == [st EXCEPT !.row = n]
    <3>1. \E n : st' = PR!UpdateDisplay(s(n))
      BY <2>6 DEF PR!MoveSelection
    <3>2. \A n : DOMAIN s(n) = PRFields
      BY <2>0
    <3>. HIDE DEF s
    <3> QED
      BY <3>1, <3>2, PRDraws DEF PRInv
  <2>7. ASSUME PR!EnterTab PROVE PRInv'
    <3>. DEFINE s == [st EXCEPT !.tab = "proc", !.text = PR!NoText]
                r == PR!Refresh(s)
                t == [r EXCEPT !.row = 1]
    <3>1. DOMAIN s = PRFields
      BY <2>0
    <3>2. DOMAIN r = PRFields
      BY <3>1, PRRefreshes
    <3>3. DOMAIN t = PRFields
      BY <3>2
    <3>4. st' = PR!UpdateDisplay(t)
      BY <2>7 DEF PR!EnterTab
    <3>. HIDE DEF s, r, t
    <3> QED
      BY <3>3, <3>4, PRDraws DEF PRInv
  <2>8. ASSUME PR!LeaveTab PROVE PRInv'
    BY <2>0, <2>8 DEF PR!LeaveTab, PRInv, PRGood, PRFields
  <2>9. ASSUME PR!Hide PROVE PRInv'
    BY <2>0, <2>9, PRHides DEF PR!Hide, PRInv
  <2> QED
    BY <2>1, <2>2, <2>3, <2>4, <2>5, <2>6, <2>7, <2>8, <2>9 DEF PR!Next, PRInv
<1>3. PRInv => PR!ActsOnWhatIsShown
  <2>. SUFFICES ASSUME PRInv, PR!OnTab, ~st.drawn.error PROVE PR!ActsOnWhatIsShown
    BY DEF PR!ActsOnWhatIsShown
  <2>1. st.drawn.row = st.row /\ st.drawn.rows = st.rows
    BY DEF PRInv, PRGood, PRDrawn, PR!OnTab
  <2> QED
    BY <2>1 DEF PR!ActsOnWhatIsShown, PR!Targets
<1> QED
  BY <1>1, <1>2, <1>3, PTL DEF PR!Spec

-----------------------------------------------------------------------------
(* The Sessions tab. *)
LEMMA SNOps ==
    ASSUME NEW f, NEW S
    PROVE  SN!Picked(f, S) = Picked(f, S) /\ SN!Sorted(S, f) = Sorted(S, f) /\ SN!Nth(S, f) = Nth(S, f)
<1>1. \A T : SN!Cardinality(T) = Cardinality(T)
  BY Zenon DEF SN!Cardinality, Cardinality
<1>2. \A T, n : SN!Nth(T, n) = Nth(T, n)
  BY Zenon, <1>1 DEF SN!Nth, Nth
<1>3. SN!Picked(f, S) = Picked(f, S)
  BY Zenon, <1>1, <1>2 DEF SN!Picked, Picked
<1>4. SN!Sorted(S, f) = Sorted(S, f)
  BY Zenon DEF SN!Sorted, Sorted, SN!Cardinality, Cardinality
<1> QED
  BY Zenon, <1>2, <1>3, <1>4

SNFields == {"text", "tab", "left", "query", "results", "rows", "row", "lines", "searching", "reads",
             "overlay", "about", "deleted", "drawn"}
SNResult == {"session", "path", "time", "hits", "said", "name", "matched", "meta", "seen", "of"}

(* A search that is shown is read, one only, in the logs there are.         *)
SNReads(reads, searching, left, deleted) ==
    /\ Sequenced(reads) /\ searching \in BOOLEAN
    /\ \A k \in DOMAIN reads :
           /\ DOMAIN reads[k] = {"left", "current", "logs"} /\ reads[k].logs \subseteq Logs
           /\ reads[k].current => searching /\ reads[k].left = left /\ reads[k].logs \cap deleted = {}
    /\ searching => \E k \in DOMAIN reads : reads[k].current
    /\ \A j, k \in DOMAIN reads : reads[j].current /\ reads[k].current => j = k

(* What was found for a session, once.                                      *)
SNFound(r, left, deleted) ==
    /\ DOMAIN r = SNResult
    /\ r.path \in Logs /\ r.session = SessionOf[r.path] /\ r.time \in Nat /\ r.hits \in Nat
    /\ r.of \subseteq {left} /\ r.path \notin deleted
    /\ r.matched = Terms[left] \cap (Label[r.session] \cup r.seen)
SNResults(results, left, deleted) ==
    /\ Sequenced(results) /\ \A i \in DOMAIN results : SNFound(results[i], left, deleted)
    /\ \A i, j \in DOMAIN results : results[i].session = results[j].session => i = j

(* The rows are those of the results and the query, in their order.         *)
SNWhole(query, words) == Terms[query.left] \subseteq words
SNMatch(query, r) ==
    SNWhole(query, r.matched) /\ query.refine \in Label[r.session] \cup r.name \cup r.said \cup {SN!NoWord}
SNBefore(query, l, r) ==
    IF SNWhole(query, l.meta) # SNWhole(query, r.meta) THEN SNWhole(query, l.meta)
    ELSE IF l.time # r.time THEN l.time > r.time
    ELSE IF l.hits # r.hits THEN l.hits > r.hits
    ELSE l.session < r.session
SNShown(query, results) == {i \in DOMAIN results : SNMatch(query, results[i])}
SNBelow(query, results) ==
    [i \in SNShown(query, results) |->
        {j \in SNShown(query, results) : SNBefore(query, results[j], results[i])}]
SNRows(query, results) == Sorted(SNShown(query, results), SNBelow(query, results))

(* The terms of the last search are those of the query.                     *)
SNIsText(text) == text = SN!Text(text.left, text.refine)
SNTerms(left, query) ==
    SNIsText(query) /\ (left # SN!NoLeft => query.left = left)
SNBase(s) ==
    /\ DOMAIN s = SNFields /\ SNReads(s.reads, s.searching, s.query.left, s.deleted)
    /\ SNResults(s.results, s.query.left, s.deleted) /\ SNTerms(s.left, s.query)
SNCore(s) == SNBase(s) /\ s.rows = SNRows(s.query, s.results)
SNText(s) == s.tab = "sessions" /\ s.text.left # SN!NoLeft => s.query = s.text
SNDrawn(s) ==
    s.tab = "sessions" =>
        /\ s.drawn.row = s.row /\ DOMAIN s.drawn.logs = DOMAIN s.rows
        /\ \A n \in DOMAIN s.rows : s.drawn.logs[n] = SN!SessionAtRow(s, n)
SNGood(s) == SNCore(s) /\ SNText(s)
SNInv == SNGood(st) /\ SNDrawn(st)

LEMMA SNSame ==
    ASSUME NEW s, NEW i, NEW j
    PROVE  /\ SN!Fitting(s) = SNShown(s.query, s.results)
           /\ SN!Before(s, i, j) <=> SNBefore(s.query, s.results[i], s.results[j])
<1>1. \A r : SN!MatchesRefine(s, r) <=> SNMatch(s.query, r)
  BY Zenon DEF SN!MatchesRefine, SNMatch, SN!Whole, SNWhole
<1>2. SN!Fitting(s) = SNShown(s.query, s.results)
  BY Zenon, <1>1 DEF SN!Fitting, SNShown
<1>3. SN!Before(s, i, j) <=> SNBefore(s.query, s.results[i], s.results[j])
  BY Zenon DEF SN!Before, SNBefore, SN!Whole, SNWhole
<1> QED
  BY Zenon, <1>2, <1>3

(* ApplyRefine leaves the rest as it is. *)
LEMMA SNRefines ==
    ASSUME NEW s, SNBase(s)
    PROVE  LET t == SN!ApplyRefine(s) IN
           /\ SNCore(t) /\ t.text = s.text /\ t.tab = s.tab /\ t.query = s.query
           /\ t.results = s.results /\ t.row = s.row /\ t.left = s.left /\ t.deleted = s.deleted
           /\ t.reads = s.reads /\ t.searching = s.searching
<1>. DEFINE fit == SN!Fitting(s)  b == [i \in fit |-> {j \in fit : SN!Before(s, j, i)}]
            t == [s EXCEPT !.rows = SN!Sorted(fit, b)]
<1>1. SN!ApplyRefine(s) = t
  BY Zenon DEF SN!ApplyRefine
<1>2. SN!Sorted(fit, b) = SNRows(s.query, s.results)
  <2>1. fit = SNShown(s.query, s.results)
    BY Zenon, SNSame
  <2>2. b = SNBelow(s.query, s.results)
    BY Zenon, <2>1, SNSame DEF SNBelow
  <2>. HIDE DEF fit, b
  <2> QED
    BY Zenon, <2>1, <2>2, SNOps DEF SNRows
<1>3. /\ DOMAIN t = SNFields /\ t.text = s.text /\ t.tab = s.tab /\ t.query = s.query
      /\ t.results = s.results /\ t.row = s.row /\ t.left = s.left /\ t.deleted = s.deleted
      /\ t.reads = s.reads /\ t.searching = s.searching /\ t.rows = SN!Sorted(fit, b)
  BY DEF SNBase, SNFields
<1>. HIDE DEF t, fit, b
<1>4. SNBase(t)
  BY Zenon, <1>3 DEF SNBase
<1>5. SNCore(t)
  BY Zenon, <1>2, <1>3, <1>4 DEF SNCore
<1> QED
  BY Zenon, <1>1, <1>3, <1>5

LEMMA SNDraws ==
    ASSUME NEW s, SNGood(s)
    PROVE  LET t == SN!UpdateDisplay(s) IN
           SNGood(t) /\ SNDrawn(t) /\ t.text = s.text /\ t.tab = s.tab /\ t.reads = s.reads
<1>. DEFINE d == [row |-> s.row, logs |-> [n \in DOMAIN s.rows |-> SN!SessionAtRow(s, n)]]
<1>1. PICK x : /\ SN!UpdateDisplay(s) = [s EXCEPT !.drawn = x]
               /\ s.tab = "sessions" => x = d
  BY Zenon DEF SN!UpdateDisplay
<1>. DEFINE t == [s EXCEPT !.drawn = x]
<1>2. /\ DOMAIN t = SNFields /\ t.text = s.text /\ t.tab = s.tab /\ t.query = s.query
      /\ t.results = s.results /\ t.row = s.row /\ t.left = s.left /\ t.deleted = s.deleted
      /\ t.reads = s.reads /\ t.searching = s.searching /\ t.rows = s.rows /\ t.drawn = x
  BY DEF SNGood, SNCore, SNBase, SNFields
<1>. HIDE DEF t
<1>3. SNGood(t)
  BY Zenon, <1>2 DEF SNGood, SNCore, SNBase, SNText
<1>4. \A n : SN!SessionAtRow(t, n) = SN!SessionAtRow(s, n)
  BY Zenon, <1>2 DEF SN!SessionAtRow
<1>5. s.tab = "sessions" => x.row = s.row /\ DOMAIN x.logs = DOMAIN s.rows
         /\ \A n \in DOMAIN s.rows : x.logs[n] = SN!SessionAtRow(s, n)
  BY <1>1
<1>6. SNDrawn(t)
  BY Zenon, <1>2, <1>4, <1>5 DEF SNDrawn
<1> QED
  BY Zenon, <1>1, <1>2, <1>3, <1>6 DEF t

(* After a cancellation no read is current. *)
LEMMA SNCancels ==
    ASSUME NEW s, SNCore(s)
    PROVE  LET t == SN!Cancel(s) IN
           /\ SNCore(t) /\ t.text = s.text /\ t.tab = s.tab /\ t.query = s.query
           /\ t.results = s.results /\ t.row = s.row /\ t.left = s.left /\ t.deleted = s.deleted
           /\ t.searching = FALSE /\ \A k \in DOMAIN t.reads : ~t.reads[k].current
<1>. DEFINE q == [k \in DOMAIN s.reads |-> [s.reads[k] EXCEPT !.current = FALSE]]
            t == [s EXCEPT !.searching = FALSE, !.reads = q]
<1>1. SN!Cancel(s) = t
  BY DEF SN!Cancel
<1>2. /\ DOMAIN s = SNFields /\ SNReads(s.reads, s.searching, s.query.left, s.deleted)
      /\ SNResults(s.results, s.query.left, s.deleted) /\ SNTerms(s.left, s.query)
      /\ s.rows = SNRows(s.query, s.results)
  BY Zenon DEF SNCore, SNBase
<1>3. Sequenced(q)
  <2>1. Len(s.reads) \in Nat /\ DOMAIN s.reads = 1..Len(s.reads)
    BY <1>2, Placed DEF SNReads
  <2>2. q \in [1..Len(s.reads) -> Elements(q)]
    <3>1. \A k \in 1..Len(s.reads) : q[k] \in Elements(q)
      BY <2>1 DEF Elements
    <3> QED
      BY <2>1, <3>1
  <2> QED
    BY <2>1, <2>2 DEF Sequenced
<1>4. DOMAIN q = DOMAIN s.reads /\ \A k \in DOMAIN q : q[k] = [s.reads[k] EXCEPT !.current = FALSE]
  OBVIOUS
<1>5. /\ DOMAIN t = SNFields /\ t.text = s.text /\ t.tab = s.tab /\ t.query = s.query
      /\ t.results = s.results /\ t.row = s.row /\ t.left = s.left /\ t.deleted = s.deleted
      /\ t.reads = q /\ t.searching = FALSE /\ t.rows = s.rows
  BY <1>2 DEF SNFields
<1>. HIDE DEF q, t
<1>6. ASSUME NEW k \in DOMAIN q
      PROVE  DOMAIN q[k] = {"left", "current", "logs"} /\ q[k].logs \subseteq Logs /\ q[k].current = FALSE
  <2>1. DOMAIN s.reads[k] = {"left", "current", "logs"} /\ s.reads[k].logs \subseteq Logs
    BY Zenon, <1>2, <1>4 DEF SNReads
  <2> QED
    BY <1>4, <2>1
<1>7. SNReads(q, FALSE, s.query.left, s.deleted)
  BY <1>3, <1>6 DEF SNReads
<1>8. SNCore(t)
  BY Zenon, <1>2, <1>5, <1>7 DEF SNCore, SNBase
<1> QED
  BY Zenon, <1>1, <1>5, <1>6, <1>8

(* Empty results have no rows. *)
LEMMA SNEmpty ==
    ASSUME NEW query, NEW left, NEW deleted
    PROVE  SNResults(<<>>, left, deleted) /\ SNRows(query, <<>>) = <<>>
<1>1. SNResults(<<>>, left, deleted)
  BY DEF SNResults, Sequenced, Elements
<1>2. SNShown(query, <<>>) = {}
  BY DEF SNShown
<1>3. Cardinality(SNShown(query, <<>>)) = 0
  BY Zenon, <1>2, FS_EmptySet
<1>4. SNRows(query, <<>>) = [n \in 1..0 |-> CHOOSE x \in SNShown(query, <<>>) :
                                Cardinality(SNBelow(query, <<>>)[x]) = n - 1]
  BY Zenon, <1>3 DEF SNRows, Sorted
<1> QED
  BY <1>1, <1>4

LEMMA SNSearchesAgain ==
    ASSUME NEW s, SNCore(s), NEW text, SNIsText(text), text.left = s.left
    PROVE  LET t == SN!ApplyRefine([s EXCEPT !.query.refine = text.refine]) IN
           /\ SNCore(t) /\ t.text = s.text /\ t.tab = s.tab /\ t.row = s.row
           /\ text.left # SN!NoLeft => t.query = text
           /\ t.deleted = s.deleted
<1>. DEFINE q == [s.query EXCEPT !.refine = text.refine]  u == [s EXCEPT !.query = q]
<1>1. /\ DOMAIN s = SNFields /\ SNReads(s.reads, s.searching, s.query.left, s.deleted)
      /\ SNResults(s.results, s.query.left, s.deleted) /\ SNTerms(s.left, s.query)
  BY Zenon DEF SNCore, SNBase
<1>2. [s EXCEPT !.query.refine = text.refine] = u
  BY <1>1 DEF SNFields
<1>3. SNIsText(q) /\ q.left = s.query.left /\ q.refine = text.refine
  BY <1>1 DEF SNTerms, SNIsText, SN!Text
<1>4. text.left # SN!NoLeft => q = text
  <2>1. text.left # SN!NoLeft => q.left = text.left
    BY Zenon, <1>1, <1>3 DEF SNTerms
  <2> QED
    BY Zenon, <1>3, <2>1 DEF SNIsText
<1>5. /\ DOMAIN u = SNFields /\ u.text = s.text /\ u.tab = s.tab /\ u.query = q
      /\ u.results = s.results /\ u.row = s.row /\ u.left = s.left /\ u.deleted = s.deleted
      /\ u.reads = s.reads /\ u.searching = s.searching
  BY <1>1 DEF SNFields
<1>. HIDE DEF u, q
<1>6. SNTerms(s.left, q)
  BY Zenon, <1>1, <1>3 DEF SNTerms
<1>7. SNBase(u)
  BY Zenon, <1>1, <1>3, <1>5, <1>6 DEF SNBase
<1> QED
  BY Zenon, <1>2, <1>4, <1>5, <1>7, SNRefines

LEMMA SNStarts ==
    ASSUME NEW s, SNCore(s), NEW text, SNIsText(text), NEW starts
    PROVE  \E t : /\ SN!NewSearch(s, text, starts) = SN!UpdateDisplay(t)
                  /\ SNCore(t) /\ t.text = s.text /\ t.tab = s.tab /\ t.query = text
                  /\ t.deleted = s.deleted
<1>. DEFINE c == SN!Cancel(s)
            t == [c EXCEPT !.results = <<>>, !.rows = <<>>, !.lines = 0, !.query = text,
                           !.left = text.left]
            read == [left |-> text.left, current |-> TRUE, logs |-> Logs \ s.deleted]
            u == [t EXCEPT !.searching = TRUE, !.reads = Append(@, read)]
<1>1. \/ SN!NewSearch(s, text, starts) = SN!UpdateDisplay(t)
      \/ SN!NewSearch(s, text, starts) = SN!UpdateDisplay(u)
  <2>1. SN!NewSearch(s, text, starts) =
            SN!UpdateDisplay(IF Terms[text.left] = {} \/ ~starts THEN t ELSE u)
    BY Zenon DEF SN!NewSearch
  <2>. HIDE DEF t, u
  <2> QED
    BY Zenon, <2>1
<1>2. /\ SNCore(c) /\ c.text = s.text /\ c.tab = s.tab /\ c.deleted = s.deleted
      /\ c.searching = FALSE /\ \A k \in DOMAIN c.reads : ~c.reads[k].current
  BY Zenon, SNCancels
<1>. HIDE DEF c
<1>3. /\ DOMAIN c = SNFields /\ SNReads(c.reads, c.searching, c.query.left, c.deleted)
  BY Zenon, <1>2 DEF SNCore, SNBase
<1>4. /\ DOMAIN t = SNFields /\ t.text = s.text /\ t.tab = s.tab /\ t.query = text
      /\ t.results = <<>> /\ t.left = text.left /\ t.deleted = s.deleted
      /\ t.reads = c.reads /\ t.searching = FALSE /\ t.rows = <<>>
  BY <1>2, <1>3 DEF SNFields
<1>. HIDE DEF t, read
<1>5. /\ DOMAIN u = SNFields /\ u.text = s.text /\ u.tab = s.tab /\ u.query = text
      /\ u.results = <<>> /\ u.left = text.left /\ u.deleted = s.deleted
      /\ u.reads = Append(c.reads, read) /\ u.searching = TRUE /\ u.rows = <<>>
  BY <1>4 DEF SNFields
<1>6. SNTerms(text.left, text) /\ SNResults(<<>>, text.left, s.deleted) /\ SNRows(text, <<>>) = <<>>
  BY Zenon, SNEmpty DEF SNTerms
<1>7. SNReads(c.reads, FALSE, text.left, s.deleted)
  BY Zenon, <1>2, <1>3 DEF SNReads
<1>8. SNReads(Append(c.reads, read), TRUE, text.left, s.deleted)
  <2>. DEFINE a == Append(c.reads, read)  n == Len(c.reads) + 1
  <2>1. Sequenced(c.reads)
    BY Zenon, <1>3 DEF SNReads
  <2>2. /\ Sequenced(a) /\ n \in DOMAIN a /\ n \notin DOMAIN c.reads /\ a[n] = read
        /\ \A j \in DOMAIN c.reads : j \in DOMAIN a /\ a[j] = c.reads[j]
        /\ \A j \in DOMAIN a : j \in DOMAIN c.reads \/ j = n
    BY Zenon, <2>1, Appends
  <2>3. /\ DOMAIN read = {"left", "current", "logs"} /\ read.logs \subseteq Logs
        /\ read.current = TRUE /\ read.left = text.left /\ read.logs \cap s.deleted = {}
    BY DEF read
  <2>. HIDE DEF a, n, read
  <2>4. \A j \in DOMAIN a : a[j].current <=> j = n
    <3> TAKE j \in DOMAIN a
    <3>1. CASE j = n
      BY Zenon, <2>2, <2>3, <3>1
    <3>2. CASE j # n
      BY Zenon, <1>2, <2>2, <3>2
    <3> QED
      BY Zenon, <3>1, <3>2
  <2>5. \A k \in DOMAIN a :
           /\ DOMAIN a[k] = {"left", "current", "logs"} /\ a[k].logs \subseteq Logs
           /\ a[k].current => a[k].left = text.left /\ a[k].logs \cap s.deleted = {}
    <3> TAKE k \in DOMAIN a
    <3>1. CASE k = n
      BY Zenon, <2>2, <2>3, <3>1
    <3>2. CASE k # n
      <4>1. k \in DOMAIN c.reads /\ a[k] = c.reads[k] /\ ~a[k].current
        BY Zenon, <2>2, <2>4, <3>2
      <4>2. DOMAIN c.reads[k] = {"left", "current", "logs"} /\ c.reads[k].logs \subseteq Logs
        BY Zenon, <1>3, <4>1 DEF SNReads
      <4> QED
        BY Zenon, <4>1, <4>2
    <3> QED
      BY Zenon, <3>1, <3>2
  <2>6. TRUE \in BOOLEAN
    OBVIOUS
  <2> QED
    BY Zenon, <2>2, <2>4, <2>5, <2>6 DEF SNReads, a
<1>9. SNCore(t) /\ SNCore(u)
  <2>. HIDE DEF t, u, read
  <2> QED
    BY Zenon, <1>4, <1>5, <1>6, <1>7, <1>8 DEF SNCore, SNBase
<1>. HIDE DEF t, u
<1> QED
  BY Zenon, <1>1, <1>4, <1>5, <1>9

LEMMA SNSearches ==
    ASSUME NEW s, SNCore(s), NEW text, SNIsText(text), NEW starts,
           s.tab = "sessions" /\ s.text.left # SN!NoLeft => text = s.text
    PROVE  LET t == SN!Search(s, text, starts) IN
           SNGood(t) /\ SNDrawn(t) /\ t.text = s.text /\ t.tab = s.tab
<1>1. ASSUME NEW t, SNCore(t), t.text = s.text, t.tab = s.tab, text.left # SN!NoLeft => t.query = text
      PROVE  LET u == SN!UpdateDisplay(t) IN
             SNGood(u) /\ SNDrawn(u) /\ u.text = s.text /\ u.tab = s.tab
  <2>1. SNText(t)
    BY Zenon, <1>1 DEF SNText
  <2>2. SNGood(t)
    BY Zenon, <1>1, <2>1 DEF SNGood
  <2> QED
    BY Zenon, <1>1, <2>2, SNDraws
<1>2. CASE text.left = s.left
  <2>. DEFINE t == SN!ApplyRefine([s EXCEPT !.query.refine = text.refine])
  <2>1. SN!Search(s, text, starts) = SN!UpdateDisplay(t)
    BY Zenon, <1>2 DEF SN!Search, SN!Refine
  <2>2. SNCore(t) /\ t.text = s.text /\ t.tab = s.tab /\ (text.left # SN!NoLeft => t.query = text)
    BY Zenon, <1>2, SNSearchesAgain
  <2>. HIDE DEF t
  <2> QED
    BY Zenon, <1>1, <2>1, <2>2
<1>3. CASE text.left # s.left
  <2>1. PICK t : /\ SN!NewSearch(s, text, starts) = SN!UpdateDisplay(t)
                 /\ SNCore(t) /\ t.text = s.text /\ t.tab = s.tab /\ t.query = text
                 /\ t.deleted = s.deleted
    BY SNStarts
  <2>2. SN!Search(s, text, starts) = SN!UpdateDisplay(t)
    BY Zenon, <1>3, <2>1 DEF SN!Search
  <2> QED
    BY Zenon, <1>1, <2>1, <2>2
<1> QED
  BY Zenon, <1>2, <1>3

(* What the rows do not come from. *)
LEMMA SNViews ==
    ASSUME NEW s, SNCore(s), NEW t, DOMAIN t = SNFields, t.query = s.query, t.results = s.results,
           t.rows = s.rows, t.deleted = s.deleted, t.reads = s.reads, t.searching = s.searching,
           t.left \in {s.left, SN!NoLeft}
    PROVE  SNCore(t)
<1>1. SNTerms(s.left, s.query) => SNTerms(t.left, s.query)
  BY DEF SNTerms
<1> QED
  BY Zenon, <1>1 DEF SNCore, SNBase

LEMMA SNMarks ==
    ASSUME NEW s, SNGood(s), NEW n
    PROVE  LET t == [s EXCEPT !.row = n] IN
           SNGood(t) /\ t.text = s.text /\ t.tab = s.tab
<1>. DEFINE t == [s EXCEPT !.row = n]
<1>1. DOMAIN s = SNFields /\ SNCore(s) /\ SNText(s)
  BY Zenon DEF SNGood, SNCore, SNBase
<1>2. /\ DOMAIN t = SNFields /\ t.query = s.query /\ t.results = s.results
      /\ t.rows = s.rows /\ t.deleted = s.deleted /\ t.reads = s.reads /\ t.searching = s.searching
      /\ t.left \in {s.left, SN!NoLeft} /\ t.text = s.text /\ t.tab = s.tab
  BY <1>1 DEF SNFields
<1>. HIDE DEF t
<1>3. SNCore(t)
  BY Zenon, <1>1, <1>2, SNViews
<1>4. SNText(t)
  BY Zenon, <1>1, <1>2 DEF SNText
<1> QED
  BY Zenon, <1>2, <1>3, <1>4 DEF SNGood, t

LEMMA SNCloses ==
    ASSUME NEW s, SNGood(s)
    PROVE  LET t == SN!Closed(s) IN
           SNGood(t) /\ (SNDrawn(s) => SNDrawn(t)) /\ t.text = s.text /\ t.tab = s.tab
<1>. DEFINE t == SN!Closed(s)
<1>1. DOMAIN s = SNFields /\ SNCore(s) /\ SNText(s)
  BY Zenon DEF SNGood, SNCore, SNBase
<1>2. /\ DOMAIN t = SNFields /\ t.query = s.query /\ t.results = s.results /\ t.row = s.row
      /\ t.rows = s.rows /\ t.deleted = s.deleted /\ t.reads = s.reads /\ t.searching = s.searching
      /\ t.left \in {s.left, SN!NoLeft} /\ t.text = s.text /\ t.tab = s.tab /\ t.drawn = s.drawn
  BY <1>1 DEF SNFields, SN!Closed
<1>. HIDE DEF t
<1>3. SNCore(t)
  BY Zenon, <1>1, <1>2, SNViews
<1>4. SNText(t)
  BY Zenon, <1>1, <1>2 DEF SNText
<1>5. \A n : SN!SessionAtRow(t, n) = SN!SessionAtRow(s, n)
  BY Zenon, <1>2 DEF SN!SessionAtRow
<1>6. SNDrawn(s) => SNDrawn(t)
  BY Zenon, <1>2, <1>5 DEF SNDrawn
<1> QED
  BY Zenon, <1>2, <1>3, <1>4, <1>6 DEF SNGood, t

SNSays(s, text) == s.text = text
LEMMA SNChanges ==
    ASSUME NEW s, SNCore(s), NEW text, SNIsText(text), NEW starts, SNSays(s, text) => SNText(s)
    PROVE  LET t == SN!OnQueryChanged(s, text, starts) IN
           SNGood(t) /\ (SNSays(s, text) \/ SNDrawn(t)) /\ SNSays(t, text) /\ t.tab = s.tab
<1>. DEFINE u == [s EXCEPT !.text = text]  f == SN!Search(u, text, starts)  g == [f EXCEPT !.row = 1]
<1>1. CASE text = s.text
  <2>1. SN!OnQueryChanged(s, text, starts) = s
    BY Zenon, <1>1 DEF SN!OnQueryChanged
  <2> QED
    BY Zenon, <1>1, <2>1 DEF SNGood, SNSays
<1>2. DOMAIN s = SNFields
  BY Zenon DEF SNCore, SNBase
<1>3. /\ DOMAIN u = SNFields /\ u.query = s.query /\ u.results = s.results
      /\ u.rows = s.rows /\ u.deleted = s.deleted /\ u.reads = s.reads /\ u.searching = s.searching
      /\ u.left \in {s.left, SN!NoLeft} /\ u.text = text /\ u.tab = s.tab
  BY <1>2 DEF SNFields
<1>. HIDE DEF u
<1>4. SNCore(u)
  BY Zenon, <1>3, SNViews
<1>5. CASE text # s.text /\ s.tab # "sessions"
  <2>1. SN!OnQueryChanged(s, text, starts) = SN!UpdateDisplay(u)
    BY Zenon, <1>5 DEF SN!OnQueryChanged, u
  <2>2. SNText(u)
    BY Zenon, <1>3, <1>5 DEF SNText
  <2>3. SNGood(u)
    BY Zenon, <1>4, <2>2 DEF SNGood
  <2> QED
    BY Zenon, <1>3, <2>1, <2>3, SNDraws DEF SNSays
<1>6. CASE text # s.text /\ s.tab = "sessions"
  <2>1. SN!OnQueryChanged(s, text, starts) = SN!UpdateDisplay(g)
    BY Zenon, <1>6 DEF SN!OnQueryChanged, u
  <2>2. SNGood(f) /\ f.text = text /\ f.tab = s.tab
    <3>1. text = u.text /\ u.tab = s.tab
      BY Zenon, <1>3
    <3>2. u.tab = "sessions" /\ u.text.left # SN!NoLeft => text = u.text
      BY Zenon, <3>1
    <3>3. SNGood(f) /\ f.text = u.text /\ f.tab = u.tab
      BY Zenon, <1>4, <3>2, SNSearches
    <3> QED
      BY Zenon, <3>1, <3>3
  <2>. HIDE DEF f
  <2>3. SNGood(g) /\ g.text = text /\ g.tab = s.tab
    BY Zenon, <2>2, SNMarks
  <2>. HIDE DEF g
  <2> QED
    BY Zenon, <2>1, <2>3, SNDraws DEF SNSays
<1> QED
  BY Zenon, <1>1, <1>5, <1>6

LEMMA SNTexts ==
    /\ SNIsText(SN!NoText) /\ SN!NoText.left = SN!NoLeft
    /\ \A text \in SN!Texts \cup {SN!Elsewhere} : SNIsText(text)
BY DEF SNIsText, SN!NoText, SN!Texts, SN!Elsewhere, SN!Text

LEMMA SNTypeStep ==
    ASSUME SNInv, NEW text \in SN!Texts \cup {SN!Elsewhere}, NEW starts, SN!TypeText(text, starts)
    PROVE  SNInv'
<1>1. text # st.text /\ st' = SN!OnQueryChanged(st, text, starts)
  BY Zenon DEF SN!TypeText
<1>2. SNCore(st) /\ SNIsText(text)
  BY Zenon, SNTexts DEF SNInv, SNGood
<1> QED
  BY Zenon, <1>1, <1>2, SNChanges DEF SNInv, SNGood, SNSays

(* Another tab. *)
LEMMA SNMoves ==
    ASSUME NEW s, SNCore(s), NEW tab
    PROVE  LET t == [s EXCEPT !.tab = tab] IN
           SNCore(t) /\ t.tab = tab /\ t.text = s.text
<1>. DEFINE t == [s EXCEPT !.tab = tab]
<1>1. DOMAIN s = SNFields
  BY Zenon DEF SNCore, SNBase
<1>2. /\ DOMAIN t = SNFields /\ t.query = s.query /\ t.results = s.results
      /\ t.rows = s.rows /\ t.deleted = s.deleted /\ t.reads = s.reads /\ t.searching = s.searching
      /\ t.left \in {s.left, SN!NoLeft} /\ t.text = s.text /\ t.tab = tab
  BY <1>1 DEF SNFields
<1>. HIDE DEF t
<1> QED
  BY Zenon, <1>2, SNViews DEF t

LEMMA SNOpenStep == ASSUME SNInv, SN!OpenTab PROVE SNInv'
<1>. DEFINE t == [st EXCEPT !.tab = "sessions"]  s == SN!OnQueryChanged(t, SN!NoText, TRUE)
            c == SN!Cancel(s)  d == [c EXCEPT !.left = SN!NoLeft]  e == SN!OnEnter(s)
            f == [e EXCEPT !.row = 1]
<1>1. st' = SN!UpdateDisplay(f)
  BY Zenon DEF SN!OpenTab
<1>2. SNCore(t) /\ t.text = st.text
  BY Zenon, SNMoves DEF SNInv, SNGood
<1>. HIDE DEF t
<1>3. SNGood(s) /\ s.text = SN!NoText
  <2>1. SNIsText(SN!NoText)
    BY Zenon, SNTexts
  <2>2. SNSays(t, SN!NoText) => SNText(t)
    BY Zenon, SNTexts DEF SNText, SNSays
  <2>3. SNGood(s) /\ SNSays(s, SN!NoText)
    BY Zenon, <1>2, <2>1, <2>2, SNChanges
  <2> QED
    BY Zenon, <2>3 DEF SNSays
<1>. HIDE DEF s
<1>4. SNCore(c) /\ c.text = SN!NoText /\ DOMAIN c = SNFields
  <2>1. SNCore(s)
    BY Zenon, <1>3 DEF SNGood
  <2>2. SNCore(c) /\ c.text = s.text
    BY Zenon, <2>1, SNCancels
  <2> QED
    BY Zenon, <1>3, <2>2 DEF SNCore, SNBase
<1>5. e = SN!Search(d, SN!NoText, TRUE)
  BY Zenon, <1>3 DEF SN!OnEnter
<1>. HIDE DEF c
<1>6. /\ DOMAIN d = SNFields /\ d.query = c.query /\ d.results = c.results
      /\ d.rows = c.rows /\ d.deleted = c.deleted /\ d.reads = c.reads /\ d.searching = c.searching
      /\ d.left \in {c.left, SN!NoLeft} /\ d.text = SN!NoText
  BY <1>4 DEF SNFields
<1>. HIDE DEF d, e
<1>7. SNCore(d)
  BY Zenon, <1>4, <1>6, SNViews
<1>8. SNGood(e)
  BY Zenon, <1>5, <1>6, <1>7, SNTexts, SNSearches
<1>9. SNGood(f)
  BY Zenon, <1>8, SNMarks
<1>. HIDE DEF f
<1> QED
  BY Zenon, <1>1, <1>9, SNDraws DEF SNInv

LEMMA SNLeaves ==
    ASSUME NEW s, SNCore(s)
    PROVE  SNGood(SN!OnQueryChanged([s EXCEPT !.tab = "windows"], SN!NoText, TRUE))
<1>. DEFINE t == [s EXCEPT !.tab = "windows"]
<1>1. SNCore(t) /\ t.tab = "windows"
  BY Zenon, SNMoves
<1>2. SNText(t)
  <2>1. t.tab # "sessions"
    BY <1>1
  <2> QED
    BY Zenon, <2>1 DEF SNText
<1>. HIDE DEF t
<1>3. SNGood(SN!OnQueryChanged(t, SN!NoText, TRUE))
  BY Zenon, <1>1, <1>2, SNTexts, SNChanges
<1> QED
  BY Zenon, <1>3 DEF t

LEMMA SNLeaveSteps == ASSUME SNInv, SN!LeaveTab \/ SN!BackToWindows PROVE SNInv'
<1>1. PICK s : /\ s = st \/ s = SN!Cancel(st)
               /\ st' = SN!UpdateDisplay(SN!OnQueryChanged([s EXCEPT !.tab = "windows"], SN!NoText, TRUE))
  BY Zenon DEF SN!LeaveTab, SN!BackToWindows
<1>2. SNCore(st)
  BY Zenon DEF SNInv, SNGood
<1>3. SNCore(s)
  BY Zenon, <1>1, <1>2, SNCancels
<1> QED
  BY Zenon, <1>1, <1>3, SNLeaves, SNDraws DEF SNInv

LEMMA SNHides ==
    ASSUME NEW s, SNGood(s)
    PROVE  SNGood(SN!HideWindow(s)) /\ SNDrawn(SN!HideWindow(s))
<1>. DEFINE t == SN!OnQueryChanged(s, SN!NoText, TRUE)
            c == IF s.tab = "sessions" THEN SN!Cancel(t) ELSE t
            w == [c EXCEPT !.tab = "windows"]
<1>1. SN!HideWindow(s) = SN!UpdateDisplay(SN!Closed(w))
  BY Zenon DEF SN!HideWindow
<1>2. SNCore(t)
  BY Zenon, SNTexts, SNChanges DEF SNGood
<1>. HIDE DEF t
<1>3. SNCore(c)
  <2>1. c = SN!Cancel(t) \/ c = t
    BY Zenon
  <2>. HIDE DEF c
  <2> QED
    BY Zenon, <1>2, <2>1, SNCancels
<1>. HIDE DEF c
<1>4. SNCore(w) /\ w.tab = "windows"
  BY Zenon, <1>3, SNMoves
<1>. HIDE DEF w
<1>5. SNText(w)
  <2>1. w.tab # "sessions"
    BY <1>4
  <2> QED
    BY Zenon, <2>1 DEF SNText
<1>6. SNGood(SN!Closed(w))
  BY Zenon, <1>4, <1>5, SNCloses DEF SNGood
<1> QED
  BY Zenon, <1>1, <1>6, SNDraws

LEMMA SNHideSteps == ASSUME SNInv, SN!Hide \/ SN!Resume PROVE SNInv'
<1>1. st' = SN!HideWindow(st)
  BY Zenon DEF SN!Hide, SN!Resume
<1> QED
  BY Zenon, <1>1, SNHides DEF SNInv

LEMMA SNMarkStep == ASSUME SNInv, NEW n, SN!MoveTo(n) PROVE SNInv'
<1>1. st' = SN!UpdateDisplay([st EXCEPT !.row = n])
  BY Zenon DEF SN!MoveTo
<1>2. SNGood([st EXCEPT !.row = n])
  BY Zenon, SNMarks DEF SNInv
<1> QED
  BY Zenon, <1>1, <1>2, SNDraws DEF SNInv

LEMMA SNOverlays == ASSUME SNInv, SN!Dismiss \/ \E what \in {"rename", "delete"} : SN!Ask(what) PROVE SNInv'
<1>1. CASE SN!Dismiss
  <2>1. st' = SN!Closed(st)
    BY Zenon, <1>1 DEF SN!Dismiss
  <2> QED
    BY Zenon, <2>1, SNCloses DEF SNInv
<1>2. CASE \E what \in {"rename", "delete"} : SN!Ask(what)
  <2>1. PICK what, log : st' = [st EXCEPT !.overlay = what, !.about = log]
    BY Zenon, <1>2 DEF SN!Ask
  <2>2. DOMAIN st = SNFields /\ SNCore(st) /\ SNText(st) /\ SNDrawn(st)
    BY Zenon DEF SNInv, SNGood, SNCore, SNBase
  <2>3. /\ DOMAIN st' = SNFields /\ st'.query = st.query /\ st'.results = st.results /\ st'.row = st.row
        /\ st'.rows = st.rows /\ st'.deleted = st.deleted /\ st'.reads = st.reads
        /\ st'.searching = st.searching /\ st'.left \in {st.left, SN!NoLeft} /\ st'.text = st.text
        /\ st'.tab = st.tab /\ st'.drawn = st.drawn
    BY <2>1, <2>2 DEF SNFields
  <2>4. SNCore(st')
    BY Zenon, <2>2, <2>3, SNViews
  <2>5. SNText(st')
    BY Zenon, <2>2, <2>3 DEF SNText
  <2>6. \A n : SN!SessionAtRow(st', n) = SN!SessionAtRow(st, n)
    BY Zenon, <2>3 DEF SN!SessionAtRow
  <2>7. SNDrawn(st')
    BY Zenon, <2>2, <2>3, <2>6 DEF SNDrawn
  <2> QED
    BY Zenon, <2>4, <2>5, <2>7 DEF SNInv, SNGood
<1> QED
  BY Zenon, <1>1, <1>2

(* A read is dropped. *)
LEMMA SNDropsRead ==
    ASSUME NEW reads, NEW searching, NEW left, NEW deleted, SNReads(reads, searching, left, deleted),
           NEW k \in DOMAIN reads
    PROVE  LET q == SN!Dropped(reads, k) IN
           /\ ~reads[k].current => SNReads(q, searching, left, deleted)
           /\ reads[k].current => SNReads(q, FALSE, left, deleted)
<1>. DEFINE J == DOMAIN reads \ {k}  q == Picked(reads, J)
<1>1. SN!Dropped(reads, k) = q
  BY Zenon, SNOps DEF SN!Dropped
<1>2. Sequenced(reads)
  BY Zenon DEF SNReads
<1>3. /\ Sequenced(q)
      /\ \A n \in DOMAIN q : Nth(J, n) \in DOMAIN reads /\ Nth(J, n) # k /\ q[n] = reads[Nth(J, n)]
      /\ \A m, n \in DOMAIN q : Nth(J, m) = Nth(J, n) => m = n
      /\ \A j \in DOMAIN reads : j # k => \E n \in DOMAIN q : Nth(J, n) = j
  <2>1. Dropping(reads, k, J, q)
    BY Zenon, <1>2, Drops
  <2>. HIDE DEF J, q
  <2> QED
    BY Zenon, <2>1 DEF Dropping
<1>. HIDE DEF J, q
<1>4. /\ \A n \in DOMAIN q :
             /\ DOMAIN q[n] = {"left", "current", "logs"} /\ q[n].logs \subseteq Logs
             /\ q[n].current => searching /\ q[n].left = left /\ q[n].logs \cap deleted = {}
      /\ \A m, n \in DOMAIN q : q[m].current /\ q[n].current => m = n
  <2>1. \A n \in DOMAIN q :
             /\ DOMAIN q[n] = {"left", "current", "logs"} /\ q[n].logs \subseteq Logs
             /\ q[n].current => searching /\ q[n].left = left /\ q[n].logs \cap deleted = {}
    <3> TAKE n \in DOMAIN q
    <3>. DEFINE p == Nth(J, n)
    <3>1. p \in DOMAIN reads /\ q[n] = reads[p]
      BY Zenon, <1>3
    <3>. HIDE DEF p
    <3>2. /\ DOMAIN reads[p] = {"left", "current", "logs"} /\ reads[p].logs \subseteq Logs
          /\ reads[p].current => searching /\ reads[p].left = left /\ reads[p].logs \cap deleted = {}
      BY Zenon, <3>1 DEF SNReads
    <3> QED
      BY <3>1, <3>2
  <2>2. ASSUME NEW m \in DOMAIN q, NEW n \in DOMAIN q, q[m].current, q[n].current PROVE m = n
    <3>1. reads[Nth(J, m)].current /\ reads[Nth(J, n)].current
      BY Zenon, <1>3, <2>2
    <3>2. Nth(J, m) = Nth(J, n)
      BY Zenon, <1>3, <3>1 DEF SNReads
    <3> QED
      BY Zenon, <1>3, <3>2
  <2> QED
    BY Zenon, <2>1, <2>2
<1>5. ASSUME ~reads[k].current PROVE SNReads(q, searching, left, deleted)
  <2>1. searching => \E n \in DOMAIN q : q[n].current
    <3> HAVE searching
    <3>1. PICK j \in DOMAIN reads : reads[j].current
      BY Zenon DEF SNReads
    <3>2. j # k
      BY Zenon, <1>5, <3>1
    <3>3. PICK n \in DOMAIN q : Nth(J, n) = j
      BY Zenon, <1>3, <3>2
    <3> QED
      BY Zenon, <1>3, <3>1, <3>3
  <2>2. searching \in BOOLEAN
    BY Zenon DEF SNReads
  <2> QED
    BY Zenon, <1>3, <1>4, <2>1, <2>2 DEF SNReads
<1>6. ASSUME reads[k].current PROVE SNReads(q, FALSE, left, deleted)
  <2>1. ASSUME NEW n \in DOMAIN q, q[n].current PROVE FALSE
    <3>1. reads[Nth(J, n)].current /\ Nth(J, n) # k /\ Nth(J, n) \in DOMAIN reads
      BY Zenon, <1>3, <2>1
    <3> QED
      BY Zenon, <1>6, <3>1 DEF SNReads
  <2>2. FALSE \in BOOLEAN
    OBVIOUS
  <2> QED
    BY Zenon, <1>3, <1>4, <2>1, <2>2 DEF SNReads
<1> QED
  BY Zenon, <1>1, <1>5, <1>6

(* The search ends, the rest stays as it is. *)
LEMMA SNStops ==
    ASSUME NEW s, SNGood(s), NEW k \in DOMAIN s.reads, s.reads[k].current
    PROVE  LET t == [s EXCEPT !.searching = FALSE, !.reads = SN!Dropped(@, k)] IN
           SNGood(t) /\ (SNDrawn(s) => SNDrawn(t))
<1>. DEFINE q == SN!Dropped(s.reads, k)  t == [s EXCEPT !.searching = FALSE, !.reads = q]
<1>1. /\ DOMAIN s = SNFields /\ SNReads(s.reads, s.searching, s.query.left, s.deleted)
      /\ SNResults(s.results, s.query.left, s.deleted) /\ SNTerms(s.left, s.query)
      /\ s.rows = SNRows(s.query, s.results) /\ SNText(s)
  BY Zenon DEF SNGood, SNCore, SNBase
<1>2. SNReads(q, FALSE, s.query.left, s.deleted)
  BY Zenon, <1>1, SNDropsRead
<1>. HIDE DEF q
<1>3. /\ DOMAIN t = SNFields /\ t.text = s.text /\ t.tab = s.tab /\ t.query = s.query
      /\ t.results = s.results /\ t.row = s.row /\ t.left = s.left /\ t.deleted = s.deleted
      /\ t.reads = q /\ t.searching = FALSE /\ t.rows = s.rows /\ t.drawn = s.drawn
  BY <1>1 DEF SNFields
<1>. HIDE DEF t
<1>4. SNCore(t)
  BY Zenon, <1>1, <1>2, <1>3 DEF SNCore, SNBase
<1>5. SNText(t)
  BY Zenon, <1>1, <1>3 DEF SNText
<1>6. \A n : SN!SessionAtRow(t, n) = SN!SessionAtRow(s, n)
  BY Zenon, <1>3 DEF SN!SessionAtRow
<1>7. SNDrawn(s) => SNDrawn(t)
  BY Zenon, <1>3, <1>6 DEF SNDrawn
<1> QED
  BY Zenon, <1>4, <1>5, <1>7 DEF SNGood, t, q

LEMMA SNStaleStep == ASSUME SNInv, NEW k, SN!OnStale(k) PROVE SNInv'
<1>. DEFINE q == SN!Dropped(st.reads, k)
<1>1. k \in DOMAIN st.reads /\ ~st.reads[k].current /\ st' = [st EXCEPT !.reads = q]
  BY Zenon DEF SN!OnStale
<1>2. /\ DOMAIN st = SNFields /\ SNReads(st.reads, st.searching, st.query.left, st.deleted)
      /\ SNResults(st.results, st.query.left, st.deleted) /\ SNTerms(st.left, st.query)
      /\ st.rows = SNRows(st.query, st.results) /\ SNText(st) /\ SNDrawn(st)
  BY Zenon DEF SNInv, SNGood, SNCore, SNBase
<1>3. SNReads(q, st.searching, st.query.left, st.deleted)
  BY Zenon, <1>1, <1>2, SNDropsRead
<1>. HIDE DEF q
<1>4. /\ DOMAIN st' = SNFields /\ st'.text = st.text /\ st'.tab = st.tab /\ st'.query = st.query
      /\ st'.results = st.results /\ st'.row = st.row /\ st'.left = st.left /\ st'.deleted = st.deleted
      /\ st'.reads = q /\ st'.searching = st.searching /\ st'.rows = st.rows /\ st'.drawn = st.drawn
  BY <1>1, <1>2 DEF SNFields
<1>5. SNCore(st')
  BY Zenon, <1>2, <1>3, <1>4 DEF SNCore, SNBase
<1>6. SNText(st')
  BY Zenon, <1>2, <1>4 DEF SNText
<1>7. \A n : SN!SessionAtRow(st', n) = SN!SessionAtRow(st, n)
  BY Zenon, <1>4 DEF SN!SessionAtRow
<1>8. SNDrawn(st')
  BY Zenon, <1>2, <1>4, <1>7 DEF SNDrawn
<1> QED
  BY Zenon, <1>5, <1>6, <1>8 DEF SNInv, SNGood

LEMMA SNEndStep == ASSUME SNInv, NEW k, SN!OnEnd(k) PROVE SNInv'
<1>. DEFINE t == [st EXCEPT !.searching = FALSE, !.reads = SN!Dropped(@, k)]
<1>1. k \in DOMAIN st.reads /\ st.reads[k].current /\ st' = SN!UpdateDisplay(t)
  BY Zenon DEF SN!OnEnd
<1>2. SNGood(t)
  BY Zenon, <1>1, SNStops DEF SNInv
<1>. HIDE DEF t
<1> QED
  BY Zenon, <1>1, <1>2, SNDraws DEF SNInv

(* A result in the place of another of its session, or a new one. *)
LEMMA SNReplaces ==
    ASSUME NEW results, NEW left, NEW deleted, SNResults(results, left, deleted),
           NEW i \in DOMAIN results, NEW v, SNFound(v, left, deleted), v.session = results[i].session
    PROVE  SNResults([results EXCEPT ![i] = v], left, deleted)
<1>. DEFINE g == [results EXCEPT ![i] = v]
<1>1. Sequenced(results)
  BY Zenon DEF SNResults
<1>2. Sequenced(g) /\ DOMAIN g = DOMAIN results /\ g[i] = v /\ \A j \in DOMAIN results : j # i => g[j] = results[j]
  BY Zenon, <1>1, Replaces
<1>. HIDE DEF g
<1>3. \A j \in DOMAIN g : SNFound(g[j], left, deleted) /\ g[j].session = results[j].session
  <2> TAKE j \in DOMAIN g
  <2>1. CASE j = i
    BY Zenon, <1>2, <2>1
  <2>2. CASE j # i
    BY Zenon, <1>2, <2>2 DEF SNResults
  <2> QED
    BY Zenon, <2>1, <2>2
<1>4. \A j, k \in DOMAIN g : g[j].session = g[k].session => j = k
  BY Zenon, <1>2, <1>3 DEF SNResults
<1> QED
  BY Zenon, <1>2, <1>3, <1>4 DEF SNResults, g

LEMMA SNAdds ==
    ASSUME NEW results, NEW left, NEW deleted, SNResults(results, left, deleted),
           NEW v, SNFound(v, left, deleted), \A i \in DOMAIN results : results[i].session # v.session
    PROVE  SNResults(Append(results, v), left, deleted)
<1>. DEFINE g == Append(results, v)  n == Len(results) + 1
<1>1. Sequenced(results)
  BY Zenon DEF SNResults
<1>2. /\ Sequenced(g) /\ g[n] = v /\ \A j \in DOMAIN g : j \in DOMAIN results \/ j = n
      /\ \A j \in DOMAIN results : g[j] = results[j]
  BY Zenon, <1>1, Appends
<1>. HIDE DEF g, n
<1>3. \A j \in DOMAIN g : SNFound(g[j], left, deleted)
  BY Zenon, <1>2 DEF SNResults
<1>4. ASSUME NEW j \in DOMAIN g, NEW k \in DOMAIN g, g[j].session = g[k].session PROVE j = k
  <2>1. CASE j = n /\ k \in DOMAIN results
    <3>1. results[k].session = v.session
      BY Zenon, <1>2, <1>4, <2>1
    <3> QED
      BY Zenon, <2>1, <3>1
  <2>2. CASE k = n /\ j \in DOMAIN results
    <3>1. results[j].session = v.session
      BY Zenon, <1>2, <1>4, <2>2
    <3> QED
      BY Zenon, <2>2, <3>1
  <2>3. CASE j \in DOMAIN results /\ k \in DOMAIN results
    <3>1. results[j].session = results[k].session
      BY Zenon, <1>2, <1>4, <2>3
    <3> QED
      BY Zenon, <2>3, <3>1 DEF SNResults
  <2> QED
    BY Zenon, <1>2, <2>1, <2>2, <2>3
<1> QED
  BY Zenon, <1>2, <1>3, <1>4 DEF SNResults, g

LEMMA SNMerges ==
    ASSUME SessionsFit, NEW r, NEW left, NEW deleted, SNFound(r, left, deleted),
           NEW log \in Logs, log \notin deleted, SessionOf[log] = r.session
    PROVE  SNFound(SN!Merge(r, log), left, deleted) /\ SN!Merge(r, log).session = r.session
<1>1. PICK p, t : SN!Merge(r, log) = [r EXCEPT !.path = p, !.time = t]
                  /\ p \in {r.path, log} /\ t \in {r.time, Modified[log]}
  <2>. DEFINE p == IF SN!Prefers(r, log) THEN log ELSE r.path
              t == IF Modified[log] > r.time THEN Modified[log] ELSE r.time
  <2>1. SN!Merge(r, log) = [r EXCEPT !.path = p, !.time = t]
    BY DEF SN!Merge
  <2>2. p \in {r.path, log} /\ t \in {r.time, Modified[log]}
    OBVIOUS
  <2>. HIDE DEF p, t
  <2> QED
    BY Zenon, <2>1, <2>2
<1>2. Modified[log] \in Nat
  BY DEF SessionsFit
<1>. DEFINE u == [r EXCEPT !.path = p, !.time = t]
<1>3. /\ DOMAIN u = SNResult /\ u.session = r.session /\ u.path = p /\ u.time = t /\ u.hits = r.hits
      /\ u.of = r.of /\ u.matched = r.matched /\ u.seen = r.seen
  BY DEF SNFound, SNResult
<1>4. p \in Logs /\ r.session = SessionOf[p] /\ p \notin deleted /\ t \in Nat
  BY <1>1, <1>2 DEF SNFound
<1>. HIDE DEF u
<1>5. SNFound(u, left, deleted)
  BY Zenon, <1>3, <1>4 DEF SNFound
<1> QED
  BY Zenon, <1>1, <1>3, <1>5 DEF u

(* What FindOrAdd leaves, which the rows do not fit yet. *)
LEMMA SNResulting ==
    ASSUME NEW s, SNBase(s), NEW results, SNResults(results, s.query.left, s.deleted)
    PROVE  LET t == [s EXCEPT !.results = results] IN
           /\ SNBase(t) /\ t.text = s.text /\ t.tab = s.tab /\ t.query = s.query
           /\ t.results = results /\ t.left = s.left /\ t.deleted = s.deleted
           /\ t.reads = s.reads /\ t.searching = s.searching
<1>. DEFINE t == [s EXCEPT !.results = results]
<1>1. /\ DOMAIN s = SNFields /\ SNReads(s.reads, s.searching, s.query.left, s.deleted)
      /\ SNTerms(s.left, s.query)
  BY Zenon DEF SNBase
<1>2. /\ DOMAIN t = SNFields /\ t.text = s.text /\ t.tab = s.tab /\ t.query = s.query
      /\ t.results = results /\ t.left = s.left /\ t.deleted = s.deleted
      /\ t.reads = s.reads /\ t.searching = s.searching
  BY <1>1 DEF SNFields
<1>. HIDE DEF t
<1>3. SNBase(t)
  BY Zenon, <1>1, <1>2 DEF SNBase
<1> QED
  BY Zenon, <1>2, <1>3 DEF t

LEMMA SNFirst ==
    ASSUME NEW s, SNBase(s), NEW S, S \subseteq DOMAIN s.results, S # {}
    PROVE  SN!Nth(S, 1) \in S
<1>1. Sequenced(s.results)
  BY Zenon DEF SNBase, SNResults
<1> QED
  BY Zenon, <1>1, FirstPlace, SNOps

LEMMA SNFinds ==
    ASSUME SessionsFit, NEW s, SNBase(s), NEW log \in Logs, log \notin s.deleted
    PROVE  LET t == SN!FindOrAdd(s, log) IN
           /\ SNBase(t) /\ t.text = s.text /\ t.tab = s.tab /\ t.query = s.query
           /\ t.left = s.left /\ t.deleted = s.deleted
           /\ t.reads = s.reads /\ t.searching = s.searching
<1>. DEFINE at == SN!OfSession(s, SessionOf[log])  i == SN!Nth(at, 1)
            new == [session |-> SessionOf[log], path |-> log, time |-> Modified[log], hits |-> 0,
                    said |-> {}, name |-> {}, matched |-> {}, meta |-> {}, seen |-> {}, of |-> {}]
            m == SN!Metadata(s, new)
            v == [new EXCEPT !.meta = m, !.matched = m]
            f == [s.results EXCEPT ![i] = SN!Merge(s.results[i], log)]  g == Append(s.results, v)
<1>1. \/ at # {} /\ SN!FindOrAdd(s, log) = [s EXCEPT !.results = f]
      \/ at = {} /\ SN!FindOrAdd(s, log) = s
      \/ at = {} /\ SN!FindOrAdd(s, log) = [s EXCEPT !.results = g]
  <2>1. SN!FindOrAdd(s, log) = IF at # {} THEN [s EXCEPT !.results[i] = SN!Merge(@, log)]
                               ELSE IF Len(s.results) >= MaxSessions THEN s
                               ELSE [s EXCEPT !.results = g]
    BY DEF SN!FindOrAdd
  <2>2. [s EXCEPT !.results[i] = SN!Merge(@, log)] = [s EXCEPT !.results = f]
    BY DEF SNBase, SNFields
  <2>. HIDE DEF at, i, f, g, v
  <2> QED
    BY Zenon, <2>1, <2>2
<1>2. SNResults(s.results, s.query.left, s.deleted)
  BY Zenon DEF SNBase
<1>3. at \subseteq DOMAIN s.results /\ \A j : j \in at <=> j \in DOMAIN s.results /\ s.results[j].session = SessionOf[log]
  BY DEF SN!OfSession
<1>4. CASE at # {}
  <2>1. i \in at
    BY Zenon, <1>3, <1>4, SNFirst
  <2>. DEFINE u == SN!Merge(s.results[i], log)
  <2>. HIDE DEF at, i
  <2>2. i \in DOMAIN s.results /\ s.results[i].session = SessionOf[log]
    BY Zenon, <1>3, <2>1
  <2>3. SNFound(s.results[i], s.query.left, s.deleted)
    BY Zenon, <1>2, <2>2 DEF SNResults
  <2>4. SNFound(u, s.query.left, s.deleted) /\ u.session = s.results[i].session
    BY Zenon, <2>2, <2>3, SNMerges
  <2>. HIDE DEF u
  <2>5. SNResults([s.results EXCEPT ![i] = u], s.query.left, s.deleted)
    BY Zenon, <1>2, <2>2, <2>4, SNReplaces
  <2>6. SNResults(f, s.query.left, s.deleted)
    BY Zenon, <2>5 DEF u
  <2>. HIDE DEF f
  <2>. DEFINE w == [s EXCEPT !.results = f]
  <2>7. /\ SNBase(w) /\ w.text = s.text /\ w.tab = s.tab /\ w.query = s.query
        /\ w.left = s.left /\ w.deleted = s.deleted /\ w.reads = s.reads /\ w.searching = s.searching
    BY Zenon, <2>6, SNResulting
  <2>8. SN!FindOrAdd(s, log) = w
    BY Zenon, <1>1, <1>4
  <2>. HIDE DEF w
  <2> QED
    BY Zenon, <2>7, <2>8
<1>5. SNResults(g, s.query.left, s.deleted) \/ at # {}
  <2> SUFFICES ASSUME at = {} PROVE SNResults(g, s.query.left, s.deleted)
    BY Zenon
  <2>1. /\ DOMAIN v = SNResult /\ v.session = SessionOf[log] /\ v.path = log /\ v.time = Modified[log]
        /\ v.hits = 0 /\ v.of = {} /\ v.matched = m /\ v.seen = {}
    BY DEF SNResult
  <2>2. m = Terms[s.query.left] \cap Label[SessionOf[log]]
    BY DEF SN!Metadata
  <2>3. m = Terms[s.query.left] \cap (Label[SessionOf[log]] \cup {})
    BY <2>2
  <2>. HIDE DEF v, new, m, at
  <2>4. Modified[log] \in Nat /\ 0 \in Nat /\ {} \subseteq {s.query.left}
    BY DEF SessionsFit
  <2>5. SNFound(v, s.query.left, s.deleted)
    BY Zenon, <2>1, <2>3, <2>4 DEF SNFound
  <2>6. \A j \in DOMAIN s.results : s.results[j].session # v.session
    BY Zenon, <1>3, <2>1
  <2> QED
    BY Zenon, <1>2, <2>5, <2>6, SNAdds
<1>. HIDE DEF at, i, f, g, v
<1>6. CASE at = {} /\ SN!FindOrAdd(s, log) = s
  BY Zenon, <1>6
<1>7. CASE at = {} /\ SN!FindOrAdd(s, log) = [s EXCEPT !.results = g]
  <2>. DEFINE w == [s EXCEPT !.results = g]
  <2>1. /\ SNBase(w) /\ w.text = s.text /\ w.tab = s.tab /\ w.query = s.query
        /\ w.left = s.left /\ w.deleted = s.deleted /\ w.reads = s.reads /\ w.searching = s.searching
    BY Zenon, <1>5, <1>7, SNResulting
  <2>2. SN!FindOrAdd(s, log) = w
    BY Zenon, <1>7
  <2>. HIDE DEF w
  <2> QED
    BY Zenon, <2>1, <2>2
<1> QED
  BY Zenon, <1>1, <1>4, <1>6, <1>7

(* A line changes the result of its session, and the rows are made anew. *)
LEMMA SNRowsAgain ==
    ASSUME NEW s, SNBase(s), NEW i \in DOMAIN s.results, NEW v,
           SNFound(v, s.query.left, s.deleted), v.session = s.results[i].session
    PROVE  LET t == SN!ApplyRefine([s EXCEPT !.results[i] = v]) IN
           /\ SNCore(t) /\ t.text = s.text /\ t.tab = s.tab /\ t.query = s.query
           /\ t.left = s.left /\ t.deleted = s.deleted
           /\ t.reads = s.reads /\ t.searching = s.searching
<1>. DEFINE f == [s.results EXCEPT ![i] = v]  u == [s EXCEPT !.results = f]
<1>1. [s EXCEPT !.results[i] = v] = u
  BY DEF SNBase, SNFields
<1>2. SNResults(f, s.query.left, s.deleted)
  <2>1. SNResults(s.results, s.query.left, s.deleted)
    BY Zenon DEF SNBase
  <2> QED
    BY Zenon, <2>1, SNReplaces
<1>. HIDE DEF f
<1>3. /\ SNBase(u) /\ u.text = s.text /\ u.tab = s.tab /\ u.query = s.query
      /\ u.results = f /\ u.left = s.left /\ u.deleted = s.deleted
      /\ u.reads = s.reads /\ u.searching = s.searching
  BY Zenon, <1>2, SNResulting
<1>. HIDE DEF u
<1>4. LET t == SN!ApplyRefine(u) IN
      /\ SNCore(t) /\ t.text = u.text /\ t.tab = u.tab /\ t.query = u.query
      /\ t.left = u.left /\ t.deleted = u.deleted
      /\ t.reads = u.reads /\ t.searching = u.searching
  BY Zenon, <1>3, SNRefines
<1> QED
  BY Zenon, <1>1, <1>3, <1>4

LEMMA SNIngests ==
    ASSUME SessionsFit, NEW s, SNCore(s), NEW line, line.log \in Logs, line.log \notin s.deleted
    PROVE  LET t == SN!Ingest(s, line, s.query.left) IN
           /\ SNCore(t) /\ t.text = s.text /\ t.tab = s.tab /\ t.query = s.query
           /\ t.deleted = s.deleted /\ t.reads = s.reads
<1>. DEFINE t == SN!FindOrAdd(s, line.log)  at == SN!OfSession(t, SessionOf[line.log])
            i == SN!Nth(at, 1)  r == t.results[i]
            named == [r EXCEPT !.name = line.words]
            u == IF line.names
                 THEN [named EXCEPT !.meta = SN!Metadata(t, named),
                                    !.matched = @ \cup SN!Metadata(t, named)]
                 ELSE [r EXCEPT !.said = @ \cup line.words]
            v == [u EXCEPT !.hits = IF @ < MaxHits THEN @ + 1 ELSE @,
                           !.matched = @ \cup (Terms[t.query.left] \cap line.words),
                           !.seen = @ \cup line.words, !.of = @ \cup {s.query.left}]
<1>1. SN!Ingest(s, line, s.query.left) =
          IF at = {} THEN s ELSE SN!ApplyRefine([t EXCEPT !.results[i] = v])
  BY DEF SN!Ingest
<1>2. /\ SNBase(t) /\ t.text = s.text /\ t.tab = s.tab /\ t.query = s.query
      /\ t.deleted = s.deleted /\ t.reads = s.reads
  BY Zenon, SNFinds DEF SNCore
<1>. HIDE DEF t
<1>3. CASE at = {}
  BY Zenon, <1>1, <1>3
<1>4. CASE at # {}
  <2>1. at \subseteq DOMAIN t.results
    BY DEF SN!OfSession
  <2>2. i \in DOMAIN t.results
    <3>1. i \in at
      BY Zenon, <1>2, <1>4, <2>1, SNFirst
    <3> QED
      BY Zenon, <2>1, <3>1
  <2>. HIDE DEF at, i
  <2>3. SNFound(r, t.query.left, t.deleted)
    BY Zenon, <1>2, <2>2 DEF SNBase, SNResults
  <2>. HIDE DEF r
  <2>4. /\ DOMAIN u = SNResult /\ u.session = r.session /\ u.path = r.path /\ u.time = r.time
        /\ u.hits = r.hits /\ u.of = r.of /\ u.seen = r.seen
        /\ u.matched \cup (Terms[t.query.left] \cap line.words)
             = Terms[t.query.left] \cap (Label[r.session] \cup (r.seen \cup line.words))
    <3>1. DOMAIN r = SNResult /\ r.matched = Terms[t.query.left] \cap (Label[r.session] \cup r.seen)
      BY Zenon, <2>3 DEF SNFound
    <3>2. CASE line.names
      <4>1. /\ DOMAIN named = SNResult /\ named.session = r.session /\ named.name = line.words
            /\ named.path = r.path /\ named.time = r.time /\ named.hits = r.hits /\ named.of = r.of
            /\ named.seen = r.seen /\ named.matched = r.matched
        BY <3>1 DEF SNResult
      <4>. DEFINE m == SN!Metadata(t, named)
      <4>2. m = Terms[t.query.left] \cap (Label[r.session] \cup line.words)
        BY Zenon, <4>1 DEF SN!Metadata
      <4>3. u = [named EXCEPT !.meta = m, !.matched = @ \cup m]
        BY <3>2
      <4>. HIDE DEF named, m, u
      <4>4. /\ DOMAIN u = SNResult /\ u.session = r.session /\ u.path = r.path /\ u.time = r.time
            /\ u.hits = r.hits /\ u.of = r.of /\ u.seen = r.seen /\ u.matched = r.matched \cup m
        BY <4>1, <4>3 DEF SNResult
      <4> QED
        BY <3>1, <4>2, <4>4
    <3>3. CASE ~line.names
      <4>1. u = [r EXCEPT !.said = @ \cup line.words]
        BY <3>3
      <4>. HIDE DEF u
      <4>2. /\ DOMAIN u = SNResult /\ u.session = r.session /\ u.path = r.path /\ u.time = r.time
            /\ u.hits = r.hits /\ u.of = r.of /\ u.seen = r.seen /\ u.matched = r.matched
        BY <3>1, <4>1 DEF SNResult
      <4> QED
        BY <3>1, <4>2
    <3> QED
      BY Zenon, <3>2, <3>3
  <2>. HIDE DEF u
  <2>5. /\ DOMAIN v = SNResult /\ v.session = r.session /\ v.path = r.path /\ v.time = r.time
        /\ v.hits \in Nat /\ v.of = r.of \cup {s.query.left} /\ v.seen = r.seen \cup line.words
        /\ v.matched = u.matched \cup (Terms[t.query.left] \cap line.words)
    <3>1. r.hits \in Nat
      BY Zenon, <2>3 DEF SNFound
    <3> QED
      BY <2>4, <3>1 DEF SNResult
  <2>. HIDE DEF v
  <2>6. SNFound(v, t.query.left, t.deleted)
    <3>1. v.of \subseteq {t.query.left}
      BY <1>2, <2>3, <2>5 DEF SNFound
    <3> QED
      BY Zenon, <2>3, <2>4, <2>5, <3>1 DEF SNFound
  <2>7. v.session = t.results[i].session
    BY Zenon, <2>5 DEF r
  <2>. DEFINE w == SN!ApplyRefine([t EXCEPT !.results[i] = v])
  <2>8. /\ SNCore(w) /\ w.text = t.text /\ w.tab = t.tab /\ w.query = t.query
        /\ w.deleted = t.deleted /\ w.reads = t.reads
    BY Zenon, <1>2, <2>2, <2>6, <2>7, SNRowsAgain
  <2>9. SN!Ingest(s, line, s.query.left) = w
    BY Zenon, <1>1, <1>4
  <2>. HIDE DEF w
  <2> QED
    BY Zenon, <1>2, <2>8, <2>9
<1> QED
  BY Zenon, <1>3, <1>4

LEMMA SNLineStep ==
    ASSUME SessionsFit, SNInv, NEW k, NEW line, line.log \in Logs, SN!OnLine(k, line)
    PROVE  SNInv'
<1>. DEFINE left == st.reads[k].left  u == [st EXCEPT !.lines = @ + 1]
            i == SN!Ingest(u, line, left)  d == SN!UpdateDisplay(i)
            e == [d EXCEPT !.searching = FALSE, !.reads = SN!Dropped(@, k)]
<1>1. /\ k \in DOMAIN st.reads /\ st.reads[k].current /\ line.log \in st.reads[k].logs
      /\ st' = d \/ st' = e
  BY Zenon DEF SN!OnLine
<1>2. /\ DOMAIN st = SNFields /\ SNReads(st.reads, st.searching, st.query.left, st.deleted)
      /\ SNCore(st) /\ SNText(st)
  BY Zenon DEF SNInv, SNGood, SNCore, SNBase
<1>3. left = st.query.left /\ line.log \notin st.deleted
  <2>1. left = st.query.left /\ st.reads[k].logs \cap st.deleted = {}
    BY Zenon, <1>1, <1>2 DEF SNReads
  <2> QED
    BY <1>1, <2>1
<1>4. /\ DOMAIN u = SNFields /\ u.query = st.query /\ u.results = st.results
      /\ u.rows = st.rows /\ u.deleted = st.deleted /\ u.reads = st.reads
      /\ u.searching = st.searching /\ u.left \in {st.left, SN!NoLeft} /\ u.text = st.text
      /\ u.tab = st.tab
  BY <1>2 DEF SNFields
<1>. HIDE DEF u, left
<1>5. SNCore(u) /\ left = u.query.left /\ line.log \notin u.deleted
  BY Zenon, <1>2, <1>3, <1>4, SNViews
<1>6. SNCore(i) /\ i.text = u.text /\ i.tab = u.tab /\ i.query = u.query /\ i.reads = u.reads
  BY Zenon, <1>5, SNIngests
<1>. HIDE DEF i
<1>7. SNText(i)
  BY Zenon, <1>2, <1>4, <1>6 DEF SNText
<1>8. SNGood(d) /\ SNDrawn(d) /\ d.reads = i.reads
  BY Zenon, <1>6, <1>7, SNDraws DEF SNGood
<1>. HIDE DEF d
<1>9. k \in DOMAIN d.reads /\ d.reads[k].current
  BY Zenon, <1>1, <1>4, <1>6, <1>8
<1>10. SNGood(e) /\ SNDrawn(e)
  BY Zenon, <1>8, <1>9, SNStops
<1>. HIDE DEF e
<1> QED
  BY Zenon, <1>1, <1>8, <1>10 DEF SNInv

(* A log is deleted: what was found in it goes, and no session has two.     *)
LEMMA SNForgets ==
    ASSUME NEW results, NEW left, NEW deleted, SNResults(results, left, deleted), NEW log
    PROVE  /\ (\A j \in DOMAIN results : results[j].path # log) =>
                  SNResults(results, left, deleted \cup {log})
           /\ \A i \in DOMAIN results : results[i].path = log =>
                  SNResults(SN!Dropped(results, i), left, deleted \cup {log})
<1>1. ASSUME NEW r, SNFound(r, left, deleted), r.path # log PROVE SNFound(r, left, deleted \cup {log})
  <2>1. r.path \notin deleted \cup {log}
    BY <1>1 DEF SNFound
  <2> QED
    BY Zenon, <1>1, <2>1 DEF SNFound
<1>2. ASSUME \A j \in DOMAIN results : results[j].path # log
      PROVE  SNResults(results, left, deleted \cup {log})
  BY Zenon, <1>1, <1>2 DEF SNResults
<1>3. ASSUME NEW i \in DOMAIN results, results[i].path = log
      PROVE  SNResults(SN!Dropped(results, i), left, deleted \cup {log})
  <2>. DEFINE J == DOMAIN results \ {i}  g == Picked(results, J)
  <2>1. SN!Dropped(results, i) = g
    BY Zenon, SNOps DEF SN!Dropped
  <2>2. Sequenced(results)
    BY Zenon DEF SNResults
  <2>3. /\ Sequenced(g)
        /\ \A n \in DOMAIN g : Nth(J, n) \in DOMAIN results /\ Nth(J, n) # i /\ g[n] = results[Nth(J, n)]
        /\ \A m, n \in DOMAIN g : Nth(J, m) = Nth(J, n) => m = n
    <3>1. Dropping(results, i, J, g)
      BY Zenon, <2>2, Drops
    <3>. HIDE DEF J, g
    <3> QED
      BY Zenon, <3>1 DEF Dropping
  <2>. HIDE DEF J, g
  <2>4. ASSUME NEW n \in DOMAIN g PROVE SNFound(g[n], left, deleted \cup {log})
    <3>. DEFINE p == Nth(J, n)
    <3>1. p \in DOMAIN results /\ p # i /\ g[n] = results[p]
      BY Zenon, <2>3
    <3>. HIDE DEF p
    <3>2. SNFound(results[p], left, deleted) /\ SNFound(results[i], left, deleted)
      BY Zenon, <3>1 DEF SNResults
    <3>3. results[p].path # log
      <4> SUFFICES ASSUME results[p].path = log PROVE FALSE
        BY Zenon
      <4>1. results[p].session = SessionOf[log] /\ results[i].session = SessionOf[log]
        BY Zenon, <1>3, <3>2 DEF SNFound
      <4> QED
        BY Zenon, <3>1, <4>1 DEF SNResults
    <3> QED
      BY Zenon, <1>1, <3>1, <3>2, <3>3
  <2>5. ASSUME NEW m \in DOMAIN g, NEW n \in DOMAIN g, g[m].session = g[n].session PROVE m = n
    <3>1. results[Nth(J, m)].session = results[Nth(J, n)].session
      BY Zenon, <2>3, <2>5
    <3>2. Nth(J, m) = Nth(J, n)
      BY Zenon, <2>3, <3>1 DEF SNResults
    <3> QED
      BY Zenon, <2>3, <3>2
  <2>6. SNResults(g, left, deleted \cup {log})
    BY Zenon, <2>3, <2>4, <2>5 DEF SNResults
  <2> QED
    BY Zenon, <2>1, <2>6
<1> QED
  BY Zenon, <1>2, <1>3

LEMMA SNValidates ==
    ASSUME NEW s, SNGood(s)
    PROVE  SNGood(SN!Validated(s)) /\ SN!Validated(s).text = s.text /\ SN!Validated(s).tab = s.tab
<1>. DEFINE w == [s EXCEPT !.row = SN!RowCount(s)]
<1>1. SN!Validated(s) = s \/ SN!Validated(s) = w
  BY Zenon DEF SN!Validated
<1>2. SNGood(w) /\ w.text = s.text /\ w.tab = s.tab
  BY Zenon, SNMarks
<1>. HIDE DEF w
<1> QED
  BY Zenon, <1>1, <1>2

LEMMA SNRemoves ==
    ASSUME NEW s, SNGood(s), NEW log
    PROVE  LET t == SN!RemovePath([SN!Cancel(s) EXCEPT !.deleted = @ \cup {log}], log) IN
           SNGood(t) /\ SNDrawn(t)
<1>. DEFINE c == SN!Cancel(s)  x == [c EXCEPT !.deleted = @ \cup {log}]  at == SN!OfLog(x, log)
            i == SN!Nth(at, 1)  g == SN!Dropped(x.results, i)  w == [x EXCEPT !.results = g]
            gone == c.deleted \cup {log}
<1>1. SNCore(c) /\ c.text = s.text /\ c.tab = s.tab /\ c.query = s.query /\ c.searching = FALSE
      /\ \A k \in DOMAIN c.reads : ~c.reads[k].current
  BY Zenon, SNCancels DEF SNGood
<1>2. SNText(c)
  BY Zenon, <1>1 DEF SNGood, SNText
<1>3. /\ DOMAIN c = SNFields /\ SNReads(c.reads, c.searching, c.query.left, c.deleted)
      /\ SNResults(c.results, c.query.left, c.deleted) /\ SNTerms(c.left, c.query)
      /\ c.rows = SNRows(c.query, c.results)
  BY Zenon, <1>1 DEF SNCore, SNBase
<1>. HIDE DEF c
<1>4. /\ DOMAIN x = SNFields /\ x.text = c.text /\ x.tab = c.tab /\ x.query = c.query
      /\ x.results = c.results /\ x.left = c.left /\ x.deleted = gone
      /\ x.reads = c.reads /\ x.searching = FALSE /\ x.rows = c.rows
  BY <1>1, <1>3 DEF SNFields
<1>. HIDE DEF x, gone
<1>5. SNReads(c.reads, FALSE, c.query.left, gone)
  BY Zenon, <1>1, <1>3 DEF SNReads
<1>6. \A j : j \in at <=> j \in DOMAIN c.results /\ c.results[j].path = log
  BY Zenon, <1>4 DEF SN!OfLog
<1>. HIDE DEF at
<1>7. ASSUME NEW t, SNCore(t), t.text = x.text, t.tab = x.tab, t.query = x.query
      PROVE  LET v == SN!UpdateDisplay(SN!Validated(t)) IN SNGood(v) /\ SNDrawn(v)
  <2>1. SNText(t)
    BY Zenon, <1>2, <1>4, <1>7 DEF SNText
  <2> QED
    BY Zenon, <1>7, <2>1, SNValidates, SNDraws DEF SNGood
<1>8. ASSUME at = {} PROVE SNGood(SN!RemovePath(x, log)) /\ SNDrawn(SN!RemovePath(x, log))
  <2>1. SN!RemovePath(x, log) = SN!UpdateDisplay(SN!Validated(x))
    BY Zenon, <1>8 DEF SN!RemovePath, at
  <2>2. SNResults(c.results, c.query.left, gone)
    <3>1. \A j \in DOMAIN c.results : c.results[j].path # log
      BY <1>6, <1>8
    <3> QED
      BY Zenon, <1>3, <3>1, SNForgets DEF gone
  <2>3. SNCore(x)
    BY Zenon, <1>3, <1>4, <1>5, <2>2 DEF SNCore, SNBase
  <2>4. LET v == SN!UpdateDisplay(SN!Validated(x)) IN SNGood(v) /\ SNDrawn(v)
    BY Zenon, <1>7, <2>3
  <2> QED
    BY Zenon, <2>1, <2>4
<1>9. ASSUME at # {} PROVE SNGood(SN!RemovePath(x, log)) /\ SNDrawn(SN!RemovePath(x, log))
  <2>1. SN!RemovePath(x, log) = SN!UpdateDisplay(SN!Validated(SN!ApplyRefine(w)))
    <3>1. w = [x EXCEPT !.results = SN!Dropped(@, i)]
      BY <1>4 DEF SNFields
    <3> QED
      BY Zenon, <1>9, <3>1 DEF SN!RemovePath, at
  <2>2. i \in DOMAIN c.results /\ c.results[i].path = log
    <3>1. Sequenced(c.results) /\ at \subseteq DOMAIN c.results
      BY <1>3, <1>6 DEF SNResults
    <3>2. i \in at
      BY Zenon, <1>9, <3>1, FirstPlace, SNOps
    <3> QED
      BY Zenon, <1>6, <3>2
  <2>3. SNResults(g, c.query.left, gone)
    BY Zenon, <1>3, <1>4, <2>2, SNForgets DEF gone
  <2>. HIDE DEF g
  <2>4. /\ DOMAIN w = SNFields /\ w.text = x.text /\ w.tab = x.tab /\ w.query = x.query
        /\ w.results = g /\ w.left = x.left /\ w.deleted = x.deleted
        /\ w.reads = x.reads /\ w.searching = x.searching
    BY <1>4 DEF SNFields
  <2>. HIDE DEF w
  <2>5. SNBase(w)
    BY Zenon, <1>3, <1>4, <1>5, <2>3, <2>4 DEF SNBase
  <2>. DEFINE t == SN!ApplyRefine(w)
  <2>6. SNCore(t) /\ t.text = w.text /\ t.tab = w.tab /\ t.query = w.query
    BY Zenon, <2>5, SNRefines
  <2>. HIDE DEF t
  <2>7. LET v == SN!UpdateDisplay(SN!Validated(t)) IN SNGood(v) /\ SNDrawn(v)
    BY Zenon, <1>7, <2>4, <2>6
  <2> QED
    BY Zenon, <2>1, <2>7 DEF t
<1>10. SNGood(SN!RemovePath(x, log)) /\ SNDrawn(SN!RemovePath(x, log))
  BY Zenon, <1>8, <1>9
<1> QED
  BY Zenon, <1>10 DEF x, c

LEMMA SNDeleteStep == ASSUME SNInv, NEW ok \in BOOLEAN, SN!Delete(ok) PROVE SNInv'
<1>. DEFINE r == SN!RemovePath([SN!Cancel(st) EXCEPT !.deleted = @ \cup {st.about}], st.about)
            u == SN!UpdateDisplay(st)
<1>1. st' = SN!Closed(r) \/ st' = SN!Closed(u)
  BY Zenon DEF SN!Delete
<1>2. SNGood(r) /\ SNDrawn(r)
  BY Zenon, SNRemoves DEF SNInv
<1>3. SNGood(u) /\ SNDrawn(u)
  BY Zenon, SNDraws DEF SNInv
<1>. HIDE DEF r, u
<1> QED
  BY Zenon, <1>1, <1>2, <1>3, SNCloses DEF SNInv

(* A session is renamed: the words of the name are seen as well.            *)
LEMMA SNNames ==
    ASSUME NEW s, SNCore(s), NEW log, NEW words
    PROVE  LET t == SN!RenamePath(s, log, words) IN
           SNCore(t) /\ t.text = s.text /\ t.tab = s.tab /\ t.query = s.query
<1>. DEFINE at == SN!OfLog(s, log)  i == SN!Nth(at, 1)
            r == [s.results[i] EXCEPT !.name = words, !.seen = @ \cup words]
            m == SN!Metadata(s, r)
            v == [r EXCEPT !.meta = m, !.matched = @ \cup m]
            w == SN!ApplyRefine([s EXCEPT !.results[i] = v])
<1>1. SN!RenamePath(s, log, words) = IF at = {} THEN s ELSE w
  BY DEF SN!RenamePath
<1>2. CASE at = {}
  BY Zenon, <1>1, <1>2
<1>3. CASE at # {}
  <2>1. SNBase(s) /\ at \subseteq DOMAIN s.results
    BY DEF SN!OfLog, SNCore
  <2>2. i \in DOMAIN s.results
    <3>1. i \in at
      BY Zenon, <1>3, <2>1, SNFirst
    <3> QED
      BY Zenon, <2>1, <3>1
  <2>. HIDE DEF at, i
  <2>. DEFINE o == s.results[i]
  <2>3. SNFound(o, s.query.left, s.deleted)
    BY Zenon, <2>1, <2>2 DEF SNBase, SNResults
  <2>. HIDE DEF o
  <2>4. DOMAIN o = SNResult /\ o.matched = Terms[s.query.left] \cap (Label[o.session] \cup o.seen)
    BY Zenon, <2>3 DEF SNFound
  <2>5. /\ DOMAIN r = SNResult /\ r.session = o.session /\ r.path = o.path /\ r.time = o.time
        /\ r.hits = o.hits /\ r.of = o.of /\ r.matched = o.matched /\ r.name = words
        /\ r.seen = o.seen \cup words
    BY <2>4 DEF SNResult, o
  <2>6. m = Terms[s.query.left] \cap (Label[o.session] \cup words)
    BY Zenon, <2>5 DEF SN!Metadata
  <2>. HIDE DEF r, m
  <2>7. /\ DOMAIN v = SNResult /\ v.session = o.session /\ v.path = o.path /\ v.time = o.time
        /\ v.hits = o.hits /\ v.of = o.of /\ v.matched = o.matched \cup m
        /\ v.seen = o.seen \cup words
    BY <2>5 DEF SNResult
  <2>8. v.matched = Terms[s.query.left] \cap (Label[v.session] \cup v.seen)
    BY <2>4, <2>6, <2>7
  <2>. HIDE DEF v
  <2>9. SNFound(v, s.query.left, s.deleted)
    BY Zenon, <2>3, <2>7, <2>8 DEF SNFound
  <2>10. v.session = s.results[i].session
    BY Zenon, <2>7 DEF o
  <2>11. SNCore(w) /\ w.text = s.text /\ w.tab = s.tab /\ w.query = s.query
    BY Zenon, <2>1, <2>2, <2>9, <2>10, SNRowsAgain
  <2>12. SN!RenamePath(s, log, words) = w
    BY Zenon, <1>1, <1>3
  <2>. HIDE DEF w
  <2> QED
    BY Zenon, <2>11, <2>12
<1> QED
  BY Zenon, <1>2, <1>3

LEMMA SNRenameStep ==
    ASSUME SNInv, NEW words, NEW ok \in BOOLEAN, SN!Rename(words, ok)
    PROVE  SNInv'
<1>. DEFINE s == SN!Closed(st)  r == SN!RenamePath(s, st.about, words)
            y == SN!SelectPath(r, st.about)
<1>1. st' = SN!UpdateDisplay(y) \/ st' = SN!UpdateDisplay(s)
  BY Zenon DEF SN!Rename
<1>2. SNGood(s)
  BY Zenon, SNCloses DEF SNInv
<1>. HIDE DEF s
<1>3. SNGood(r)
  <2>1. SNCore(r) /\ r.text = s.text /\ r.tab = s.tab /\ r.query = s.query
    BY Zenon, <1>2, SNNames DEF SNGood
  <2>. HIDE DEF r
  <2> QED
    BY Zenon, <1>2, <2>1 DEF SNGood, SNText
<1>. HIDE DEF r
<1>4. SNGood(y)
  <2>1. \/ y = SN!Validated(r)
        \/ \E n : y = [r EXCEPT !.row = n]
    BY Zenon DEF SN!SelectPath
  <2>2. CASE y = SN!Validated(r)
    BY Zenon, <1>3, <2>2, SNValidates
  <2>3. CASE \E n : y = [r EXCEPT !.row = n]
    BY Zenon, <1>3, <2>3, SNMarks
  <2> QED
    BY Zenon, <2>1, <2>2, <2>3
<1>. HIDE DEF y
<1> QED
  BY Zenon, <1>1, <1>2, <1>4, SNDraws DEF SNInv

LEMMA SNStart == ASSUME SN!Init PROVE SNInv
<1>1. /\ DOMAIN st = SNFields /\ st.text = SN!NoText /\ st.tab = "windows" /\ st.left = SN!NoLeft
      /\ st.query = SN!NoText /\ st.results = <<>> /\ st.rows = <<>> /\ st.reads = <<>>
      /\ st.searching = FALSE
  BY DEF SN!Init, SNFields
<1>2. SNReads(<<>>, FALSE, st.query.left, st.deleted)
  BY DEF SNReads, Sequenced, Elements
<1>3. SNResults(<<>>, st.query.left, st.deleted) /\ SNRows(st.query, <<>>) = <<>>
  BY Zenon, SNEmpty
<1>4. SNTerms(st.left, st.query)
  BY Zenon, <1>1, SNTexts DEF SNTerms
<1>5. st.tab # "sessions"
  BY <1>1
<1>6. SNCore(st)
  BY Zenon, <1>1, <1>2, <1>3, <1>4 DEF SNCore, SNBase
<1> QED
  BY Zenon, <1>5, <1>6 DEF SNInv, SNGood, SNText, SNDrawn

LEMMA SNNextStep == ASSUME SessionsFit, SNInv, SN!Next PROVE SNInv'
<1>1. CASE SN!OpenTab
  BY Zenon, <1>1, SNOpenStep
<1>2. CASE SN!LeaveTab \/ SN!BackToWindows
  BY Zenon, <1>2, SNLeaveSteps
<1>3. CASE SN!Hide \/ SN!Resume
  BY Zenon, <1>3, SNHideSteps
<1>4. CASE SN!Dismiss \/ \E what \in {"rename", "delete"} : SN!Ask(what)
  BY Zenon, <1>4, SNOverlays
<1>5. CASE \E text \in SN!Texts \cup {SN!Elsewhere}, starts \in BOOLEAN : SN!TypeText(text, starts)
  BY Zenon, <1>5, SNTypeStep
<1>6. CASE \E n \in 1..MaxSessions : SN!MoveTo(n)
  BY Zenon, <1>6, SNMarkStep
<1>7. CASE \E ok \in BOOLEAN : SN!Delete(ok)
  BY Zenon, <1>7, SNDeleteStep
<1>8. CASE \E words \in SessionNames, ok \in BOOLEAN : SN!Rename(words, ok)
  BY Zenon, <1>8, SNRenameStep
<1>9. CASE \E k \in 1..MaxReads : SN!OnStale(k) \/ SN!OnEnd(k)
  BY Zenon, <1>9, SNStaleStep, SNEndStep
<1>10. CASE \E k \in 1..MaxReads, log \in Logs, words \in SUBSET SN!Words, names \in BOOLEAN :
                SN!OnLine(k, [log |-> log, words |-> words, names |-> names])
  <2>1. PICK k \in 1..MaxReads, log \in Logs, words \in SUBSET SN!Words, names \in BOOLEAN :
           SN!OnLine(k, [log |-> log, words |-> words, names |-> names])
    BY Zenon, <1>10
  <2>. DEFINE line == [log |-> log, words |-> words, names |-> names]
  <2>2. line.log \in Logs
    OBVIOUS
  <2>. HIDE DEF line
  <2>3. SN!OnLine(k, line)
    BY Zenon, <2>1 DEF line
  <2> QED
    BY Zenon, <2>2, <2>3, SNLineStep
<1> QED
  BY Zenon, <1>1, <1>2, <1>3, <1>4, <1>5, <1>6, <1>7, <1>8, <1>9, <1>10 DEF SN!Next

(* Sessions are numbered, so that no two results are alike in the order.    *)
LEMMA SNPrecedes ==
    ASSUME NEW query, NEW a, NEW b, NEW c,
           \A r \in {a, b, c} : r.time \in Nat /\ r.hits \in Nat /\ r.session \in Nat
    PROVE  /\ ~SNBefore(query, a, a)
           /\ SNBefore(query, a, b) /\ SNBefore(query, b, c) => SNBefore(query, a, c)
           /\ a.session # b.session => SNBefore(query, a, b) \/ SNBefore(query, b, a)
<1>1. \A r \in {a, b, c} : SNWhole(query, r.meta) \in BOOLEAN
  BY DEF SNWhole
<1> QED
  BY <1>1 DEF SNBefore

LEMMA SNOrders ==
    ASSUME SessionsFit, NEW query, NEW results, NEW left, NEW deleted, SNResults(results, left, deleted)
    PROVE  Orders(SNShown(query, results), SNBelow(query, results))
<1>. DEFINE S == SNShown(query, results)  below == SNBelow(query, results)
<1>1. Sequenced(results) /\ S \subseteq DOMAIN results
  BY DEF SNResults, SNShown
<1>2. IsFiniteSet(S)
  BY Zenon, <1>1, Subplaces DEF Sequenced
<1>3. \A i \in S : /\ results[i].time \in Nat /\ results[i].hits \in Nat /\ results[i].session \in Nat
  <2> TAKE i \in S
  <2>1. SNFound(results[i], left, deleted)
    BY Zenon, <1>1 DEF SNResults
  <2> QED
    BY <2>1 DEF SNFound, SessionsFit
<1>4. \A i, j \in S : results[i].session = results[j].session => i = j
  BY Zenon, <1>1 DEF SNResults
<1>5. \A i \in S : below[i] = {j \in S : SNBefore(query, results[j], results[i])}
  BY DEF SNBelow
<1>. HIDE DEF S, below
<1>6. \A i, j, k \in S :
          /\ ~SNBefore(query, results[i], results[i])
          /\ SNBefore(query, results[i], results[j]) /\ SNBefore(query, results[j], results[k])
                => SNBefore(query, results[i], results[k])
          /\ i # j => SNBefore(query, results[i], results[j]) \/ SNBefore(query, results[j], results[i])
  <2> TAKE i, j, k \in S
  <2>. DEFINE a == results[i]  b == results[j]  c == results[k]
  <2>1. \A r \in {a, b, c} : r.time \in Nat /\ r.hits \in Nat /\ r.session \in Nat
    BY <1>3
  <2>2. i # j => a.session # b.session
    BY Zenon, <1>4
  <2>. HIDE DEF a, b, c
  <2>3. /\ ~SNBefore(query, a, a)
        /\ SNBefore(query, a, b) /\ SNBefore(query, b, c) => SNBefore(query, a, c)
        /\ i # j => SNBefore(query, a, b) \/ SNBefore(query, b, a)
    BY Zenon, <2>1, <2>2, SNPrecedes
  <2> QED
    BY Zenon, <2>3 DEF a, b, c
<1>7. \A x \in S : below[x] \subseteq S /\ x \notin below[x]
  BY <1>5, <1>6
<1>8. \A x, y \in S : x \in below[y] => below[x] \subseteq below[y]
  BY <1>5, <1>6
<1>9. \A x, y \in S : x # y => x \in below[y] \/ y \in below[x]
  BY <1>5, <1>6
<1> QED
  BY Zenon, <1>2, <1>7, <1>8, <1>9 DEF Orders, S, below

LEMMA SNShows == ASSUME SessionsFit, SNInv PROVE SN!SessionsAgree
<1>1. /\ SNReads(st.reads, st.searching, st.query.left, st.deleted)
      /\ SNResults(st.results, st.query.left, st.deleted)
      /\ st.rows = SNRows(st.query, st.results) /\ SNText(st) /\ SNDrawn(st)
  BY Zenon DEF SNInv, SNGood, SNCore, SNBase
<1>2. SN!SearchIsRead
  BY Zenon, <1>1 DEF SN!SearchIsRead, SNReads
<1>3. SN!FoundByThis
  <2>1. \A i \in DOMAIN st.results : SNFound(st.results[i], st.query.left, st.deleted)
    BY Zenon, <1>1 DEF SNResults
  <2>2. \A i, j \in DOMAIN st.results : st.results[j].session = st.results[i].session => i = j
    BY Zenon, <1>1 DEF SNResults
  <2> QED
    BY Zenon, <2>1, <2>2 DEF SN!FoundByThis, SNFound
<1>4. SN!RowsFit
  <2>. DEFINE S == SNShown(st.query, st.results)  below == SNBelow(st.query, st.results)
  <2>1. Orders(S, below)
    BY Zenon, <1>1, SNOrders
  <2>2. st.rows = Sorted(S, below)
    BY Zenon, <1>1 DEF SNRows
  <2>3. /\ Elements(st.rows) = S
        /\ \A m, n \in DOMAIN st.rows : m < n => st.rows[m] \in below[st.rows[n]]
    BY Zenon, <2>1, <2>2, Sorts
  <2>4. S = SN!Fitting(st)
    BY Zenon, SNSame
  <2>5. \A i \in S : below[i] = {j \in S : SNBefore(st.query, st.results[j], st.results[i])}
    BY Zenon DEF SNBelow
  <2>. HIDE DEF S, below
  <2>6. {st.rows[n] : n \in DOMAIN st.rows} = SN!Fitting(st)
    BY <2>3, <2>4 DEF Elements
  <2>7. ASSUME NEW m \in DOMAIN st.rows, NEW n \in DOMAIN st.rows, m < n
        PROVE  SN!Before(st, st.rows[m], st.rows[n])
    <3>1. st.rows[n] \in S /\ st.rows[m] \in below[st.rows[n]]
      BY Zenon, <2>3, <2>7 DEF Elements
    <3>2. SNBefore(st.query, st.results[st.rows[m]], st.results[st.rows[n]])
      BY Zenon, <2>5, <3>1
    <3> QED
      BY Zenon, <3>2, SNSame
  <2> QED
    BY Zenon, <1>1, <2>6, <2>7 DEF SN!RowsFit, SNText, SNDrawn
<1> QED
  BY Zenon, <1>2, <1>3, <1>4 DEF SN!SessionsAgree

LEMMA SessionsHold == ASSUME SessionsFit PROVE SN!Spec => []SN!SessionsAgree
<1>1. SN!Init => SNInv
  BY SNStart
<1>2. SNInv /\ [SN!Next]_st => SNInv'
  <2>1. ASSUME SNInv, UNCHANGED st PROVE SNInv'
    BY <2>1 DEF SNInv
  <2> QED
    BY <2>1, SNNextStep
<1>3. SNInv => SN!SessionsAgree
  BY SNShows
<1> QED
  BY <1>1, <1>2, <1>3, PTL DEF SN!Spec
=============================================================================
