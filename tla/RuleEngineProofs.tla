-------------------------- MODULE RuleEngineProofs --------------------------
(* Proofs about RuleEngine: rules fire for the windows they fit, once each, *)
(* however many windows, titles and rules there are and however long the    *)
(* events wait.  And about the lines that rules run, as the command line    *)
(* and hotkeys do (WindowCommands): they act on the windows they are for.   *)
EXTENDS RuleEngine, NaturalsInduction, WellFoundedInduction, TLAPS

Waiting(w) == \E k \in DOMAIN queue : queue[k] = w

(* Between two changes of the list no window counts as new.                *)
Shape ==
    /\ TypeOK
    /\ ~handling => added = {}
    /\ wins = [w \in DOMAIN wins |-> wins[w]]

(* A rule that fires once is applied to the window it is matched for.      *)
OnceIn(rs, m) ==
    \A i \in DOMAIN rs, w \in Window : rs[i].once /\ <<i, w>> \in m => rs[i].applied = w
OnceInv == "edit" \notin session => OnceIn(rules, matched)

(* A fire that the window has matched ever since has its flag still set.   *)
FlagsOfHeld ==
    /\ again = {}
    /\ \A i, j \in DOMAIN rules : rules[i].uid = rules[j].uid => i = j
    /\ \A p \in held : \E i \in DOMAIN rules :
          rules[i].uid = p[1] /\ <<i, p[2]>> \in matched
HeldInv == "edit" \notin session => FlagsOfHeld

(* A list that differs from the known one is announced; a rule applied to a *)
(* window that is gone is cleared by a change of the list under way.        *)
ListInv == DOMAIN wins # listed => Waiting(Root)
LiveInv ==
    \A i \in DOMAIN rules :
        rules[i].applied \in DOMAIN wins \cup {Root} \/ handling \/ Waiting(Root)

(* Without disturbances: a known title that is not the one of now is        *)
(* announced, and the flags are those of the known titles.                  *)
Plain(i) == ~rules[i].once /\ ~rules[i].newOnly
TitleInv ==
    \A w \in DOMAIN wins \cap DOMAIN real :
        /\ ~handling => w \in selected
        /\ wins[w] # real[w] => Waiting(w)
FlagInv ==
    /\ ~handling => \A p \in matched : p[2] \in DOMAIN wins
    /\ \A i \in DOMAIN rules, w \in DOMAIN wins \ old :
          Plain(i) => IF w \in added THEN <<i, w>> \notin matched
                      ELSE <<i, w>> \in matched <=> wins[w] \in rules[i].pat
CalmInv == session = {} => TitleInv /\ FlagInv

-----------------------------------------------------------------------------
(* Sequences, and the queue                                                 *)

LEMMA FunctionIsSequence ==
  ASSUME NEW S, NEW n \in Nat, NEW g \in [1..n -> S]
  PROVE  g \in Seq(S) /\ Len(g) = n
  OBVIOUS

LEMMA WaitingAppended ==
  ASSUME NEW S, queue \in Seq(S), NEW v \in S, queue' = Append(queue, v)
  PROVE  /\ Waiting(v)'
         /\ \A w : Waiting(w) => Waiting(w)'
<1>1. Len(queue') = Len(queue) + 1 /\ queue'[Len(queue) + 1] = v
  OBVIOUS
<1>2. \A k \in DOMAIN queue : k \in DOMAIN queue' /\ queue'[k] = queue[k]
  OBVIOUS
<1>3. Len(queue) + 1 \in DOMAIN queue'
  OBVIOUS
<1>. QED  BY <1>1, <1>2, <1>3 DEF Waiting

LEMMA WaitingTail ==
  ASSUME NEW S, queue \in Seq(S), queue # <<>>, queue' = Tail(queue),
         NEW w, Waiting(w), w # Head(queue)
  PROVE  Waiting(w)'
<1>1. PICK k \in DOMAIN queue : queue[k] = w
  BY DEF Waiting
<1>2. k \in 2..Len(queue)
  BY <1>1
<1>3. k - 1 \in DOMAIN queue' /\ queue'[k - 1] = w
  BY <1>1, <1>2
<1>. QED  BY <1>3 DEF Waiting

-----------------------------------------------------------------------------
(* A pass over the rules                                                    *)

LEMMA RulesTyped ==
  ASSUME TypeOK
  PROVE  /\ DOMAIN rules = 1..Len(rules) /\ DOMAIN rules \subseteq 1..MaxRules
         /\ \A i \in DOMAIN rules : rules[i] \in Rule
  BY ConstantsAssumption DEF TypeOK

LEMMA FireFacts ==
  ASSUME TypeOK, NEW trigger, NEW W \in SUBSET Window, NEW titles,
         NEW f \in Fires(trigger, W, titles)
  PROVE  /\ f \in [DOMAIN rules -> SUBSET W]
         /\ \A i \in DOMAIN rules : \A w \in f[i] :
               titles[w] \in rules[i].pat /\ <<i, w>> \notin matched
         /\ \A i \in DOMAIN rules : Plain(i) => f[i] = Hits(i, W, titles)
<1>1. f \in [DOMAIN rules -> SUBSET W]
  BY DEF Fires
<1>2. ASSUME NEW i \in DOMAIN rules
      PROVE  f[i] \in FireChoices(i, W, titles) \/ (f[i] = {} /\ rules[i].newOnly)
  BY DEF Fires, TriggerAllows
<1>3. \A i \in DOMAIN rules : f[i] \subseteq Hits(i, W, titles)
  BY <1>2 DEF FireChoices
<1>4. \A i \in DOMAIN rules : Plain(i) => f[i] = Hits(i, W, titles)
  BY <1>2 DEF FireChoices, Plain
<1>. QED  BY <1>1, <1>3, <1>4 DEF Hits

LEMMA FireOnce ==
  ASSUME NEW trigger, NEW W, NEW titles, NEW f \in Fires(trigger, W, titles),
         NEW i \in DOMAIN rules, rules[i].once, f[i] # {}
  PROVE  rules[i].applied = Root /\ \E w \in W : f[i] = {w}
<1>1. f[i] \in FireChoices(i, W, titles)
  BY DEF Fires
<1>. QED  BY <1>1 DEF FireChoices, Hits

(* What a pass leaves of a rule: only applied changes.                      *)
Alike(rs) ==
    /\ rs \in Seq(Rule) /\ Len(rs) = Len(rules) /\ DOMAIN rs = DOMAIN rules
    /\ \A i \in DOMAIN rules :
          /\ rs[i].uid = rules[i].uid /\ rs[i].pat = rules[i].pat
          /\ rs[i].once = rules[i].once /\ rs[i].newOnly = rules[i].newOnly

LEMMA AppliedFacts ==
  ASSUME TypeOK, NEW W \in SUBSET Window, NEW f \in [DOMAIN rules -> SUBSET W]
  PROVE  /\ Alike(AppliedAfter(f))
         /\ \A i \in DOMAIN rules :
               IF rules[i].once /\ f[i] # {} THEN AppliedAfter(f)[i].applied \in f[i]
               ELSE AppliedAfter(f)[i].applied = rules[i].applied
<1> DEFINE a == AppliedAfter(f)
           c(i) == CHOOSE w \in f[i] : TRUE
<1>1. rules \in Seq(Rule) /\ DOMAIN rules = 1..Len(rules)
  BY DEF TypeOK
<1>2. a = [i \in 1..Len(rules) |-> IF rules[i].once /\ f[i] # {}
             THEN [rules[i] EXCEPT !.applied = c(i)] ELSE rules[i]]
  BY <1>1 DEF AppliedAfter
<1>3. \A i \in DOMAIN rules : f[i] # {} => c(i) \in f[i] /\ c(i) \in Window
  BY <1>1
<1>4. \A i \in DOMAIN rules : rules[i] \in Rule
  BY <1>1
<1> HIDE DEF c
<1>5. \A i \in DOMAIN rules : a[i] \in Rule
  BY <1>1, <1>2, <1>3, <1>4 DEF Rule
<1>6. a \in Seq(Rule) /\ Len(a) = Len(rules)
  <2>1. a \in [1..Len(rules) -> Rule]
    BY <1>1, <1>2, <1>5
  <2>. QED  BY <2>1, <1>1, FunctionIsSequence
<1>7. \A i \in DOMAIN rules :
         /\ a[i].uid = rules[i].uid /\ a[i].pat = rules[i].pat
         /\ a[i].once = rules[i].once /\ a[i].newOnly = rules[i].newOnly
         /\ IF rules[i].once /\ f[i] # {} THEN a[i].applied = c(i)
            ELSE a[i].applied = rules[i].applied
  BY <1>1, <1>2, <1>4 DEF Rule
<1>. QED  BY <1>3, <1>6, <1>7 DEF Alike

LEMMA ClearedFacts ==
  ASSUME NEW rs, Alike(rs), rules \in Seq(Rule)
  PROVE  /\ Alike(Cleared(rs))
         /\ \A i \in DOMAIN rules :
               Cleared(rs)[i].applied =
                  IF rs[i].applied \in DOMAIN wins THEN rs[i].applied ELSE Root
<1> DEFINE c == Cleared(rs)
<1>1. rs \in Seq(Rule) /\ DOMAIN rs = 1..Len(rules) /\ DOMAIN rules = 1..Len(rules)
  BY DEF Alike
<1>2. c = [i \in 1..Len(rules) |-> IF rs[i].applied \in DOMAIN wins THEN rs[i]
                                  ELSE [rs[i] EXCEPT !.applied = Root]]
  BY <1>1 DEF Cleared
<1>3. \A i \in DOMAIN rules : rs[i] \in Rule
  BY <1>1
<1>4. \A i \in DOMAIN rules :
         /\ c[i] \in Rule
         /\ c[i].uid = rs[i].uid /\ c[i].pat = rs[i].pat
         /\ c[i].once = rs[i].once /\ c[i].newOnly = rs[i].newOnly
         /\ c[i].applied = IF rs[i].applied \in DOMAIN wins THEN rs[i].applied ELSE Root
  BY <1>1, <1>2, <1>3 DEF Rule
<1>5. c \in Seq(Rule) /\ Len(c) = Len(rules)
  <2>1. c \in [1..Len(rules) -> Rule]
    BY <1>2, <1>4, <1>1
  <2>. QED  BY <2>1, <1>1, FunctionIsSequence
<1>. QED  BY <1>4, <1>5 DEF Alike

-----------------------------------------------------------------------------
(* What the steps do, for the proofs of every invariant: the X server       *)

Silent(v) == queue' = queue \/ queue' = Append(queue, v)

ServerEffect ==
    /\ UNCHANGED <<session, old, wins, added, handling, rules, lastUid, matched>>
    /\ handling => "race" \in session
    /\ DOMAIN real' \subseteq born' /\ born' \subseteq Window /\ born \subseteq born'
    /\ \A w \in DOMAIN real' : real'[w] \in Title
    /\ listed' \subseteq DOMAIN real' /\ selected' \subseteq DOMAIN real'
    /\ \E v \in Window \cup {Root} : Silent(v)
    /\ listed' # listed => queue' = Append(queue, Root)
    /\ \A w \in DOMAIN wins \cap DOMAIN real' :
          /\ w \in DOMAIN real
          /\ w \in selected => w \in selected'
          /\ real'[w] # real[w] /\ w \in selected => queue' = Append(queue, w)
    /\ Observe({})

LEMMA ServerSteps ==
  ASSUME TypeOK, Server
  PROVE  ServerEffect
<1>. USE DEF ServerEffect, TypeOK, Silent
<1>1. ASSUME NEW w \in Window, NEW t \in Title, Open(w, t)
      PROVE  ServerEffect
  BY <1>1 DEF Open, ServerMoves, ListEvent, Put
<1>2. ASSUME NEW w \in Window, NEW t \in Title, Retitle(w, t)
      PROVE  ServerEffect
  BY <1>2 DEF Retitle, ServerMoves, TitleEvent
<1>3. ASSUME NEW w \in Window, Close(w)
      PROVE  ServerEffect
  BY <1>3 DEF Close, ServerMoves, ListEvent, Only
<1>4. ASSUME NEW w \in Window, Relist(w)
      PROVE  ServerEffect
  BY <1>4 DEF Relist, ServerMoves, ListEvent
<1>. QED  BY <1>1, <1>2, <1>3, <1>4 DEF Server

-----------------------------------------------------------------------------
(* What a pass over the rules does to the flags and to applied              *)

FlagsAfter(m, trigger, W, titles) ==
    /\ m \subseteq (1..MaxRules) \X Window
    /\ \A i \in DOMAIN rules : \A w : <<i, w>> \in matched /\ titles[w] \in rules[i].pat =>
          <<i, w>> \in m
    /\ \A i : \A w : w \notin W => (<<i, w>> \in m <=> <<i, w>> \in matched)
    /\ \A i \in DOMAIN rules : \A w \in W :
          Plain(i) => (<<i, w>> \in m <=> titles[w] \in rules[i].pat)

LEMMA PassFlags ==
  ASSUME TypeOK, NEW trigger, NEW W \in SUBSET Window, NEW titles,
         NEW f \in Fires(trigger, W, titles)
  PROVE  FlagsAfter(MatchedAfter(f, trigger, W, titles), trigger, W, titles)
<1> DEFINE m == MatchedAfter(f, trigger, W, titles)
<1>1. f \in [DOMAIN rules -> SUBSET W]
  BY FireFacts
<1>2. \A i, w : <<i, w>> \in m <=>
         \/ <<i, w>> \in StillMatched(trigger, W, titles)
         \/ i \in DOMAIN rules /\ w \in f[i]
  BY <1>1 DEF MatchedAfter
<1>3. \A i, w : <<i, w>> \in StillMatched(trigger, W, titles) <=>
         /\ <<i, w>> \in matched
         /\ ~(/\ i \in DOMAIN rules /\ TriggerAllows(i, trigger)
              /\ w \in W /\ titles[w] \notin rules[i].pat)
  BY DEF StillMatched
<1>4. m \subseteq (1..MaxRules) \X Window
  <2>1. DOMAIN rules \subseteq 1..MaxRules
    BY ConstantsAssumption DEF TypeOK
  <2>2. UNION {{<<i, w>> : w \in f[i]} : i \in DOMAIN rules} \subseteq (1..MaxRules) \X Window
    BY <1>1, <2>1
  <2>3. StillMatched(trigger, W, titles) \subseteq (1..MaxRules) \X Window
    BY DEF StillMatched, TypeOK
  <2>. QED  BY <2>2, <2>3 DEF MatchedAfter
<1>5. ASSUME NEW i \in DOMAIN rules, Plain(i), NEW w \in W
      PROVE  <<i, w>> \in m <=> titles[w] \in rules[i].pat
  <2>1. TriggerAllows(i, trigger)
    BY <1>5 DEF Plain, TriggerAllows
  <2>2. f[i] = {v \in W : titles[v] \in rules[i].pat /\ <<i, v>> \notin matched}
    BY <1>5, FireFacts DEF Hits
  <2>. QED  BY <1>2, <1>3, <2>1, <2>2
<1>. HIDE DEF m
<1>6. \A i \in DOMAIN rules : \A w : <<i, w>> \in matched /\ titles[w] \in rules[i].pat =>
         <<i, w>> \in m
  BY <1>2, <1>3
<1>7. \A i, w : w \notin W => (<<i, w>> \in m <=> <<i, w>> \in matched)
  BY <1>1, <1>2, <1>3
<1>. QED  BY <1>4, <1>5, <1>6, <1>7 DEF FlagsAfter, m

(* Every fire of a pass sets a flag that was not set.                       *)
LEMMA PassFires ==
  ASSUME TypeOK, NEW trigger, NEW W \in SUBSET Window, NEW titles,
         NEW f \in Fires(trigger, W, titles), NEW p \in FiredBy(f)
  PROVE  /\ p \in (1..MaxUid) \X Window /\ p[2] \in W
         /\ \E i \in DOMAIN rules :
              /\ rules[i].uid = p[1] /\ <<i, p[2]>> \notin matched
              /\ <<i, p[2]>> \in MatchedAfter(f, trigger, W, titles)
<1>1. PICK i \in DOMAIN rules : \E w \in f[i] : p = <<rules[i].uid, w>>
  BY DEF FiredBy
<1>2. PICK w \in f[i] : p = <<rules[i].uid, w>>
  BY <1>1
<1>3. w \in W /\ <<i, w>> \notin matched
  <2>1. f \in [DOMAIN rules -> SUBSET W] /\ \A v \in f[i] : <<i, v>> \notin matched
    BY FireFacts
  <2>. QED  BY <1>2, <2>1
<1>4. <<i, w>> \in MatchedAfter(f, trigger, W, titles)
  BY <1>2 DEF MatchedAfter
<1>5. rules[i].uid \in 1..MaxUid
  BY RulesTyped DEF Rule
<1>. QED  BY <1>2, <1>3, <1>4, <1>5

(* A rule that fires once stays applied to the window it is matched for.    *)
LEMMA PassOnce ==
  ASSUME TypeOK, NEW trigger, NEW W \in SUBSET Window, NEW titles,
         NEW f \in Fires(trigger, W, titles), OnceIn(rules, matched)
  PROVE  OnceIn(AppliedAfter(f), MatchedAfter(f, trigger, W, titles))
<1> DEFINE a == AppliedAfter(f)
           m == MatchedAfter(f, trigger, W, titles)
<1>1. f \in [DOMAIN rules -> SUBSET W]
  BY FireFacts
<1>2. DOMAIN a = DOMAIN rules
  BY DEF AppliedAfter
<1>3. ASSUME NEW i \in DOMAIN rules, NEW w \in Window, a[i].once, <<i, w>> \in m
      PROVE  a[i].applied = w
  <2>1. rules[i].once
    BY <1>1, <1>3, AppliedFacts DEF Alike
  <2>2. <<i, w>> \in matched \/ w \in f[i]
    BY <1>3 DEF MatchedAfter, StillMatched
  <2>3. CASE f[i] = {}
    BY <1>1, <2>1, <2>2, <2>3, AppliedFacts DEF OnceIn
  <2>4. CASE f[i] # {}
    <3>1. rules[i].applied = Root /\ \E v \in W : f[i] = {v}
      BY <2>1, <2>4, FireOnce
    <3>2. <<i, w>> \notin matched
      BY <2>1, <3>1, ConstantsAssumption DEF OnceIn
    <3>3. a[i].applied \in f[i]
      BY <1>1, <2>1, <2>4, AppliedFacts
    <3>. QED  BY <2>2, <3>1, <3>2, <3>3
  <2>. QED  BY <2>3, <2>4
<1>. QED  BY <1>2, <1>3 DEF OnceIn

-----------------------------------------------------------------------------
(* The user's changes, and the types                                        *)

EditEffect ==
    /\ Edit
    /\ UNCHANGED <<session, server, queue, wins, added, handling, matched>>
    /\ rules' \in Seq(Rule) /\ Len(rules') <= MaxRules
    /\ lastUid' \in 0..MaxUid
    /\ \A i \in DOMAIN rules' :
          rules'[i].applied \in {Root} \cup {rules[j].applied : j \in DOMAIN rules}
    /\ Observe({})

Editing ==
    \/ \E i \in 1..MaxRules : RemoveRule(i) \/ ToggleOnce(i) \/ ToggleNewOnly(i)
    \/ \E p \in Patterns : AddRule(p)
    \/ \E i \in 1..MaxRules, p \in Patterns : EditPattern(i, p)

LEMMA OneRuleChanged ==
  ASSUME TypeOK, NEW i \in DOMAIN rules, NEW r \in Rule,
         rules' = [rules EXCEPT ![i] = r]
  PROVE  rules' \in Seq(Rule) /\ Len(rules') = Len(rules)
  BY DEF TypeOK

LEMMA EditSteps ==
  ASSUME TypeOK, Editing
  PROVE  EditEffect
<1>0. /\ rules \in Seq(Rule) /\ DOMAIN rules = 1..Len(rules) /\ Len(rules) <= MaxRules
      /\ lastUid \in 0..MaxUid /\ \A i \in DOMAIN rules : rules[i] \in Rule
  BY RulesTyped DEF TypeOK
<1>1. ASSUME NEW i, RemoveRule(i)
      PROVE  EditEffect
  <2>1. rules' = [j \in 1..(Len(rules) - 1) |-> IF j < i THEN rules[j] ELSE rules[j + 1]]
    BY <1>1 DEF RemoveRule
  <2>2. i \in DOMAIN rules /\ Len(rules) - 1 \in Nat
    BY <1>0, <1>1 DEF RemoveRule
  <2>3. rules' \in [1..(Len(rules) - 1) -> Rule]
    BY <1>0, <2>1, <2>2
  <2>4. rules' \in Seq(Rule) /\ Len(rules') = Len(rules) - 1
    BY <2>2, <2>3, FunctionIsSequence
  <2>5. \A j \in DOMAIN rules' : \E k \in DOMAIN rules : rules'[j] = rules[k]
    BY <1>0, <2>1, <2>2
  <2>. QED  BY <1>0, <1>1, <2>4, <2>5, ConstantsAssumption DEF EditEffect, RemoveRule, Unedited
<1>2. ASSUME NEW i \in DOMAIN rules, NEW r \in Rule, rules' = [rules EXCEPT ![i] = r],
             r.applied \in {Root, rules[i].applied},
             Edit, UNCHANGED lastUid, Unedited
      PROVE  EditEffect
  <2>1. rules' \in Seq(Rule) /\ Len(rules') = Len(rules)
    BY <1>2, OneRuleChanged
  <2>2. \A j \in DOMAIN rules' : j \in DOMAIN rules /\ rules'[j] = IF j = i THEN r ELSE rules[j]
    BY <1>0, <1>2
  <2>. QED  BY <1>0, <1>2, <2>1, <2>2 DEF EditEffect, Unedited
<1>3. ASSUME NEW i, ToggleOnce(i)
      PROVE  EditEffect
  <2> DEFINE r == [rules[i] EXCEPT !.once = ~@, !.applied = Root]
  <2>1. i \in DOMAIN rules /\ rules' = [rules EXCEPT ![i] = r]
    BY <1>3 DEF ToggleOnce
  <2>2. r \in Rule /\ r.applied = Root
    BY <1>0, <2>1 DEF Rule
  <2>. QED  BY <1>2, <1>3, <2>1, <2>2 DEF ToggleOnce
<1>4. ASSUME NEW i, ToggleNewOnly(i)
      PROVE  EditEffect
  <2> DEFINE r == [rules[i] EXCEPT !.newOnly = ~@]
  <2>1. i \in DOMAIN rules /\ rules' = [rules EXCEPT ![i] = r]
    BY <1>4 DEF ToggleNewOnly
  <2>2. r \in Rule /\ r.applied = rules[i].applied
    BY <1>0, <2>1 DEF Rule
  <2>. QED  BY <1>2, <1>4, <2>1, <2>2 DEF ToggleNewOnly
<1>5. ASSUME NEW i, NEW p \in Patterns, EditPattern(i, p)
      PROVE  EditEffect
  <2> DEFINE r == [rules[i] EXCEPT !.pat = p]
  <2>1. i \in DOMAIN rules /\ rules' = [rules EXCEPT ![i] = r]
    BY <1>5 DEF EditPattern
  <2>2. r \in Rule /\ r.applied = rules[i].applied
    BY <1>0, <2>1 DEF Rule
  <2>. QED  BY <1>2, <1>5, <2>1, <2>2 DEF EditPattern
<1>6. ASSUME NEW p \in Patterns, AddRule(p)
      PROVE  EditEffect
  <2>1. lastUid' \in 1..MaxUid /\ rules' = Append(rules, NewRule(lastUid', p))
    BY <1>0, <1>6, ConstantsAssumption DEF AddRule
  <2>2. NewRule(lastUid', p) \in Rule /\ NewRule(lastUid', p).applied = Root
    BY <2>1 DEF NewRule, Rule
  <2>3. rules' \in Seq(Rule) /\ Len(rules') = Len(rules) + 1
    BY <1>0, <2>1, <2>2
  <2>4. \A j \in DOMAIN rules' : rules'[j] = NewRule(lastUid', p)
                                 \/ (j \in DOMAIN rules /\ rules'[j] = rules[j])
    BY <1>0, <2>1, <2>2
  <2>5. Len(rules') <= MaxRules
    BY <1>0, <1>6, <2>3, ConstantsAssumption DEF AddRule
  <2>. QED  BY <1>6, <2>1, <2>2, <2>3, <2>4, <2>5 DEF EditEffect, AddRule, Unedited
<1>. QED  BY <1>1, <1>3, <1>4, <1>5, <1>6 DEF Editing

LEMMA Observed ==
  ASSUME TypeOK, NEW fired \in SUBSET ((1..MaxUid) \X Window), Observe(fired)
  PROVE  held' \subseteq (1..MaxUid) \X Window /\ again' \subseteq (1..MaxUid) \X Window
  BY DEF Observe, TypeOK

LEMMA PassTypes ==
  ASSUME TypeOK, NEW trigger, NEW W \in SUBSET Window, NEW titles,
         NEW f \in Fires(trigger, W, titles)
  PROVE  /\ FiredBy(f) \in SUBSET ((1..MaxUid) \X Window)
         /\ MatchedAfter(f, trigger, W, titles) \subseteq (1..MaxRules) \X Window
         /\ Alike(AppliedAfter(f))
<1>1. FiredBy(f) \subseteq (1..MaxUid) \X Window
  BY PassFires
<1>2. MatchedAfter(f, trigger, W, titles) \subseteq (1..MaxRules) \X Window
  BY PassFlags DEF FlagsAfter
<1>3. f \in [DOMAIN rules -> SUBSET W]
  BY FireFacts
<1>. QED  BY <1>1, <1>2, <1>3, AppliedFacts

LEMMA ShapeKept ==
  ASSUME Shape, [Next]_vars
  PROVE  Shape'
<1>. USE DEF Shape
<1>1. CASE Server
  <2>1. ServerEffect
    BY <1>1, ServerSteps
  <2>2. queue' \in Seq(Window \cup {Root})
    BY <2>1 DEF ServerEffect, Silent, TypeOK
  <2>3. held' \subseteq (1..MaxUid) \X Window /\ again' \subseteq (1..MaxUid) \X Window
    BY <2>1, Observed DEF ServerEffect
  <2>. QED  BY <2>1, <2>2, <2>3 DEF ServerEffect, TypeOK
<1>2. CASE HandleList
  <2>1. held' \subseteq (1..MaxUid) \X Window /\ again' \subseteq (1..MaxUid) \X Window
    BY <1>2, Observed DEF HandleList
  <2>2. queue' \in Seq(Window \cup {Root})
    BY <1>2 DEF HandleList, TypeOK
  <2>3. /\ wins' = [w \in listed |-> IF w \in DOMAIN wins THEN wins[w] ELSE real[w]]
        /\ added' = DOMAIN wins' \ DOMAIN wins /\ handling' = TRUE
    BY <1>2 DEF HandleList, WindowList, NewIds
  <2>. QED  BY <1>2, <2>1, <2>2, <2>3 DEF HandleList, server, TypeOK
<1>3. CASE ApplyRules
  <2>1. added \in SUBSET Window
    BY DEF TypeOK
  <2>2. PICK f \in Fires("client list", added, wins) :
            /\ matched' = Pruned(MatchedAfter(f, "client list", added, wins))
            /\ rules' = Cleared(AppliedAfter(f))
            /\ Observe(FiredBy(f))
    BY <1>3 DEF ApplyRules
  <2>3. held' \subseteq (1..MaxUid) \X Window /\ again' \subseteq (1..MaxUid) \X Window
    BY <2>1, <2>2, PassTypes, Observed
  <2>4. matched' \subseteq (1..MaxRules) \X Window
    BY <2>1, <2>2, PassTypes DEF Pruned
  <2>5. Alike(rules')
    BY <2>1, <2>2, PassTypes, ClearedFacts DEF TypeOK
  <2>. QED  BY <1>3, <2>3, <2>4, <2>5 DEF ApplyRules, Alike, TypeOK
<1>4. CASE HandleTitle
  <2>1. queue' \in Seq(Window \cup {Root})
    BY <1>4 DEF HandleTitle, TypeOK
  <2>2. CASE TitleIsNews(Head(queue))
    <3> DEFINE w == Head(queue)
    <3>1. PICK f \in Fires("title", {w}, wins') :
              /\ matched' = MatchedAfter(f, "title", {w}, wins')
              /\ rules' = AppliedAfter(f)
              /\ Observe(FiredBy(f))
      BY <1>4, <2>2 DEF HandleTitle
    <3>2. {w} \in SUBSET Window
      BY <2>2 DEF TitleIsNews, TypeOK
    <3>3. held' \subseteq (1..MaxUid) \X Window /\ again' \subseteq (1..MaxUid) \X Window
      BY <3>1, <3>2, PassTypes, Observed
    <3>4. matched' \subseteq (1..MaxRules) \X Window /\ Alike(rules')
      BY <3>1, <3>2, PassTypes
    <3>5. wins' = [wins EXCEPT ![w] = real[w]] /\ w \in DOMAIN wins /\ w \in DOMAIN real
      BY <1>4, <2>2 DEF HandleTitle, TitleIsNews
    <3>. QED  BY <1>4, <2>1, <3>3, <3>4, <3>5 DEF HandleTitle, server, Alike, TypeOK
  <2>3. CASE ~TitleIsNews(Head(queue))
    <3>1. held' \subseteq (1..MaxUid) \X Window /\ again' \subseteq (1..MaxUid) \X Window
      BY <1>4, <2>3, Observed DEF HandleTitle
    <3>. QED  BY <1>4, <2>1, <2>3, <3>1 DEF HandleTitle, server, TypeOK
  <2>. QED  BY <2>2, <2>3
<1>5. CASE Refresh
  <2>1. held' \subseteq (1..MaxUid) \X Window /\ again' \subseteq (1..MaxUid) \X Window
    BY <1>5, Observed DEF Refresh
  <2>. QED  BY <1>5, <2>1 DEF Refresh, Ready, WindowList, server, TypeOK
<1>6. ASSUME NEW i \in 1..MaxRules, Replay(i)
      PROVE  Shape'
  <2>1. PICK w \in DOMAIN wins : rules' = [rules EXCEPT ![i].applied = w]
    BY <1>6 DEF Replay
  <2> DEFINE r == [rules[i] EXCEPT !.applied = w]
  <2>2. i \in DOMAIN rules /\ rules' = [rules EXCEPT ![i] = r]
    BY <1>6, <2>1 DEF Replay
  <2>3. r \in Rule
    BY <2>2, RulesTyped DEF Rule, TypeOK
  <2>4. rules' \in Seq(Rule) /\ Len(rules') = Len(rules)
    BY <2>2, <2>3, OneRuleChanged
  <2>5. held' \subseteq (1..MaxUid) \X Window /\ again' \subseteq (1..MaxUid) \X Window
    BY <1>6, Observed DEF Replay
  <2>. QED  BY <1>6, <2>4, <2>5 DEF Replay, server, TypeOK
<1>7. CASE Editing
  <2>1. EditEffect
    BY <1>7, EditSteps
  <2>2. held' \subseteq (1..MaxUid) \X Window /\ again' \subseteq (1..MaxUid) \X Window
    BY <2>1, Observed DEF EditEffect
  <2>. QED  BY <2>1, <2>2 DEF EditEffect, server, TypeOK
<1>8. CASE UNCHANGED vars
  BY <1>8 DEF vars, TypeOK
<1>. QED  BY <1>1, <1>2, <1>3, <1>4, <1>5, <1>6, <1>7, <1>8 DEF Next, Daemon, User, Editing

LEMMA SameSession ==
  ASSUME [Next]_vars
  PROVE  session' = session
  BY DEF Next, Server, Daemon, User, vars, Open, Close, Relist, Retitle,
         HandleList, ApplyRules, HandleTitle, Refresh, Replay, AddRule,
         RemoveRule, EditPattern, ToggleOnce, ToggleNewOnly, Unedited

LEMMA Replayed ==
  ASSUME TypeOK, NEW i, Replay(i)
  PROVE  /\ Alike(rules') /\ i \in DOMAIN rules
         /\ rules[i].once => rules[i].applied = Root
         /\ \A j \in DOMAIN rules : j # i => rules'[j].applied = rules[j].applied
         /\ rules'[i].applied \in DOMAIN wins
<1>1. PICK w \in DOMAIN wins : rules' = [rules EXCEPT ![i].applied = w]
  BY DEF Replay
<1> DEFINE r == [rules[i] EXCEPT !.applied = w]
<1>2. i \in DOMAIN rules /\ rules' = [rules EXCEPT ![i] = r]
  BY <1>1 DEF Replay
<1>3. r \in Rule /\ r.applied = w /\ r.uid = rules[i].uid /\ r.pat = rules[i].pat
      /\ r.once = rules[i].once /\ r.newOnly = rules[i].newOnly
  BY <1>2, RulesTyped DEF Rule, TypeOK
<1>4. rules' \in Seq(Rule) /\ Len(rules') = Len(rules)
  BY <1>2, <1>3, OneRuleChanged
<1>5. \A j \in DOMAIN rules : rules'[j] = IF j = i THEN r ELSE rules[j]
  BY <1>2, RulesTyped
<1>. HIDE DEF r
<1>. QED  BY <1>2, <1>3, <1>4, <1>5 DEF Replay, Alike

-----------------------------------------------------------------------------
(* A rule that fires once                                                   *)

LEMMA OnceKept ==
  ASSUME Shape, OnceInv, [Next]_vars
  PROVE  OnceInv'
<1>. USE DEF Shape
<1>0. SUFFICES ASSUME "edit" \notin session, OnceIn(rules, matched)
               PROVE  OnceIn(rules, matched)'
  BY SameSession DEF OnceInv
<1>1. CASE Server
  BY <1>0, <1>1, ServerSteps DEF ServerEffect, OnceIn
<1>2. CASE HandleList \/ Refresh
  BY <1>0, <1>2 DEF HandleList, Refresh, OnceIn
<1>3. CASE ApplyRules
  <2>1. added \in SUBSET Window
    BY DEF TypeOK
  <2>2. PICK f \in Fires("client list", added, wins) :
            /\ matched' = Pruned(MatchedAfter(f, "client list", added, wins))
            /\ rules' = Cleared(AppliedAfter(f))
    BY <1>3 DEF ApplyRules
  <2> DEFINE a == AppliedAfter(f)
             m == MatchedAfter(f, "client list", added, wins)
  <2>3. OnceIn(a, m) /\ Alike(a)
    BY <1>0, <2>1, PassOnce, PassTypes
  <2>. HIDE DEF a, m
  <2>4. ASSUME NEW i \in DOMAIN rules', NEW w \in Window,
               rules'[i].once, <<i, w>> \in matched'
        PROVE  rules'[i].applied = w
    <3>1. <<i, w>> \in m /\ w \in DOMAIN wins
      BY <2>2, <2>4 DEF Pruned, m
    <3>0. Alike(rules') /\ rules' = Cleared(a)
      BY <2>2, <2>3, ClearedFacts DEF TypeOK, a
    <3>2. i \in DOMAIN rules /\ i \in DOMAIN a /\ a[i].once
      BY <2>3, <2>4, <3>0 DEF Alike
    <3>3. a[i].applied = w
      BY <2>3, <3>1, <3>2 DEF OnceIn
    <3>. QED  BY <2>2, <2>3, <3>1, <3>2, <3>3, ClearedFacts DEF TypeOK, a
  <2>. QED  BY <2>4 DEF OnceIn
<1>4. CASE HandleTitle
  <2>1. CASE TitleIsNews(Head(queue))
    <3> DEFINE w == Head(queue)
    <3>1. PICK f \in Fires("title", {w}, wins') :
              /\ matched' = MatchedAfter(f, "title", {w}, wins')
              /\ rules' = AppliedAfter(f)
      BY <1>4, <2>1 DEF HandleTitle
    <3>2. {w} \in SUBSET Window
      BY <2>1 DEF TitleIsNews, TypeOK
    <3>. QED  BY <1>0, <3>1, <3>2, PassOnce
  <2>2. CASE ~TitleIsNews(Head(queue))
    BY <1>0, <1>4, <2>2 DEF HandleTitle, OnceIn
  <2>. QED  BY <2>1, <2>2
<1>5. ASSUME NEW i \in 1..MaxRules, Replay(i)
      PROVE  OnceIn(rules, matched)'
  <2>1. matched' = matched /\ DOMAIN rules' = DOMAIN rules
    BY <1>5, Replayed DEF Replay, Alike
  <2>2. ASSUME NEW j \in DOMAIN rules, NEW w \in Window,
               rules'[j].once, <<j, w>> \in matched
        PROVE  rules'[j].applied = w
    <3>1. rules[j].once
      BY <1>5, <2>2, Replayed DEF Alike
    <3>2. rules[j].applied = w
      BY <1>0, <2>2, <3>1 DEF OnceIn
    <3>3. j # i
      BY <1>5, <3>1, <3>2, Replayed, ConstantsAssumption
    <3>. QED  BY <1>5, <3>2, <3>3, Replayed
  <2>. QED  BY <2>1, <2>2 DEF OnceIn
<1>6. CASE Editing
  BY <1>0, <1>6, EditSteps DEF EditEffect, Edit
<1>7. CASE UNCHANGED vars
  BY <1>0, <1>7 DEF vars, OnceIn
<1>. QED  BY <1>1, <1>2, <1>3, <1>4, <1>5, <1>6, <1>7 DEF Next, Daemon, User, Editing

-----------------------------------------------------------------------------
(* No fire again while a window goes on to match                            *)

LEMMA NothingFired ==
  ASSUME TypeOK, FlagsOfHeld, matched' = matched, rules' = rules, Observe({})
  PROVE  FlagsOfHeld'
  BY DEF FlagsOfHeld, Observe

LEMMA PassHeld ==
  ASSUME TypeOK, NEW trigger, NEW W \in SUBSET Window, NEW f \in Fires(trigger, W, wins'),
         FlagsOfHeld, Observe(FiredBy(f)), Alike(rules'),
         \A i \in DOMAIN rules : \A w \in DOMAIN wins' :
            <<i, w>> \in MatchedAfter(f, trigger, W, wins') => <<i, w>> \in matched'
  PROVE  FlagsOfHeld'
<1> DEFINE m == MatchedAfter(f, trigger, W, wins')
<1>1. held \cap FiredBy(f) = {}
  <2>. SUFFICES ASSUME NEW p \in held, p \in FiredBy(f)
                PROVE  FALSE
    OBVIOUS
  <2>1. PICK i \in DOMAIN rules : rules[i].uid = p[1] /\ <<i, p[2]>> \in matched
    BY DEF FlagsOfHeld
  <2>2. PICK j \in DOMAIN rules : rules[j].uid = p[1] /\ <<j, p[2]>> \notin matched
    BY PassFires
  <2>. QED  BY <2>1, <2>2 DEF FlagsOfHeld
<1>2. again' = {}
  BY <1>1 DEF Observe, FlagsOfHeld
<1>3. ASSUME NEW p \in held'
      PROVE  \E i \in DOMAIN rules' : rules'[i].uid = p[1] /\ <<i, p[2]>> \in matched'
  <2>1. p \in held \cup FiredBy(f) /\ p[2] \in DOMAIN wins'
    BY DEF Observe
  <2>2. PICK k \in DOMAIN rules' : rules'[k].uid = p[1] /\ wins'[p[2]] \in rules'[k].pat
    BY DEF Observe
  <2>3. k \in DOMAIN rules /\ rules[k].uid = p[1] /\ wins'[p[2]] \in rules[k].pat
    BY <2>2 DEF Alike
  <2>4. CASE p \in held
    <3>1. PICK i \in DOMAIN rules : rules[i].uid = p[1] /\ <<i, p[2]>> \in matched
      BY <2>4 DEF FlagsOfHeld
    <3>2. i = k
      BY <2>3, <3>1 DEF FlagsOfHeld
    <3>3. <<i, p[2]>> \in m
      BY <2>3, <3>1, <3>2, PassFlags DEF FlagsAfter
    <3>. QED  BY <2>1, <3>1, <3>3 DEF Alike
  <2>5. CASE p \in FiredBy(f)
    <3>1. PICK i \in DOMAIN rules : rules[i].uid = p[1] /\ <<i, p[2]>> \in m
      BY <2>5, PassFires
    <3>. QED  BY <2>1, <3>1 DEF Alike
  <2>. QED  BY <2>1, <2>4, <2>5
<1>4. \A i, j \in DOMAIN rules' : rules'[i].uid = rules'[j].uid => i = j
  BY DEF FlagsOfHeld, Alike
<1>. QED  BY <1>2, <1>3, <1>4 DEF FlagsOfHeld

LEMMA HeldKept ==
  ASSUME Shape, HeldInv, [Next]_vars
  PROVE  HeldInv'
<1>. USE DEF Shape
<1>0. SUFFICES ASSUME "edit" \notin session, FlagsOfHeld
               PROVE  FlagsOfHeld'
  BY SameSession DEF HeldInv
<1>1. CASE Server
  BY <1>0, <1>1, ServerSteps, NothingFired DEF ServerEffect
<1>2. CASE HandleList \/ Refresh
  BY <1>0, <1>2, NothingFired DEF HandleList, Refresh
<1>3. CASE ApplyRules
  <2>1. added \in SUBSET Window /\ wins' = wins
    BY <1>3 DEF TypeOK, ApplyRules
  <2>2. PICK f \in Fires("client list", added, wins) :
            /\ matched' = Pruned(MatchedAfter(f, "client list", added, wins))
            /\ rules' = Cleared(AppliedAfter(f))
            /\ Observe(FiredBy(f))
    BY <1>3 DEF ApplyRules
  <2>3. Alike(rules')
    BY <2>1, <2>2, PassTypes, ClearedFacts DEF TypeOK
  <2>. QED  BY <1>0, <2>1, <2>2, <2>3, PassHeld DEF Pruned
<1>4. CASE HandleTitle
  <2>1. CASE TitleIsNews(Head(queue))
    <3> DEFINE w == Head(queue)
    <3>1. PICK f \in Fires("title", {w}, wins') :
              /\ matched' = MatchedAfter(f, "title", {w}, wins')
              /\ rules' = AppliedAfter(f)
              /\ Observe(FiredBy(f))
      BY <1>4, <2>1 DEF HandleTitle
    <3>2. {w} \in SUBSET Window
      BY <2>1 DEF TitleIsNews, TypeOK
    <3>3. Alike(rules')
      BY <3>1, <3>2, PassTypes
    <3>. QED  BY <1>0, <3>1, <3>2, <3>3, PassHeld
  <2>2. CASE ~TitleIsNews(Head(queue))
    BY <1>0, <1>4, <2>2, NothingFired DEF HandleTitle
  <2>. QED  BY <2>1, <2>2
<1>5. ASSUME NEW i \in 1..MaxRules, Replay(i)
      PROVE  FlagsOfHeld'
  <2>1. matched' = matched /\ Observe({}) /\ Alike(rules')
    BY <1>5, Replayed DEF Replay
  <2>. QED  BY <1>0, <2>1 DEF FlagsOfHeld, Observe, Alike
<1>6. CASE Editing
  BY <1>0, <1>6, EditSteps DEF EditEffect, Edit
<1>7. CASE UNCHANGED vars
  BY <1>0, <1>7 DEF vars, FlagsOfHeld
<1>. QED  BY <1>1, <1>2, <1>3, <1>4, <1>5, <1>6, <1>7 DEF Next, Daemon, User, Editing

-----------------------------------------------------------------------------
(* The known list and the rules that are applied                            *)

LEMMA ServerQueue ==
  ASSUME TypeOK, Server
  PROVE  /\ \A w : Waiting(w) => Waiting(w)'
         /\ listed' # listed => Waiting(Root)'
         /\ \A w \in DOMAIN wins \cap DOMAIN real' :
               real'[w] # real[w] /\ w \in selected => Waiting(w)'
<1>1. ServerEffect
  BY ServerSteps
<1>2. PICK v \in Window \cup {Root} : Silent(v)
  BY <1>1 DEF ServerEffect
<1>3. \A w : Waiting(w) => Waiting(w)'
  <2>1. CASE queue' = queue
    BY <2>1 DEF Waiting
  <2>2. CASE queue' = Append(queue, v)
    BY <2>2, WaitingAppended DEF TypeOK
  <2>. QED  BY <1>2, <2>1, <2>2 DEF Silent
<1>4. listed' # listed => Waiting(Root)'
  BY <1>1, WaitingAppended DEF ServerEffect, TypeOK
<1>5. ASSUME NEW w \in DOMAIN wins \cap DOMAIN real', real'[w] # real[w], w \in selected
      PROVE  Waiting(w)'
  <2>1. queue' = Append(queue, w) /\ w \in Window \cup {Root}
    BY <1>1, <1>5 DEF ServerEffect, TypeOK
  <2>. QED  BY <2>1, WaitingAppended DEF TypeOK
<1>. QED  BY <1>3, <1>4, <1>5

LEMMA TitleQueue ==
  ASSUME TypeOK, HandleTitle
  PROVE  \A w : Waiting(w) /\ w # Head(queue) => Waiting(w)'
  BY WaitingTail DEF HandleTitle, TypeOK

LEMMA ListKept ==
  ASSUME Shape, ListInv, [Next]_vars
  PROVE  ListInv'
<1>. USE DEF Shape
<1>1. CASE Server
  BY <1>1, ServerSteps, ServerQueue DEF ServerEffect, ListInv
<1>2. CASE HandleList \/ Refresh
  <2>1. DOMAIN wins' = listed /\ listed' = listed
    BY <1>2 DEF HandleList, Refresh, WindowList, server
  <2>. QED  BY <2>1 DEF ListInv
<1>3. CASE HandleTitle
  <2>1. DOMAIN wins' = DOMAIN wins /\ listed' = listed /\ Head(queue) # Root
    BY <1>3 DEF HandleTitle, server
  <2>. QED  BY <1>3, <2>1, TitleQueue DEF ListInv
<1>4. CASE ApplyRules
  BY <1>4 DEF ApplyRules, ListInv, Waiting
<1>5. ASSUME NEW i \in 1..MaxRules, Replay(i)
      PROVE  ListInv'
  BY <1>5 DEF Replay, server, ListInv, Waiting
<1>6. CASE Editing
  BY <1>6, EditSteps DEF EditEffect, server, ListInv, Waiting
<1>7. CASE UNCHANGED vars
  BY <1>7 DEF vars, ListInv, Waiting
<1>. QED  BY <1>1, <1>2, <1>3, <1>4, <1>5, <1>6, <1>7 DEF Next, Daemon, User, Editing

LEMMA LiveKept ==
  ASSUME Shape, ListInv, LiveInv, [Next]_vars
  PROVE  LiveInv'
<1>. USE DEF Shape
<1>1. CASE Server
  BY <1>1, ServerSteps, ServerQueue DEF ServerEffect, LiveInv
<1>2. CASE HandleList
  BY <1>2 DEF HandleList, LiveInv
<1>3. CASE Refresh
  <2>1. /\ DOMAIN wins' = listed
        /\ UNCHANGED <<queue, rules, handling>>
    BY <1>3 DEF Refresh, WindowList
  <2>2. ASSUME NEW i \in DOMAIN rules, rules[i].applied \in DOMAIN wins \ listed
        PROVE  Waiting(Root)
    BY <2>2 DEF ListInv
  <2>. QED  BY <2>1, <2>2 DEF LiveInv, Waiting
<1>4. CASE HandleTitle
  <2>1. /\ DOMAIN wins' = DOMAIN wins /\ handling' = handling
        /\ Waiting(Root) => Waiting(Root)'
    BY <1>4, TitleQueue DEF HandleTitle
  <2>2. CASE TitleIsNews(Head(queue))
    <3> DEFINE w == Head(queue)
    <3>1. PICK f \in Fires("title", {w}, wins') : rules' = AppliedAfter(f)
      BY <1>4, <2>2 DEF HandleTitle
    <3>2. {w} \in SUBSET Window /\ w \in DOMAIN wins
      BY <2>2 DEF TitleIsNews, TypeOK
    <3>3. f \in [DOMAIN rules -> SUBSET {w}]
      BY <3>2, FireFacts
    <3>4. /\ DOMAIN rules' = DOMAIN rules
          /\ \A i \in DOMAIN rules : rules'[i].applied \in {w, rules[i].applied}
      <4>1. /\ Alike(AppliedAfter(f))
            /\ \A i \in DOMAIN rules :
                  \/ AppliedAfter(f)[i].applied \in f[i]
                  \/ AppliedAfter(f)[i].applied = rules[i].applied
        BY <3>2, <3>3, AppliedFacts
      <4>2. \A i \in DOMAIN rules : f[i] \subseteq {w}
        BY <3>3
      <4>. QED  BY <3>1, <4>1, <4>2 DEF Alike
    <3>. QED  BY <2>1, <3>2, <3>4 DEF LiveInv
  <2>3. CASE ~TitleIsNews(Head(queue))
    BY <1>4, <2>1, <2>3 DEF HandleTitle, LiveInv
  <2>. QED  BY <2>2, <2>3
<1>5. CASE ApplyRules
  <2>1. added \in SUBSET Window /\ wins' = wins
    BY <1>5 DEF TypeOK, ApplyRules
  <2>2. PICK f \in Fires("client list", added, wins) : rules' = Cleared(AppliedAfter(f))
    BY <1>5 DEF ApplyRules
  <2>3. Alike(AppliedAfter(f))
    BY <2>1, PassTypes
  <2>4. /\ Alike(rules')
        /\ \A i \in DOMAIN rules : rules'[i].applied \in DOMAIN wins \cup {Root}
    BY <2>2, <2>3, ClearedFacts DEF TypeOK
  <2>. QED  BY <2>1, <2>4 DEF LiveInv, Alike
<1>6. ASSUME NEW i \in 1..MaxRules, Replay(i)
      PROVE  LiveInv'
  <2>1. /\ UNCHANGED <<wins, queue, handling>> /\ DOMAIN rules' = DOMAIN rules
        /\ \A j \in DOMAIN rules : rules'[j].applied \in DOMAIN wins \cup {rules[j].applied}
    BY <1>6, Replayed DEF Replay, Alike
  <2>. QED  BY <2>1 DEF LiveInv, Waiting
<1>7. CASE Editing
  BY <1>7, EditSteps DEF EditEffect, LiveInv, Waiting
<1>8. CASE UNCHANGED vars
  BY <1>8 DEF vars, LiveInv, Waiting
<1>. QED  BY <1>1, <1>2, <1>3, <1>4, <1>5, <1>6, <1>7, <1>8 DEF Next, Daemon, User, Editing

-----------------------------------------------------------------------------
(* Without disturbances                                                     *)

LEMMA SameFlags ==
  ASSUME FlagInv, UNCHANGED <<old, wins, added, handling, matched>>, Alike(rules')
  PROVE  FlagInv'
<1>1. DOMAIN rules' = DOMAIN rules
  BY DEF Alike
<1>2. \A i \in DOMAIN rules : rules'[i].pat = rules[i].pat /\ (Plain(i)' <=> Plain(i))
  BY DEF Alike, Plain
<1>. QED  BY <1>1, <1>2 DEF FlagInv

LEMMA SameRules ==
  ASSUME TypeOK, rules' = rules
  PROVE  Alike(rules')
  BY DEF Alike, TypeOK

LEMMA CalmKept ==
  ASSUME Shape, CalmInv, [Next]_vars
  PROVE  CalmInv'
<1>. USE DEF Shape
<1>0. SUFFICES ASSUME session = {}, TitleInv, FlagInv
               PROVE  TitleInv' /\ FlagInv'
  BY SameSession DEF CalmInv
<1>1. CASE Server
  <2>1. /\ UNCHANGED <<old, wins, added, handling, rules, matched>> /\ ~handling
        /\ \A w \in DOMAIN wins \cap DOMAIN real' :
              w \in DOMAIN real /\ (w \in selected => w \in selected')
    BY <1>0, <1>1, ServerSteps DEF ServerEffect
  <2>2. TitleInv'
    BY <1>0, <1>1, <2>1, ServerQueue DEF TitleInv
  <2>. QED  BY <1>0, <2>1, <2>2, SameFlags, SameRules
<1>2. CASE HandleList
  <2>1. /\ UNCHANGED <<old, real, rules, matched>> /\ ~handling /\ added = {}
        /\ wins' = [w \in listed |-> IF w \in DOMAIN wins THEN wins[w] ELSE real[w]]
        /\ added' = DOMAIN wins' \ DOMAIN wins /\ handling' = TRUE
    BY <1>2 DEF HandleList, Ready, WindowList, NewIds, server
  <2>2. \A w \in DOMAIN wins : Waiting(w) => Waiting(w)'
    <3>1. /\ queue # <<>> /\ Head(queue) = Root /\ queue' = Tail(queue)
          /\ queue \in Seq(Window \cup {Root})
      BY <1>2 DEF HandleList, TypeOK
    <3>2. \A w \in DOMAIN wins : w # Root
      BY ConstantsAssumption DEF TypeOK
    <3>. QED  BY <3>1, <3>2, WaitingTail
  <2>3. TitleInv'
    BY <1>0, <2>1, <2>2 DEF TitleInv
  <2>4. ASSUME NEW i \in DOMAIN rules, NEW w \in DOMAIN wins' \ old, Plain(i)
        PROVE  IF w \in added' THEN <<i, w>> \notin matched
               ELSE <<i, w>> \in matched <=> wins'[w] \in rules[i].pat
    <3>1. CASE w \in DOMAIN wins
      BY <1>0, <2>1, <2>4, <3>1 DEF FlagInv
    <3>2. CASE w \notin DOMAIN wins
      <4>1. \A p \in matched : p[2] \in DOMAIN wins
        BY <1>0, <2>1 DEF FlagInv
      <4>. QED  BY <2>1, <3>2, <4>1
    <3>. QED  BY <3>1, <3>2
  <2>5. FlagInv'
    BY <2>1, <2>4 DEF FlagInv, Plain
  <2>. QED  BY <2>3, <2>5
<1>3. CASE ApplyRules
  <2>1. /\ UNCHANGED <<old, real, queue, wins>> /\ added' = {} /\ handling' = FALSE
        /\ selected' = selected \cup (DOMAIN wins \cap DOMAIN real)
        /\ added \in SUBSET Window
    BY <1>3 DEF ApplyRules, TypeOK
  <2>2. TitleInv'
    BY <1>0, <2>1 DEF TitleInv, Waiting
  <2>3. PICK f \in Fires("client list", added, wins) :
            /\ matched' = Pruned(MatchedAfter(f, "client list", added, wins))
            /\ rules' = Cleared(AppliedAfter(f))
    BY <1>3 DEF ApplyRules
  <2> DEFINE m == MatchedAfter(f, "client list", added, wins)
  <2>4. /\ DOMAIN rules' = DOMAIN rules
        /\ \A i \in DOMAIN rules : rules'[i].pat = rules[i].pat /\ (Plain(i)' <=> Plain(i))
    <3>1. Alike(rules')
      BY <2>1, <2>3, PassTypes, ClearedFacts DEF TypeOK
    <3>. QED  BY <3>1 DEF Alike, Plain
  <2>5. FlagsAfter(m, "client list", added, wins)
    BY <2>1, PassFlags
  <2>6. matched' = {p \in m : p[2] \in DOMAIN wins}
    BY <2>3 DEF Pruned
  <2>. HIDE DEF m
  <2>7. ASSUME NEW i \in DOMAIN rules, NEW w \in DOMAIN wins \ old, Plain(i)
        PROVE  <<i, w>> \in matched' <=> wins[w] \in rules[i].pat
    <3>1. <<i, w>> \in m <=> wins[w] \in rules[i].pat
      BY <1>0, <2>5, <2>7 DEF FlagsAfter, FlagInv
    <3>. QED  BY <2>6, <3>1
  <2>8. FlagInv'
    <3>1. \A p \in matched' : p[2] \in DOMAIN wins'
      BY <2>1, <2>6
    <3>2. \A i \in DOMAIN rules', w \in DOMAIN wins' \ old' :
             Plain(i)' => (<<i, w>> \in matched' <=> wins'[w] \in rules'[i].pat)
      BY <2>1, <2>4, <2>7
    <3>. QED  BY <2>1, <3>1, <3>2 DEF FlagInv
  <2>. QED  BY <2>2, <2>8
<1>4. CASE HandleTitle
  <2>1. /\ UNCHANGED <<old, real, selected, added, handling>> /\ ~handling /\ added = {}
    BY <1>4 DEF HandleTitle, Ready, server
  <2>2. CASE TitleIsNews(Head(queue))
    <3> DEFINE v == Head(queue)
    <3>1. v \in DOMAIN wins /\ v \in DOMAIN real /\ {v} \in SUBSET Window
      BY <2>2 DEF TitleIsNews, TypeOK
    <3>2. PICK f \in Fires("title", {v}, wins') :
              /\ matched' = MatchedAfter(f, "title", {v}, wins')
              /\ rules' = AppliedAfter(f)
      BY <1>4, <2>2 DEF HandleTitle
    <3>3. /\ DOMAIN wins' = DOMAIN wins /\ wins'[v] = real[v]
          /\ \A w \in DOMAIN wins : w # v => wins'[w] = wins[w]
      BY <1>4, <2>2, <3>1 DEF HandleTitle
    <3>4. \A w : Waiting(w) /\ w # v => Waiting(w)'
      BY <1>4, TitleQueue
    <3>5. FlagsAfter(matched', "title", {v}, wins')
      BY <3>1, <3>2, PassFlags
    <3>6. Alike(rules')
      BY <3>1, <3>2, PassTypes
    <3>. HIDE DEF v
    <3>7. TitleInv'
      BY <1>0, <2>1, <3>3, <3>4 DEF TitleInv
    <3>8. \A i \in DOMAIN rules : rules'[i].pat = rules[i].pat /\ (Plain(i)' <=> Plain(i))
      BY <3>6 DEF Alike, Plain
    <3>9. ASSUME NEW i \in DOMAIN rules, NEW w \in DOMAIN wins \ old, Plain(i)
          PROVE  <<i, w>> \in matched' <=> wins'[w] \in rules[i].pat
      <4>1. CASE w = v
        BY <3>5, <3>9, <4>1 DEF FlagsAfter
      <4>2. CASE w # v
        <5>1. <<i, w>> \in matched' <=> <<i, w>> \in matched
          BY <3>5, <4>2 DEF FlagsAfter
        <5>2. <<i, w>> \in matched <=> wins[w] \in rules[i].pat
          BY <1>0, <2>1, <3>9 DEF FlagInv
        <5>. QED  BY <3>3, <4>2, <5>1, <5>2
      <4>. QED  BY <4>1, <4>2
    <3>10. ASSUME NEW p \in matched'
           PROVE  p[2] \in DOMAIN wins
      <4>1. p = <<p[1], p[2]>>
        BY <3>5 DEF FlagsAfter
      <4>2. p[2] # v => p \in matched
        BY <3>5, <4>1 DEF FlagsAfter
      <4>. QED  BY <1>0, <2>1, <3>1, <4>2 DEF FlagInv
    <3>11. FlagInv'
      <4>1. DOMAIN rules' = DOMAIN rules
        BY <3>6 DEF Alike
      <4>. QED  BY <2>1, <3>3, <3>8, <3>9, <3>10, <4>1 DEF FlagInv
    <3>. QED  BY <3>7, <3>11
  <2>3. CASE ~TitleIsNews(Head(queue))
    <3>1. UNCHANGED <<wins, matched, rules>>
      BY <1>4, <2>3 DEF HandleTitle
    <3>2. \A w \in DOMAIN wins \cap DOMAIN real : wins[w] # real[w] => w # Head(queue)
      BY <2>3 DEF TitleIsNews
    <3>3. TitleInv'
      BY <1>0, <1>4, <2>1, <3>1, <3>2, TitleQueue DEF TitleInv
    <3>. QED  BY <1>0, <2>1, <3>1, <3>3, SameFlags, SameRules
  <2>. QED  BY <2>2, <2>3
<1>5. ASSUME NEW i \in 1..MaxRules, Replay(i)
      PROVE  TitleInv' /\ FlagInv'
  <2>1. UNCHANGED <<old, real, selected, queue, wins, added, handling, matched>> /\ Alike(rules')
    BY <1>5, Replayed DEF Replay, server
  <2>. QED  BY <1>0, <2>1, SameFlags DEF TitleInv, Waiting
<1>6. CASE Editing \/ Refresh
  BY <1>0, <1>6, EditSteps DEF EditEffect, Edit, Refresh
<1>7. CASE UNCHANGED vars
  BY <1>0, <1>7, SameFlags, SameRules DEF vars, TitleInv, Waiting
<1>. QED  BY <1>1, <1>2, <1>3, <1>4, <1>5, <1>6, <1>7 DEF Next, Daemon, User, Editing

-----------------------------------------------------------------------------
(* The theorems                                                             *)

LEMMA InitRules ==
  ASSUME Init
  PROVE  /\ rules \in Seq(Rule) /\ Len(rules) \in {0, 1} /\ lastUid = Len(rules)
         /\ \A i \in DOMAIN rules : rules[i].applied = Root
         /\ \A i, j \in DOMAIN rules : i = j
<1>1. rules \in LoadedRules /\ lastUid = Len(rules)
  BY DEF Init
<1>2. CASE rules = <<>>
  BY <1>1, <1>2
<1>3. ASSUME NEW r \in Rule, r.applied = Root, rules = <<r>>
      PROVE  /\ rules \in Seq(Rule) /\ Len(rules) = 1
             /\ \A i \in DOMAIN rules : rules[i].applied = Root
             /\ \A i, j \in DOMAIN rules : i = j
  BY <1>3
<1>. QED  BY <1>1, <1>2, <1>3 DEF LoadedRules

(* The inductive invariant.                                                 *)
IInv == Shape /\ OnceInv /\ HeldInv /\ ListInv /\ LiveInv /\ CalmInv

LEMMA InitInv ==
  ASSUME Init
  PROVE  IInv
<1>1. Shape
  <2>1. rules \in Seq(Rule) /\ Len(rules) <= MaxRules /\ lastUid \in 0..MaxUid
    BY InitRules, ConstantsAssumption
  <2>2. queue \in Seq(Window \cup {Root})
    BY DEF Init
  <2>3. session \subseteq AllQuirks
    BY ConstantsAssumption DEF Init
  <2>. QED  BY <2>1, <2>2, <2>3 DEF Init, Shape, TypeOK
<1>2. OnceInv
  BY DEF Init, OnceInv, OnceIn
<1>3. HeldInv
  BY InitRules DEF Init, HeldInv, FlagsOfHeld
<1>4. ListInv
  BY DEF Init, ListInv
<1>5. LiveInv
  BY InitRules DEF LiveInv
<1>6. CalmInv
  BY DEF Init, CalmInv, TitleInv, FlagInv
<1>. QED  BY <1>1, <1>2, <1>3, <1>4, <1>5, <1>6 DEF IInv

(* Every step keeps the strengthening that the theorems below rest on.      *)
THEOREM InductiveInvariant == Spec => []IInv
<1>1. IInv /\ [Next]_vars => IInv'
  BY ShapeKept, OnceKept, HeldKept, ListKept, LiveKept, CalmKept DEF IInv
<1>. QED  BY InitInv, <1>1, PTL DEF Spec

(* Every variable has the values the code's types allow.                    *)
THEOREM TypeCorrect == Spec => []TypeOK
<1>1. IInv => TypeOK
  BY DEF IInv, Shape
<1>. QED  BY InductiveInvariant, <1>1, PTL

(* As long as the rules are not edited, a rule that fires once is matched   *)
(* for one window at most.                                                  *)
THEOREM OnceForOneWindow == Spec => []OnceForOne
<1>1. IInv => OnceForOne
  BY DEF IInv, OnceInv, OnceIn, OnceForOne
<1>. QED  BY InductiveInvariant, <1>1, PTL

(* As long as the rules are not edited, no rule fires for a window again    *)
(* while the window goes on to match it.                                    *)
THEOREM NoRefireWithoutEdits == Spec => []RefiresOnlyByEdits
<1>1. IInv => RefiresOnlyByEdits
  BY DEF IInv, HeldInv, FlagsOfHeld, RefiresOnlyByEdits
<1>. QED  BY InductiveInvariant, <1>1, PTL

(* When every event is handled, a rule is applied to no window that is gone.*)
THEOREM AppliedWindowIsLive == Spec => []AppliedIsLive
<1>1. IInv => AppliedIsLive
  BY DEF IInv, LiveInv, AppliedIsLive, Quiet, Waiting
<1>. QED  BY InductiveInvariant, <1>1, PTL

(* Without disturbances, when every event is handled, the known windows are *)
(* the listed ones with their titles of now, and a plain rule is matched    *)
(* for exactly the new windows it fits.                                     *)
THEOREM RulesSettle == Spec => []Settled
<1>1. ASSUME IInv, session = {}, Quiet
      PROVE  UpToDate
  <2>1. \A w : ~Waiting(w)
    BY <1>1 DEF Quiet, Waiting
  <2>2. DOMAIN wins = listed
    BY <1>1, <2>1 DEF IInv, ListInv
  <2>3. \A w \in listed : w \in DOMAIN real /\ wins[w] = real[w]
    BY <1>1, <2>1, <2>2 DEF IInv, CalmInv, TitleInv, Shape, TypeOK
  <2>4. wins = [w \in listed |-> real[w]]
    BY <1>1, <2>2, <2>3 DEF IInv, Shape
  <2>5. \A i \in DOMAIN rules, w \in listed \ old :
           Plain(i) => (<<i, w>> \in matched <=> real[w] \in rules[i].pat)
    BY <1>1, <2>2, <2>3 DEF IInv, CalmInv, FlagInv, Quiet, Shape
  <2>. QED  BY <2>4, <2>5 DEF UpToDate, Plain
<1>2. IInv => Settled
  BY <1>1 DEF Settled
<1>. QED  BY InductiveInvariant, <1>2, PTL

-----------------------------------------------------------------------------
(* Lines of commands: WindowCommands, with a state of its own.              *)
CONSTANTS Win, Desks, PerRow, Screens, Names, Lines, MaxLines
VARIABLE wc
WC == INSTANCE WindowCommands

(* A set of numbers that has an element has a least one. *)
LEMMA NatMin ==
    ASSUME NEW T, T \subseteq Nat, T # {}
    PROVE  \E x \in T : \A y \in T : x <= y
<1>1. PICK x \in T : \A y \in T : <<y, x>> \notin OpToRel(<, Nat)
  BY Zenon, NatLessThanWellFounded, WFMin
<1>2. \A y \in T : ~(y < x)
  BY Zenon, <1>1 DEF OpToRel
<1>3. x \in Nat /\ \A y \in T : y \in Nat
  OBVIOUS
<1>4. \A y \in T : x <= y
  BY <1>2, <1>3
<1> QED
  BY <1>4

(* The record that wc is, and what told has. *)
WCFields == {"clients", "gone", "count", "rows", "at", "list", "seen", "desk", "screen", "sticky",
             "hidden", "tiled", "current", "active", "names", "shown", "dialog", "collected", "told", "ran"}
WCTold == {"window", "on", "front", "anyFront", "slips"}

(* An open dialog for "maw" holds what was collected, unless a later "maw"  *)
(* collected again.                                                         *)
WCHeld(dialog, collected) ==
    /\ DOMAIN dialog = {"kind", "of", "for", "again"}
    /\ dialog.kind = "all" /\ ~dialog.again => collected = dialog.for
WCShape(s) ==
    /\ DOMAIN s = WCFields /\ DOMAIN s.desk = Win /\ DOMAIN s.screen = Win
    /\ DOMAIN s.list = WC!Place /\ DOMAIN s.told = WCTold
    /\ WCHeld(s.dialog, s.collected)

(* A window is another one after t than after s.                            *)
WCChanged(s, t, v) ==
    \/ t.desk[v] # s.desk[v] \/ t.screen[v] # s.screen[v]
    \/ (v \in s.tiled) # (v \in t.tiled) \/ (v \in s.sticky) # (v \in t.sticky)
    \/ v \in t.hidden \ s.hidden \/ v \in t.gone \ s.gone

(* A command makes t of s: whether it reads the list again and whether it   *)
(* closes a window, the windows it changes, and those it gives the focus.   *)
WCDid(s, t, reads, closes, on, front) ==
    /\ WCShape(t) /\ t.told = s.told
    /\ s.shown => t.shown /\ t.rows = s.rows
    /\ closes \/ t.clients = s.clients
    /\ t.list = s.list \/ (reads /\ t.list = WC!Relisted(s).list)
    /\ \A v \in Win : WCChanged(s, t, v) => v \in on
    /\ t.active \in {s.active, 0} \cup front

LEMMA WCWeaker ==
    ASSUME NEW s, NEW t, NEW reads, NEW closes, NEW on, NEW front,
           WCDid(s, t, reads, closes, on, front),
           NEW reads2, NEW closes2, NEW on2, NEW front2,
           reads => reads2, closes => closes2, on \subseteq on2, front \subseteq front2
    PROVE  WCDid(s, t, reads2, closes2, on2, front2)
BY DEF WCDid

LEMMA WCRests == ASSUME NEW s, WCShape(s) PROVE WCDid(s, s, FALSE, FALSE, {}, {})
BY DEF WCDid, WCChanged

LEMMA WCDone ==
    ASSUME NEW s
    PROVE  /\ WC!Done(s).s = s /\ WC!Failed(s).s = s /\ WC!Done(s).ok = TRUE /\ WC!Failed(s).ok = FALSE
BY DEF WC!Done, WC!Failed

(* No window and no array of windows is looked at.                          *)
WCSame(s, t) ==
    /\ WCShape(t)
    /\ t.desk = s.desk /\ t.screen = s.screen /\ t.tiled = s.tiled /\ t.sticky = s.sticky
    /\ t.hidden = s.hidden /\ t.gone = s.gone /\ t.clients = s.clients /\ t.active = s.active
    /\ t.list = s.list /\ t.rows = s.rows /\ t.shown = s.shown

LEMMA WCSameDid ==
    ASSUME NEW s, NEW t, WCSame(s, t), t.told = s.told
    PROVE  WCDid(s, t, FALSE, FALSE, {}, {})
BY DEF WCSame, WCDid, WCChanged

LEMMA WCRelists ==
    ASSUME NEW s, WCShape(s)
    PROVE  LET t == WC!Relisted(s) IN
           /\ WCShape(t) /\ t.told = s.told
           /\ t.desk = s.desk /\ t.screen = s.screen /\ t.tiled = s.tiled /\ t.sticky = s.sticky
           /\ t.hidden = s.hidden /\ t.gone = s.gone /\ t.clients = s.clients /\ t.active = s.active
           /\ t.rows = s.rows /\ t.shown = s.shown
           /\ t.dialog = s.dialog /\ t.collected = s.collected
           /\ t.list = [n \in WC!Place |-> IF n <= Len(s.clients) THEN s.clients[n] ELSE s.list[n]]
<1>1. PICK list, count, seen :
          /\ WC!Relisted(s) = [s EXCEPT !.list = list, !.count = count, !.seen = seen]
          /\ list = [n \in WC!Place |-> IF n <= Len(s.clients) THEN s.clients[n] ELSE s.list[n]]
  BY Zenon DEF WC!Relisted
<1>2. DOMAIN list = WC!Place
  BY Zenon, <1>1
<1>. DEFINE t == [s EXCEPT !.list = list, !.count = count, !.seen = seen]
<1>3. /\ DOMAIN t = WCFields /\ t.told = s.told
      /\ t.desk = s.desk /\ t.screen = s.screen /\ t.tiled = s.tiled /\ t.sticky = s.sticky
      /\ t.hidden = s.hidden /\ t.gone = s.gone /\ t.clients = s.clients /\ t.active = s.active
      /\ t.rows = s.rows /\ t.shown = s.shown /\ t.list = list
      /\ t.dialog = s.dialog /\ t.collected = s.collected
  BY DEF WCShape, WCFields
<1>. HIDE DEF t
<1>4. WCShape(t)
  BY <1>2, <1>3 DEF WCShape
<1> QED
  BY Zenon, <1>1, <1>3, <1>4 DEF t

LEMMA WCOverlaidKeeps ==
    ASSUME NEW s, WCShape(s)
    PROVE  LET t == WC!Overlaid(s) IN
           /\ WCShape(t) /\ t.told = s.told
           /\ t.desk = s.desk /\ t.screen = s.screen /\ t.tiled = s.tiled /\ t.sticky = s.sticky
           /\ t.hidden = s.hidden /\ t.gone = s.gone /\ t.clients = s.clients /\ t.active = s.active
           /\ t.collected = s.collected
           /\ s.shown => t = s
           /\ ~s.shown => t.list = WC!Relisted(s).list
<1>1. CASE s.shown
  BY Zenon, <1>1 DEF WC!Overlaid
<1>2. CASE ~s.shown
  <2>. DEFINE r == WC!Relisted(s)
  <2>1. PICK rows, at : WC!Overlaid(s) = [r EXCEPT !.rows = rows, !.at = at, !.shown = TRUE]
    BY Zenon, <1>2 DEF WC!Overlaid
  <2>2. /\ WCShape(r) /\ r.told = s.told
        /\ r.desk = s.desk /\ r.screen = s.screen /\ r.tiled = s.tiled /\ r.sticky = s.sticky
        /\ r.hidden = s.hidden /\ r.gone = s.gone /\ r.clients = s.clients /\ r.active = s.active
        /\ r.collected = s.collected
    BY Zenon, WCRelists
  <2>. DEFINE t == [r EXCEPT !.rows = rows, !.at = at, !.shown = TRUE]
  <2>. HIDE DEF r
  <2>3. /\ WCShape(t) /\ t.told = s.told
        /\ t.desk = s.desk /\ t.screen = s.screen /\ t.tiled = s.tiled /\ t.sticky = s.sticky
        /\ t.hidden = s.hidden /\ t.gone = s.gone /\ t.clients = s.clients /\ t.active = s.active
        /\ t.collected = s.collected /\ t.list = r.list
    BY <2>2 DEF WCShape, WCFields
  <2>. HIDE DEF t
  <2>4. WC!Overlaid(s) = t
    BY Zenon, <2>1 DEF t
  <2> QED
    BY Zenon, <1>2, <2>3, <2>4 DEF r
<1> QED
  BY <1>1, <1>2

LEMMA WCOverlaid ==
    ASSUME NEW s, WCShape(s)
    PROVE  WCDid(s, WC!Overlaid(s), ~s.shown, FALSE, {}, {})
<1>. DEFINE t == WC!Overlaid(s)
<1>1. /\ WCShape(t) /\ t.told = s.told
      /\ t.desk = s.desk /\ t.screen = s.screen /\ t.tiled = s.tiled /\ t.sticky = s.sticky
      /\ t.hidden = s.hidden /\ t.gone = s.gone /\ t.clients = s.clients /\ t.active = s.active
      /\ s.shown => t = s
      /\ ~s.shown => t.list = WC!Relisted(s).list
  BY Zenon, WCOverlaidKeeps
<1>. HIDE DEF t
<1>2. WCDid(s, t, ~s.shown, FALSE, {}, {})
  BY <1>1 DEF WCDid, WCChanged
<1> QED
  BY Zenon, <1>2 DEF t

LEMMA WCShows ==
    ASSUME NEW s, WCShape(s), NEW kind, NEW of, NEW for, kind = "all" => for = s.collected
    PROVE  WCDid(s, WC!ShowOverlay(s, kind, of, for), ~s.shown, FALSE, {}, {})
<1>. DEFINE o == WC!Overlaid(s)
            dialog == [kind |-> kind, of |-> of, for |-> for, again |-> FALSE]
            t == [o EXCEPT !.dialog = dialog]
<1>1. WC!ShowOverlay(s, kind, of, for) = t /\ o.collected = s.collected
  BY Zenon, WCOverlaidKeeps DEF WC!ShowOverlay
<1>2. WCDid(s, o, ~s.shown, FALSE, {}, {})
  BY Zenon, WCOverlaid
<1>4. WCHeld(dialog, o.collected)
  <2>. HIDE DEF o
  <2> QED
    BY <1>1 DEF WCHeld
<1>. HIDE DEF dialog
<1>. HIDE DEF o
<1>3. WCShape(o)
  BY <1>2 DEF WCDid
<1>5. WCSame(o, t) /\ t.told = o.told
  BY <1>3, <1>4 DEF WCSame, WCShape, WCFields
<1>. HIDE DEF t
<1>6. WCDid(s, t, ~s.shown, FALSE, {}, {})
  BY <1>2, <1>5 DEF WCDid, WCSame, WCChanged
<1> QED
  BY Zenon, <1>1, <1>6

LEMMA WCActivates ==
    ASSUME NEW s, WCShape(s), NEW w
    PROVE  WCDid(s, WC!Activated(s, w), FALSE, FALSE, {}, {WC!Activated(s, w).active})
<1>. DEFINE h == s.hidden \ {w}  u == [s EXCEPT !.active = w, !.hidden = h]
<1>1. WC!Activated(s, w) = s \/ WC!Activated(s, w) = u
  BY Zenon DEF WC!Activated
<1>2. h \subseteq s.hidden
  OBVIOUS
<1>. HIDE DEF h
<1>3. /\ WCShape(u) /\ u.told = s.told
      /\ u.desk = s.desk /\ u.screen = s.screen /\ u.tiled = s.tiled /\ u.sticky = s.sticky
      /\ u.hidden = h /\ u.gone = s.gone /\ u.clients = s.clients
      /\ u.rows = s.rows /\ u.shown = s.shown /\ u.list = s.list
  BY DEF WCShape, WCFields
<1>. HIDE DEF u
<1>4. WCDid(s, u, FALSE, FALSE, {}, {u.active})
  BY <1>2, <1>3 DEF WCDid, WCChanged
<1>5. WCDid(s, s, FALSE, FALSE, {}, {s.active})
  BY WCRests DEF WCDid
<1> QED
  BY Zenon, <1>1, <1>4, <1>5

LEMMA WCMovesTo ==
    ASSUME NEW s, WCShape(s), NEW ws, NEW d
    PROVE  WCDid(s, WC!MoveTo(s, ws, d), FALSE, FALSE, ws, {})
<1>. DEFINE f == [w \in Win |-> IF w \in ws \cap WC!Live(s) THEN d ELSE s.desk[w]]
            t == [s EXCEPT !.desk = f]
<1>1. WC!MoveTo(s, ws, d) = t
  BY Zenon DEF WC!MoveTo
<1>2. DOMAIN f = Win /\ \A v \in Win : f[v] # s.desk[v] => v \in ws
  OBVIOUS
<1>. HIDE DEF f
<1>3. /\ WCShape(t) /\ t.told = s.told
      /\ t.desk = f /\ t.screen = s.screen /\ t.tiled = s.tiled /\ t.sticky = s.sticky
      /\ t.hidden = s.hidden /\ t.gone = s.gone /\ t.clients = s.clients /\ t.active = s.active
      /\ t.rows = s.rows /\ t.shown = s.shown /\ t.list = s.list
  BY <1>2 DEF WCShape, WCFields
<1>. HIDE DEF t
<1> QED
  BY <1>1, <1>2, <1>3 DEF WCDid, WCChanged

(* The handlers. *)
LEMMA WCMarks ==
    ASSUME NEW s, WCShape(s), NEW w, NEW arg
    PROVE  WCDid(s, WC!StateCommand(s, w, arg).s, FALSE, FALSE, {w}, {})
<1>1. \/ WC!StateCommand(s, w, arg).s = s
      \/ WC!StateCommand(s, w, arg).s = [s EXCEPT !.sticky = s.sticky \cup {w}]
      \/ WC!StateCommand(s, w, arg).s = [s EXCEPT !.sticky = s.sticky \ {w}]
  BY DEF WC!StateCommand, WC!Done, WC!Failed
<1>2. ASSUME NEW m, \A v \in Win : (v \in s.sticky) # (v \in m) => v = w
      PROVE  WCDid(s, [s EXCEPT !.sticky = m], FALSE, FALSE, {w}, {})
  <2>. DEFINE t == [s EXCEPT !.sticky = m]
  <2>1. /\ WCShape(t) /\ t.told = s.told
        /\ t.desk = s.desk /\ t.screen = s.screen /\ t.tiled = s.tiled /\ t.sticky = m
        /\ t.hidden = s.hidden /\ t.gone = s.gone /\ t.clients = s.clients /\ t.active = s.active
        /\ t.rows = s.rows /\ t.shown = s.shown /\ t.list = s.list
    BY DEF WCShape, WCFields
  <2>. HIDE DEF t
  <2>2. WCDid(s, t, FALSE, FALSE, {w}, {})
    BY <1>2, <2>1 DEF WCDid, WCChanged
  <2> QED
    BY <2>2 DEF t
<1>3. /\ \A v \in Win : (v \in s.sticky) # (v \in s.sticky \cup {w}) => v = w
      /\ \A v \in Win : (v \in s.sticky) # (v \in s.sticky \ {w}) => v = w
  OBVIOUS
<1>4. WCDid(s, [s EXCEPT !.sticky = s.sticky \cup {w}], FALSE, FALSE, {w}, {})
      /\ WCDid(s, [s EXCEPT !.sticky = s.sticky \ {w}], FALSE, FALSE, {w}, {})
  BY Zenon, <1>2, <1>3
<1>5. WCDid(s, s, FALSE, FALSE, {w}, {})
  BY WCRests DEF WCDid
<1> QED
  BY Zenon, <1>1, <1>4, <1>5

LEMMA WCAsks ==
    ASSUME NEW s, WCShape(s), NEW kind, NEW for, kind = "all" => for = s.collected
    PROVE  WCDid(s, WC!Ask(s, kind, for).s, ~s.shown, FALSE, {}, {}) /\ ~WC!Ask(s, kind, for).ok
<1>. DEFINE o == WC!ShowOverlay(s, kind, -1, for)
<1>1. WCDid(s, o, ~s.shown, FALSE, {}, {})
  BY Zenon, WCShows
<1>2. WC!Ask(s, kind, for).s = o /\ WC!Ask(s, kind, for).ok = FALSE
  BY Zenon, WCDone DEF WC!Ask
<1> QED
  BY Zenon, <1>1, <1>2

LEMMA WCSends ==
    ASSUME NEW s, WCShape(s), NEW w, NEW arg
    PROVE  LET h == WC!ChangeWorkspace(s, w, arg) IN
           WCDid(s, h.s, ~h.ok /\ ~s.shown, FALSE, {w}, {})
<1>. DEFINE h == WC!ChangeWorkspace(s, w, arg)
<1>1. \/ h = WC!Ask(s, "jump", {})
      \/ h.s = s
      \/ h.s = WC!MoveTo(s, {w}, WC!Workspace(s, arg))
  BY Zenon, WCDone DEF WC!ChangeWorkspace
<1>. HIDE DEF h
<1>2. CASE h = WC!Ask(s, "jump", {})
  <2>. DEFINE a == WC!Ask(s, "jump", {})
  <2>1. WCDid(s, a.s, ~s.shown, FALSE, {}, {}) /\ ~a.ok
    <3>1. "jump" # "all"
      OBVIOUS
    <3> QED
      BY Zenon, <3>1, WCAsks
  <2>. HIDE DEF a
  <2>2. h = a
    BY Zenon, <1>2 DEF a
  <2>3. WCDid(s, h.s, ~h.ok /\ ~s.shown, FALSE, {w}, {})
    BY <2>1, <2>2 DEF WCDid
  <2> QED
    BY Zenon, <2>3 DEF h
<1>3. CASE h.s = s
  <2>1. WCDid(s, h.s, ~h.ok /\ ~s.shown, FALSE, {w}, {})
    BY <1>3, WCRests DEF WCDid
  <2> QED
    BY Zenon, <2>1 DEF h
<1>4. CASE h.s = WC!MoveTo(s, {w}, WC!Workspace(s, arg))
  <2>1. WCDid(s, h.s, FALSE, FALSE, {w}, {})
    BY Zenon, <1>4, WCMovesTo
  <2>2. WCDid(s, h.s, ~h.ok /\ ~s.shown, FALSE, {w}, {})
    BY <2>1 DEF WCDid
  <2> QED
    BY Zenon, <2>2 DEF h
<1> QED
  BY Zenon, <1>1, <1>2, <1>3, <1>4

LEMMA WCGoes ==
    ASSUME NEW s, WCShape(s), NEW d
    PROVE  WCDid(s, [s EXCEPT !.current = d], FALSE, FALSE, {}, {})
<1>. DEFINE t == [s EXCEPT !.current = d]
<1>1. WCSame(s, t) /\ t.told = s.told
  BY DEF WCSame, WCShape, WCFields
<1>. HIDE DEF t
<1>2. WCDid(s, t, FALSE, FALSE, {}, {})
  BY Zenon, <1>1, WCSameDid
<1> QED
  BY Zenon, <1>2 DEF t

LEMMA WCJumps ==
    ASSUME NEW s, WCShape(s), NEW arg
    PROVE  LET h == WC!JumpWorkspace(s, arg) IN
           WCDid(s, h.s, ~h.ok /\ ~s.shown, FALSE, {}, {})
<1>. DEFINE h == WC!JumpWorkspace(s, arg)
<1>1. \/ h = WC!Ask(s, "jump", {})
      \/ h.s = s
      \/ h.s = [s EXCEPT !.current = WC!Workspace(s, arg)]
  BY Zenon, WCDone DEF WC!JumpWorkspace
<1>. HIDE DEF h
<1>2. CASE h = WC!Ask(s, "jump", {})
  <2>1. WCDid(s, h.s, ~s.shown, FALSE, {}, {}) /\ ~h.ok
    <3>1. ("jump" = "all" => {} = s.collected) /\ ("tile" = "all" => {} = s.collected)
      OBVIOUS
    <3> QED
      BY Zenon, <1>2, <3>1, WCAsks
  <2>2. WCDid(s, h.s, ~h.ok /\ ~s.shown, FALSE, {}, {})
    BY <2>1 DEF WCDid
  <2> QED
    BY Zenon, <2>2 DEF h
<1>3. CASE h.s = s \/ h.s = [s EXCEPT !.current = WC!Workspace(s, arg)]
  <2>. DEFINE c == [s EXCEPT !.current = WC!Workspace(s, arg)]  g == h.s
  <2>1. WCDid(s, s, FALSE, FALSE, {}, {}) /\ WCDid(s, c, FALSE, FALSE, {}, {}) /\ (g = s \/ g = c)
    BY Zenon, <1>3, WCRests, WCGoes
  <2>. HIDE DEF c, g
  <2>3. WCDid(s, g, FALSE, FALSE, {}, {})
    BY Zenon, <2>1
  <2>2. WCDid(s, h.s, ~h.ok /\ ~s.shown, FALSE, {}, {})
    BY <2>3 DEF WCDid, g
  <2> QED
    BY Zenon, <2>2 DEF h
<1> QED
  BY Zenon, <1>1, <1>2, <1>3

LEMMA WCJumpsSlot ==
    ASSUME NEW s, WCShape(s), NEW arg
    PROVE  LET h == WC!JumpSlot(s, arg) IN WCDid(s, h.s, TRUE, FALSE, {}, {h.s.active})
<1>. DEFINE h == WC!JumpSlot(s, arg)  r == WC!Relisted(s)
<1>1. \/ h.s = s \/ h.s = r
      \/ \E v : h.s = WC!Activated(r, v)
  BY Zenon, WCDone DEF WC!JumpSlot
<1>2. /\ WCShape(r) /\ r.told = s.told
      /\ r.desk = s.desk /\ r.screen = s.screen /\ r.tiled = s.tiled /\ r.sticky = s.sticky
      /\ r.hidden = s.hidden /\ r.gone = s.gone /\ r.clients = s.clients /\ r.active = s.active
      /\ r.rows = s.rows /\ r.shown = s.shown
  BY Zenon, WCRelists
<1>. DEFINE g == h.s
<1>. HIDE DEF h
<1>3. CASE g = s
  <2>1. WCDid(s, s, TRUE, FALSE, {}, {s.active})
    BY WCRests DEF WCDid
  <2> QED
    BY Zenon, <1>3, <2>1 DEF h
<1>4. CASE g = r
  <2>1. WCDid(s, g, TRUE, FALSE, {}, {g.active})
    BY <1>2, <1>4 DEF WCDid, WCChanged
  <2> QED
    BY Zenon, <2>1 DEF h
<1>5. CASE \E v : g = WC!Activated(r, v)
  <2>1. WCDid(r, g, FALSE, FALSE, {}, {g.active})
    BY Zenon, <1>2, <1>5, WCActivates
  <2>2. g.list = WC!Relisted(s).list
    BY Zenon, <2>1 DEF WCDid
  <2>. HIDE DEF g, r
  <2>3. WCDid(s, g, TRUE, FALSE, {}, {g.active})
    BY <1>2, <2>1, <2>2 DEF WCDid, WCChanged
  <2> QED
    BY Zenon, <2>3 DEF h, g
<1> QED
  BY Zenon, <1>1, <1>3, <1>4, <1>5

LEMMA WCPulls ==
    ASSUME NEW s, WCShape(s), NEW w
    PROVE  WCDid(s, WC!PullWindow(s, w).s, FALSE, FALSE, {w}, {})
<1>. DEFINE t == WC!MoveTo(s, {w}, s.current)
<1>1. WCDid(s, t, FALSE, FALSE, {w}, {})
  BY Zenon, WCMovesTo
<1>2. WC!PullWindow(s, w).s = t
  BY Zenon, WCDone DEF WC!PullWindow
<1> QED
  BY Zenon, <1>1, <1>2

LEMMA WCToMonitor ==
    ASSUME NEW s, WCShape(s), NEW v, NEW m
    PROVE  WCDid(s, WC!ToMonitor(s, v, m), FALSE, FALSE, {v}, {})
<1>. DEFINE f == [s.screen EXCEPT ![v] = m]  t == [s EXCEPT !.screen = f]
<1>1. WC!ToMonitor(s, v, m) = s \/ WC!ToMonitor(s, v, m) = t
  BY DEF WC!ToMonitor, WCShape, WCFields
<1>2. DOMAIN f = Win /\ \A x \in Win : f[x] # s.screen[x] => x = v
  BY DEF WCShape
<1>. HIDE DEF f
<1>3. /\ WCShape(t) /\ t.told = s.told
      /\ t.desk = s.desk /\ t.screen = f /\ t.tiled = s.tiled /\ t.sticky = s.sticky
      /\ t.hidden = s.hidden /\ t.gone = s.gone /\ t.clients = s.clients /\ t.active = s.active
      /\ t.rows = s.rows /\ t.shown = s.shown /\ t.list = s.list
  BY <1>2 DEF WCShape, WCFields
<1>. HIDE DEF t
<1>4. WCDid(s, t, FALSE, FALSE, {v}, {})
  BY <1>2, <1>3 DEF WCDid, WCChanged
<1>5. WCDid(s, s, FALSE, FALSE, {v}, {})
  BY WCRests DEF WCDid
<1> QED
  BY Zenon, <1>1, <1>4, <1>5

LEMMA WCToggles ==
    ASSUME NEW s, WCShape(s), NEW w, NEW arg
    PROVE  WCDid(s, WC!ToggleMonitor(s, w, arg).s, FALSE, FALSE,
                 IF arg = WC!NoArg THEN {WC!Selected(s)} ELSE {w}, {})
<1>. DEFINE v == IF arg = WC!NoArg THEN WC!Selected(s) ELSE w  g == WC!ToggleMonitor(s, w, arg).s
<1>1. g = s \/ \E m : g = WC!ToMonitor(s, v, m)
  BY Zenon, WCDone DEF WC!ToggleMonitor
<1>2. (IF arg = WC!NoArg THEN {WC!Selected(s)} ELSE {w}) = {v}
  BY Zenon
<1>. HIDE DEF v, g
<1>3. WCDid(s, s, FALSE, FALSE, {v}, {})
  BY WCRests DEF WCDid
<1>4. WCDid(s, g, FALSE, FALSE, {v}, {})
  BY Zenon, <1>1, <1>3, WCToMonitor
<1> QED
  BY Zenon, <1>2, <1>4 DEF g

LEMMA WCTiles ==
    ASSUME NEW s, WCShape(s), NEW w
    PROVE  WCDid(s, WC!ApplyTiling(s, w), FALSE, FALSE, {w}, {})
<1>. DEFINE m == s.tiled \cup {w}  t == [s EXCEPT !.tiled = m]
<1>1. WC!ApplyTiling(s, w) = s \/ WC!ApplyTiling(s, w) = t
  BY DEF WC!ApplyTiling
<1>2. \A v : (v \in s.tiled) # (v \in m) => v = w
  OBVIOUS
<1>. HIDE DEF m
<1>3. /\ WCShape(t) /\ t.told = s.told
      /\ t.desk = s.desk /\ t.screen = s.screen /\ t.tiled = m /\ t.sticky = s.sticky
      /\ t.hidden = s.hidden /\ t.gone = s.gone /\ t.clients = s.clients /\ t.active = s.active
      /\ t.rows = s.rows /\ t.shown = s.shown /\ t.list = s.list
  BY DEF WCShape, WCFields
<1>. HIDE DEF t
<1>4. WCDid(s, t, FALSE, FALSE, {w}, {})
  BY <1>2, <1>3 DEF WCDid, WCChanged
<1>5. WCDid(s, s, FALSE, FALSE, {w}, {})
  BY WCRests DEF WCDid
<1> QED
  BY Zenon, <1>1, <1>4, <1>5

LEMMA WCTilesOrAsks ==
    ASSUME NEW s, WCShape(s), NEW w, NEW arg
    PROVE  LET h == WC!TileWindow(s, w, arg) IN
           WCDid(s, h.s, ~h.ok /\ ~s.shown, FALSE, {w}, {})
<1>. DEFINE h == WC!TileWindow(s, w, arg)
<1>1. h = WC!Ask(s, "tile", {}) \/ h = WC!Done(WC!ApplyTiling(s, w)) \/ h = WC!Failed(s)
  BY DEF WC!TileWindow
<1>. HIDE DEF h
<1>2. CASE h = WC!Ask(s, "tile", {})
  <2>1. WCDid(s, h.s, ~s.shown, FALSE, {}, {}) /\ ~h.ok
    <3>1. ("jump" = "all" => {} = s.collected) /\ ("tile" = "all" => {} = s.collected)
      OBVIOUS
    <3> QED
      BY Zenon, <1>2, <3>1, WCAsks
  <2>2. WCDid(s, h.s, ~h.ok /\ ~s.shown, FALSE, {w}, {})
    BY <2>1 DEF WCDid
  <2> QED
    BY Zenon, <2>2 DEF h
<1>3. CASE h = WC!Done(WC!ApplyTiling(s, w))
  <2>. DEFINE t == WC!ApplyTiling(s, w)
  <2>1. WCDid(s, t, FALSE, FALSE, {w}, {}) /\ h.s = t
    BY Zenon, <1>3, WCDone, WCTiles
  <2>. HIDE DEF t
  <2>2. WCDid(s, h.s, ~h.ok /\ ~s.shown, FALSE, {w}, {})
    BY <2>1 DEF WCDid
  <2> QED
    BY Zenon, <2>2 DEF h
<1>4. CASE h = WC!Failed(s)
  <2>1. WCDid(s, h.s, FALSE, FALSE, {}, {})
    BY Zenon, <1>4, WCDone, WCRests
  <2>2. WCDid(s, h.s, ~h.ok /\ ~s.shown, FALSE, {w}, {})
    BY <2>1 DEF WCDid
  <2> QED
    BY Zenon, <2>2 DEF h
<1> QED
  BY Zenon, <1>1, <1>2, <1>3, <1>4

LEMMA WCCloses ==
    ASSUME NEW s, WCShape(s), NEW w
    PROVE  WCDid(s, WC!CloseWindow(s, w).s, FALSE, TRUE, {w}, {})
<1>1. PICK c, a : /\ WC!CloseWindow(s, w).s = [s EXCEPT !.clients = c, !.gone = s.gone \cup {w}, !.active = a]
                  /\ a \in {s.active, 0}
  <2>. DEFINE c == WC!SelectSeq(s.clients, LAMBDA v : v # w)
              a == IF s.active = w THEN 0 ELSE s.active
  <2>1. WC!CloseWindow(s, w).s = WC!Without(s, w)
    BY Zenon, WCDone DEF WC!CloseWindow
  <2>2. \E c2 : WC!Without(s, w) = [s EXCEPT !.clients = c2, !.gone = s.gone \cup {w}, !.active = a]
    BY Zenon DEF WC!Without, WC!None
  <2> QED
    BY Zenon, <2>1, <2>2
<1>. DEFINE g == s.gone \cup {w}  t == [s EXCEPT !.clients = c, !.gone = g, !.active = a]
<1>2. \A v : v \in g \ s.gone => v = w
  OBVIOUS
<1>. HIDE DEF g
<1>3. /\ WCShape(t) /\ t.told = s.told
      /\ t.desk = s.desk /\ t.screen = s.screen /\ t.tiled = s.tiled /\ t.sticky = s.sticky
      /\ t.hidden = s.hidden /\ t.gone = g /\ t.active = a
      /\ t.rows = s.rows /\ t.shown = s.shown /\ t.list = s.list
  BY DEF WCShape, WCFields
<1>. HIDE DEF t
<1>4. WCDid(s, t, FALSE, TRUE, {w}, {})
  BY <1>1, <1>2, <1>3 DEF WCDid, WCChanged
<1> QED
  BY Zenon, <1>1, <1>4 DEF t, g

LEMMA WCMinimizes ==
    ASSUME NEW s, WCShape(s), NEW w
    PROVE  WCDid(s, WC!MinimizeWindow(s, w).s, FALSE, FALSE, {w}, {w} \cap s.hidden)
<1>. DEFINE g == WC!MinimizeWindow(s, w).s
            a == IF s.active = w THEN 0 ELSE s.active
            h == s.hidden \cup {w}
            d == [s EXCEPT !.hidden = h, !.active = a]
            k == s.hidden \ {w}
            u == [s EXCEPT !.active = w, !.hidden = k]
<1>1. g = s \/ (w \in s.hidden /\ g = u) \/ g = d
  BY Zenon, WCDone DEF WC!MinimizeWindow, WC!Activated, WC!None
<1>2. a \in {s.active, 0} /\ k \subseteq s.hidden /\ \A v : v \in h \ s.hidden => v = w
  OBVIOUS
<1>. HIDE DEF a, h, k, g
<1>3. /\ WCShape(d) /\ d.told = s.told
      /\ d.desk = s.desk /\ d.screen = s.screen /\ d.tiled = s.tiled /\ d.sticky = s.sticky
      /\ d.hidden = h /\ d.gone = s.gone /\ d.clients = s.clients /\ d.active = a
      /\ d.rows = s.rows /\ d.shown = s.shown /\ d.list = s.list
  BY DEF WCShape, WCFields
<1>4. /\ WCShape(u) /\ u.told = s.told
      /\ u.desk = s.desk /\ u.screen = s.screen /\ u.tiled = s.tiled /\ u.sticky = s.sticky
      /\ u.hidden = k /\ u.gone = s.gone /\ u.clients = s.clients /\ u.active = w
      /\ u.rows = s.rows /\ u.shown = s.shown /\ u.list = s.list
  BY DEF WCShape, WCFields
<1>. HIDE DEF d, u
<1>5. WCDid(s, d, FALSE, FALSE, {w}, {w} \cap s.hidden)
  BY <1>2, <1>3 DEF WCDid, WCChanged
<1>6. w \in s.hidden => WCDid(s, u, FALSE, FALSE, {w}, {w} \cap s.hidden)
  BY <1>2, <1>4 DEF WCDid, WCChanged
<1>7. WCDid(s, s, FALSE, FALSE, {w}, {w} \cap s.hidden)
  BY WCRests DEF WCDid
<1>8. WCDid(s, g, FALSE, FALSE, {w}, {w} \cap s.hidden)
  BY Zenon, <1>1, <1>5, <1>6, <1>7
<1> QED
  BY Zenon, <1>8 DEF g

LEMMA WCSwaps ==
    ASSUME NEW s, WCShape(s), NEW w
    PROVE  WCDid(s, WC!SwapWindows(s, w).s, FALSE, FALSE, {w, WC!Partner(s, w)}, {})
<1>. DEFINE v == WC!Partner(s, w)  g == WC!SwapWindows(s, w).s
            f == [s.screen EXCEPT ![w] = s.screen[v], ![v] = s.screen[w]]
            t == [s EXCEPT !.screen = f]
<1>1. g = s \/ g = t
  <2>1. [s EXCEPT !.screen = [@ EXCEPT ![w] = s.screen[v], ![v] = s.screen[w]]] = t
    BY DEF WCShape, WCFields
  <2>. HIDE DEF t
  <2> QED
    BY Zenon, <2>1, WCDone DEF WC!SwapWindows
<1>. HIDE DEF v, g
<1>2. DOMAIN f = Win /\ \A x \in Win : f[x] # s.screen[x] => x \in {w, v}
  BY DEF WCShape
<1>. HIDE DEF f
<1>3. /\ WCShape(t) /\ t.told = s.told
      /\ t.desk = s.desk /\ t.screen = f /\ t.tiled = s.tiled /\ t.sticky = s.sticky
      /\ t.hidden = s.hidden /\ t.gone = s.gone /\ t.clients = s.clients /\ t.active = s.active
      /\ t.rows = s.rows /\ t.shown = s.shown /\ t.list = s.list
  BY <1>2 DEF WCShape, WCFields
<1>. HIDE DEF t
<1>4. WCDid(s, t, FALSE, FALSE, {w, v}, {})
  BY <1>2, <1>3 DEF WCDid, WCChanged
<1>5. WCDid(s, s, FALSE, FALSE, {w, v}, {})
  BY WCRests DEF WCDid
<1>6. WCDid(s, g, FALSE, FALSE, {w, v}, {})
  BY Zenon, <1>1, <1>4, <1>5
<1> QED
  BY Zenon, <1>6 DEF v, g

LEMMA WCMovesAll ==
    ASSUME NEW s, WCShape(s), NEW arg
    PROVE  LET h == WC!MoveAll(s, arg) IN
           WCDid(s, h.s, ~h.ok /\ ~s.shown, FALSE, WC!Movable(s), {})
<1>. DEFINE h == WC!MoveAll(s, arg)  which == WC!Movable(s)  d == WC!Workspace(s, arg)
<1>1. PICK dialog :
          LET t == [s EXCEPT !.collected = which, !.dialog = dialog] IN
          /\ WCHeld(dialog, which)
          /\ \/ h = WC!Failed(t) \/ h = WC!Ask(t, "all", which)
             \/ h = WC!Done([WC!MoveTo(t, which, d) EXCEPT !.current = d])
  <2>. DEFINE o == [s.dialog EXCEPT !.again = s.dialog.kind = "all"]
              t == [s EXCEPT !.collected = which, !.dialog = o]
  <2>1. [s EXCEPT !.collected = which, !.dialog.again = s.dialog.kind = "all"] = t
    BY DEF WCShape, WCFields
  <2>. HIDE DEF t
  <2>2. \/ h = WC!Failed(t) \/ h = WC!Ask(t, "all", which)
        \/ h = WC!Done([WC!MoveTo(t, which, d) EXCEPT !.current = d])
    BY <2>1 DEF WC!MoveAll
  <2>3. WCHeld(o, which)
    BY DEF WCShape, WCHeld
  <2> QED
    BY Zenon, <2>2, <2>3 DEF t
<1>. DEFINE t == [s EXCEPT !.collected = which, !.dialog = dialog]
            u == WC!MoveTo(t, which, d)
            x == [u EXCEPT !.current = d]
<1>2. WCHeld(dialog, which) /\ (h = WC!Failed(t) \/ h = WC!Ask(t, "all", which) \/ h = WC!Done(x))
  BY Zenon, <1>1
<1>. HIDE DEF h, which, d
<1>3. WCSame(s, t) /\ t.told = s.told /\ t.collected = which
  BY <1>2 DEF WCSame, WCShape, WCFields
<1>. HIDE DEF t
<1>4. WCShape(t)
  BY <1>3 DEF WCSame
<1>5. CASE h = WC!Failed(t)
  <2>1. h.s = t
    BY Zenon, <1>5, WCDone
  <2>2. WCDid(s, h.s, FALSE, FALSE, {}, {})
    BY Zenon, <1>3, <2>1, WCSameDid
  <2>3. WCDid(s, h.s, ~h.ok /\ ~s.shown, FALSE, which, {})
    BY <2>2 DEF WCDid
  <2> QED
    BY Zenon, <2>3 DEF h, which
<1>6. CASE h = WC!Ask(t, "all", which)
  <2>1. WCDid(t, h.s, ~t.shown, FALSE, {}, {}) /\ ~h.ok
    BY Zenon, <1>3, <1>4, <1>6, WCAsks
  <2>2. WC!Relisted(t).list = WC!Relisted(s).list
    <3>1. s.list = t.list /\ s.clients = t.clients
      BY Zenon, <1>3 DEF WCSame
    <3>2. /\ WC!Relisted(s).list
                = [n \in WC!Place |-> IF n <= Len(s.clients) THEN s.clients[n] ELSE s.list[n]]
          /\ WC!Relisted(t).list
                = [n \in WC!Place |-> IF n <= Len(t.clients) THEN t.clients[n] ELSE t.list[n]]
      BY Zenon, <1>4, WCRelists
    <3> QED
      BY Zenon, <3>1, <3>2
  <2>3. WCDid(s, h.s, ~h.ok /\ ~s.shown, FALSE, which, {})
    BY <1>3, <2>1, <2>2 DEF WCDid, WCSame, WCChanged
  <2> QED
    BY Zenon, <2>3 DEF h, which
<1>7. CASE h = WC!Done(x)
  <2>1. WCDid(t, u, FALSE, FALSE, which, {})
    BY Zenon, <1>4, WCMovesTo
  <2>. HIDE DEF u
  <2>2. WCShape(u)
    BY <2>1 DEF WCDid
  <2>3. WCSame(u, x) /\ x.told = u.told
    BY <2>2 DEF WCSame, WCShape, WCFields
  <2>. HIDE DEF x
  <2>4. h.s = x
    BY Zenon, <1>7, WCDone
  <2>5. WCDid(s, x, FALSE, FALSE, which, {})
    BY <1>3, <2>1, <2>3 DEF WCDid, WCSame, WCChanged
  <2>6. WCDid(s, h.s, ~h.ok /\ ~s.shown, FALSE, which, {})
    BY <2>4, <2>5 DEF WCDid
  <2> QED
    BY Zenon, <2>6 DEF h, which
<1> QED
  BY Zenon, <1>2, <1>5, <1>6, <1>7

LEMMA WCRenames ==
    ASSUME NEW s, WCShape(s), NEW arg
    PROVE  WCDid(s, WC!RenameWorkspace(s, arg).s, ~s.shown, FALSE, {}, {})
<1>. DEFINE g == WC!RenameWorkspace(s, arg).s
<1>1. g = s \/ \E of : g = WC!ShowOverlay(s, "rename", of, {})
  BY Zenon, WCDone DEF WC!RenameWorkspace
<1>. HIDE DEF g
<1>2. WCDid(s, s, ~s.shown, FALSE, {}, {})
  BY WCRests DEF WCDid
<1>3. WCDid(s, g, ~s.shown, FALSE, {}, {})
  <2>1. "rename" = "all" => {} = s.collected
    OBVIOUS
  <2> QED
    BY Zenon, <1>1, <1>2, <2>1, WCShows
<1> QED
  BY Zenon, <1>3 DEF g

(* Only a command that goes through with the list open again rewrites it.   *)
WCReads(s, h, seg) == seg.cmd = "js" \/ (~s.shown /\ (seg.cmd = "rw" \/ ~h.ok))
WCFront(s, h, w, seg) ==
    IF seg.cmd = "js" THEN {h.s.active} ELSE IF seg.cmd = "miw" THEN {w} \cap s.hidden ELSE {}

LEMMA WCHandles ==
    ASSUME NEW s, WCShape(s), NEW w, NEW seg
    PROVE  LET h == WC!Handler(s, w, seg) IN
           WCDid(s, h.s, WCReads(s, h, seg), seg.cmd = "cl", WC!Meant(s, w, seg), WCFront(s, h, w, seg))
<1>. DEFINE h == WC!Handler(s, w, seg)
            Fits == WCDid(s, h.s, WCReads(s, h, seg), seg.cmd = "cl", WC!Meant(s, w, seg),
                          WCFront(s, h, w, seg))
<1>1. \/ h = WC!Failed(s)
      \/ seg.cmd = "ew" /\ h = WC!StateCommand(s, w, seg.arg)
      \/ seg.cmd = "cw" /\ h = WC!ChangeWorkspace(s, w, seg.arg)
      \/ seg.cmd = "jw" /\ h = WC!JumpWorkspace(s, seg.arg)
      \/ seg.cmd = "js" /\ h = WC!JumpSlot(s, seg.arg)
      \/ seg.cmd = "pw" /\ h = WC!PullWindow(s, w)
      \/ seg.cmd = "tm" /\ h = WC!ToggleMonitor(s, w, seg.arg)
      \/ seg.cmd = "tw" /\ h = WC!TileWindow(s, w, seg.arg)
      \/ seg.cmd = "cl" /\ h = WC!CloseWindow(s, w)
      \/ seg.cmd = "miw" /\ h = WC!MinimizeWindow(s, w)
      \/ seg.cmd = "sw" /\ h = WC!SwapWindows(s, w)
      \/ seg.cmd = "maw" /\ h = WC!MoveAll(s, seg.arg)
      \/ seg.cmd = "rw" /\ h = WC!RenameWorkspace(s, seg.arg)
  BY DEF WC!Handler
<1>. HIDE DEF h
<1>2. CASE h = WC!Failed(s)
  <2>1. WCDid(s, h.s, FALSE, FALSE, {}, {})
    <3>1. h.s = s
      BY Zenon, <1>2, WCDone
    <3> QED
      BY Zenon, <3>1, WCRests
  <2>2. Fits
    BY <2>1 DEF WCDid
  <2> QED
    BY Zenon, <2>2 DEF h
<1>3. CASE seg.cmd \in {"ew", "pw"} /\ h \in {WC!StateCommand(s, w, seg.arg), WC!PullWindow(s, w)}
  <2>1. WCDid(s, h.s, FALSE, FALSE, {w}, {})
    <3>1. /\ WCDid(s, WC!StateCommand(s, w, seg.arg).s, FALSE, FALSE, {w}, {})
          /\ WCDid(s, WC!PullWindow(s, w).s, FALSE, FALSE, {w}, {})
      BY Zenon, WCMarks, WCPulls
    <3> QED
      BY Zenon, <1>3, <3>1
  <2>2. Fits
    BY <1>3, <2>1 DEF WCDid, WC!Meant
  <2> QED
    BY Zenon, <2>2 DEF h
<1>4. CASE seg.cmd \in {"cw", "tw"} /\ h \in {WC!ChangeWorkspace(s, w, seg.arg), WC!TileWindow(s, w, seg.arg)}
  <2>1. WCDid(s, h.s, ~h.ok /\ ~s.shown, FALSE, {w}, {})
    <3>. DEFINE j == WC!ChangeWorkspace(s, w, seg.arg)  k == WC!TileWindow(s, w, seg.arg)
    <3>1. /\ WCDid(s, j.s, ~j.ok /\ ~s.shown, FALSE, {w}, {})
          /\ WCDid(s, k.s, ~k.ok /\ ~s.shown, FALSE, {w}, {})
      BY Zenon, WCSends, WCTilesOrAsks
    <3>2. h = j \/ h = k
      BY Zenon, <1>4
    <3>. HIDE DEF j, k
    <3> QED
      BY Zenon, <3>1, <3>2
  <2>2. Fits
    BY <1>4, <2>1 DEF WCDid, WC!Meant, WCReads
  <2> QED
    BY Zenon, <2>2 DEF h
<1>5. CASE seg.cmd = "jw" /\ h = WC!JumpWorkspace(s, seg.arg)
  <2>1. WCDid(s, h.s, ~h.ok /\ ~s.shown, FALSE, {}, {})
    BY Zenon, <1>5, WCJumps
  <2>2. Fits
    BY <1>5, <2>1 DEF WCDid, WCReads
  <2> QED
    BY Zenon, <2>2 DEF h
<1>6. CASE seg.cmd = "js" /\ h = WC!JumpSlot(s, seg.arg)
  <2>1. WCDid(s, h.s, TRUE, FALSE, {}, {h.s.active})
    BY Zenon, <1>6, WCJumpsSlot
  <2>2. Fits
    BY <1>6, <2>1 DEF WCDid, WCReads, WCFront
  <2> QED
    BY Zenon, <2>2 DEF h
<1>7. CASE seg.cmd = "tm" /\ h = WC!ToggleMonitor(s, w, seg.arg)
  <2>1. WCDid(s, h.s, FALSE, FALSE, IF seg.arg = WC!NoArg THEN {WC!Selected(s)} ELSE {w}, {})
    BY Zenon, <1>7, WCToggles
  <2>2. Fits
    BY <1>7, <2>1 DEF WCDid, WC!Meant
  <2> QED
    BY Zenon, <2>2 DEF h
<1>8. CASE seg.cmd = "cl" /\ h = WC!CloseWindow(s, w)
  <2>1. WCDid(s, h.s, FALSE, TRUE, {w}, {})
    BY Zenon, <1>8, WCCloses
  <2>2. Fits
    BY <1>8, <2>1 DEF WCDid, WC!Meant
  <2> QED
    BY Zenon, <2>2 DEF h
<1>9. CASE seg.cmd = "miw" /\ h = WC!MinimizeWindow(s, w)
  <2>1. WCDid(s, h.s, FALSE, FALSE, {w}, {w} \cap s.hidden)
    BY Zenon, <1>9, WCMinimizes
  <2>2. Fits
    BY <1>9, <2>1 DEF WCDid, WC!Meant, WCFront
  <2> QED
    BY Zenon, <2>2 DEF h
<1>10. CASE seg.cmd = "sw" /\ h = WC!SwapWindows(s, w)
  <2>1. WCDid(s, h.s, FALSE, FALSE, {w, WC!Partner(s, w)}, {})
    BY Zenon, <1>10, WCSwaps
  <2>2. Fits
    BY <1>10, <2>1 DEF WCDid, WC!Meant
  <2> QED
    BY Zenon, <2>2 DEF h
<1>11. CASE seg.cmd = "maw" /\ h = WC!MoveAll(s, seg.arg)
  <2>1. WCDid(s, h.s, ~h.ok /\ ~s.shown, FALSE, WC!Movable(s), {})
    BY Zenon, <1>11, WCMovesAll
  <2>2. Fits
    BY <1>11, <2>1 DEF WCDid, WC!Meant, WCReads
  <2> QED
    BY Zenon, <2>2 DEF h
<1>12. CASE seg.cmd = "rw" /\ h = WC!RenameWorkspace(s, seg.arg)
  <2>1. WCDid(s, h.s, ~s.shown, FALSE, {}, {})
    BY Zenon, <1>12, WCRenames
  <2>2. Fits
    BY <1>12, <2>1 DEF WCDid, WCReads
  <2> QED
    BY Zenon, <2>2 DEF h
<1> QED
  BY Zenon, <1>1, <1>2, <1>3, <1>4, <1>5, <1>6, <1>7, <1>8, <1>9, <1>10, <1>11, <1>12

(* What a line is told of a command, before the command is carried out.     *)
LEMMA WCTells ==
    ASSUME NEW s, WCShape(s), NEW seg
    PROVE  LET x == WC!Told(s, seg) IN
           /\ WCSame(s, x)
           /\ x.told.window = s.told.window /\ x.told.anyFront = s.told.anyFront
           /\ x.told.slips = s.told.slips
           /\ x.told.on = s.told.on \cup WC!Meant(s, s.told.window, seg)
           /\ s.told.front \subseteq x.told.front
           /\ seg.cmd = "miw" => {s.told.window} \cap s.hidden \subseteq x.told.front
           /\ \A w : WC!Meant(x, w, seg) = WC!Meant(s, w, seg)
<1>. DEFINE on == s.told.on \cup WC!Meant(s, s.told.window, seg)
            front == IF seg.cmd = "miw" THEN s.told.front \cup ({s.told.window} \cap s.hidden) ELSE s.told.front
            told == [s.told EXCEPT !.on = on, !.front = front]
            x == [s EXCEPT !.told = told]
<1>1. WC!Told(s, seg) = x
  BY DEF WC!Told, WCShape, WCFields, WCTold
<1>2. s.told.front \subseteq front /\ (seg.cmd = "miw" => {s.told.window} \cap s.hidden \subseteq front)
  OBVIOUS
<1>. HIDE DEF on, front
<1>3. /\ DOMAIN told = WCTold /\ told.window = s.told.window /\ told.anyFront = s.told.anyFront
      /\ told.slips = s.told.slips /\ told.on = on /\ told.front = front
  BY DEF WCShape, WCTold
<1>. HIDE DEF told
<1>4. /\ WCSame(s, x) /\ x.told = told
      /\ x.count = s.count /\ x.seen = s.seen /\ x.current = s.current /\ x.at = s.at
  BY <1>3 DEF WCSame, WCShape, WCFields
<1>. HIDE DEF x
<1>5. /\ WC!Movable(x) = WC!Movable(s) /\ WC!Selected(x) = WC!Selected(s)
      /\ \A w : WC!Partner(x, w) = WC!Partner(s, w)
  BY Zenon, <1>4 DEF WC!Movable, WC!Listed, WC!Entries, WC!Selected, WC!Partner, WCSame
<1>6. \A w : WC!Meant(x, w, seg) = WC!Meant(s, w, seg)
  BY Zenon, <1>5 DEF WC!Meant
<1> QED
  BY Zenon, <1>1, <1>2, <1>3, <1>4, <1>6 DEF on

(* One more command: it is handled for the window that the place holds now, *)
(* and that window may be activated.                                        *)
LEMMA WCOneMore ==
    ASSUME NEW r, WCShape(r.s), r.ok, NEW p, NEW seg, NEW background,
           NEW q, q = WC!Continue(r, p, seg, background),
           NEW x, x = WC!Told(r.s, seg)
    PROVE  \E h, front :
              /\ q.ok => h.ok
              /\ WCDid(x, q.s, WCReads(x, h, seg), seg.cmd = "cl",
                       WC!Meant(r.s, WC!At(r.s, p), seg), front)
              /\ \/ ~background
                 \/ seg.cmd = "js"
                 \/ seg.cmd = "miw" /\ front = {WC!At(r.s, p)} \cap r.s.hidden
                 \/ front = {}
<1>. DEFINE w == WC!At(r.s, p)  h == WC!Handler(x, w, seg)  u == h.s  on == WC!Meant(r.s, w, seg)
            v == WC!At(u, p)  g == WC!Activated(u, v)
<1>1. q = h \/ (h.ok /\ ~background /\ q = WC!Done(g))
  BY Zenon DEF WC!Continue
<1>2. WCSame(r.s, x) /\ WC!Meant(x, w, seg) = on
  BY Zenon, WCTells
<1>3. WCShape(x) /\ x.hidden = r.s.hidden
  BY Zenon, <1>2 DEF WCSame
<1>4. WCDid(x, u, WCReads(x, h, seg), seg.cmd = "cl", on, WCFront(x, h, w, seg))
  <2>1. WCDid(x, u, WCReads(x, h, seg), seg.cmd = "cl", WC!Meant(x, w, seg), WCFront(x, h, w, seg))
    BY Zenon, <1>3, WCHandles
  <2> QED
    BY Zenon, <1>2, <2>1
<1>5. CASE q = h
  <2>1. WCFront(x, h, w, seg)
           = IF seg.cmd = "js" THEN {h.s.active} ELSE IF seg.cmd = "miw" THEN {w} \cap r.s.hidden ELSE {}
    BY Zenon, <1>3 DEF WCFront
  <2>2. \/ seg.cmd = "js"
        \/ seg.cmd = "miw" /\ WCFront(x, h, w, seg) = {w} \cap r.s.hidden
        \/ WCFront(x, h, w, seg) = {}
    BY Zenon, <2>1
  <2>3. q.ok => h.ok
    BY Zenon, <1>5
  <2>4. q.s = u
    BY Zenon, <1>5
  <2>. HIDE DEF h, w, on, u
  <2> QED
    BY Zenon, <1>4, <2>2, <2>3, <2>4 DEF on, w
<1>6. CASE h.ok /\ ~background /\ q = WC!Done(g)
  <2>1. WCShape(u)
    BY Zenon, <1>4 DEF WCDid
  <2>2. WCDid(u, g, FALSE, FALSE, {}, {g.active})
    BY Zenon, <2>1, WCActivates
  <2>3. q.s = g
    BY Zenon, <1>6, WCDone
  <2>. HIDE DEF h, w, on, u, v, g
  <2>4. WCDid(x, g, WCReads(x, h, seg), seg.cmd = "cl", on, {g.active})
    BY <1>4, <2>2 DEF WCDid, WCChanged
  <2> QED
    BY Zenon, <1>6, <2>3, <2>4 DEF on, w
<1> QED
  BY Zenon, <1>1, <1>5, <1>6

(* What a line that starts from a, where its place is p, has done at r: the *)
(* place holds the window still, unless the line slips.                     *)
WCPlaced(s, p) ==
    /\ p.in \in {"rows", "list", "null"}
    /\ p.in = "rows" => s.shown
    /\ p.in = "list" => p.at \in WC!Place
WCAsked(a, p, line, background) ==
    /\ WCShape(a) /\ a.told.window = WC!At(a, p)
    /\ a.told.anyFront \/ (background /\ ~WC!Has(line, "js"))
    /\ a.told.slips \/ ~(p.in = "list" /\ WC!Relists(a, line) /\ WC!Moves(a, p, line))
    /\ WCPlaced(a, p)

WCLine(a, r, p, line) ==
    /\ WCShape(r.s)
    /\ r.s.told.window = a.told.window /\ r.s.told.anyFront = a.told.anyFront
    /\ r.s.told.slips = a.told.slips
    /\ a.shown => r.s.shown /\ r.s.rows = a.rows
    /\ WC!Has(line, "cl") \/ r.s.clients = a.clients
    /\ ~a.told.slips =>
          /\ r.ok => WC!At(r.s, p) = a.told.window
          /\ \A v \in Win : WCChanged(a, r.s, v) => v \in r.s.told.on
          /\ a.told.anyFront \/ r.s.active \in {a.active, 0} \cup r.s.told.front

LEMMA WCContinues ==
    ASSUME NEW a, NEW p, NEW line, NEW background, WCAsked(a, p, line, background),
           NEW r, WCLine(a, r, p, line), NEW n \in DOMAIN line
    PROVE  WCLine(a, WC!Continue(r, p, line[n], background), p, line)
<1>. DEFINE seg == line[n]  q == WC!Continue(r, p, seg, background)  s == r.s  x == WC!Told(s, seg)
            w == WC!At(s, p)
<1>1. CASE ~r.ok
  BY Zenon, <1>1 DEF WC!Continue
<1>2. CASE r.ok
  <2>1. WCShape(s)
    BY Zenon DEF WCLine
  <2>2. PICK h, front :
          /\ q.ok => h.ok
          /\ WCDid(x, q.s, WCReads(x, h, seg), seg.cmd = "cl", WC!Meant(s, w, seg), front)
          /\ \/ ~background \/ seg.cmd = "js"
             \/ seg.cmd = "miw" /\ front = {w} \cap s.hidden
             \/ front = {}
    BY Zenon, <1>2, <2>1, WCOneMore
  <2>3. /\ WCSame(s, x)
        /\ x.told.window = s.told.window /\ x.told.anyFront = s.told.anyFront
        /\ x.told.slips = s.told.slips
        /\ x.told.on = s.told.on \cup WC!Meant(s, s.told.window, seg)
        /\ s.told.front \subseteq x.told.front
        /\ seg.cmd = "miw" => {s.told.window} \cap s.hidden \subseteq x.told.front
    <3>. HIDE DEF q, s, seg, w
    <3> QED
      BY Zenon, <2>1, WCTells
  <2>4. /\ seg.cmd = "cl" => WC!Has(line, "cl")
        /\ seg.cmd = "js" => WC!Has(line, "js")
        /\ seg.cmd = "rw" => WC!Has(line, "rw")
    BY Zenon DEF WC!Has
  <2>. HIDE DEF q, s, x, seg
  <2>5. /\ WCShape(q.s) /\ q.s.told = x.told
        /\ a.shown => q.s.shown /\ q.s.rows = a.rows
        /\ WC!Has(line, "cl") \/ q.s.clients = a.clients
    BY <2>2, <2>3, <2>4 DEF WCDid, WCSame, WCLine, s
  <2>6. ASSUME ~a.told.slips, q.ok PROVE WC!At(q.s, p) = a.told.window
    <3>1. WC!At(s, p) = a.told.window
      BY Zenon, <1>2, <2>6 DEF WCLine, s
    <3>2. CASE p.in = "rows"
      <4>1. q.s.rows = a.rows /\ a.told.window = WC!At(a, p)
        BY <2>5, <3>2 DEF WCAsked, WCPlaced
      <4> QED
        BY <3>2, <4>1 DEF WC!At
    <3>3. CASE p.in = "null"
      BY <3>3 DEF WC!At, WCAsked, WCPlaced
    <3>4. CASE p.in = "list" /\ q.s.list = x.list
      <4>1. x.list = s.list
        BY Zenon, <2>3 DEF WCSame
      <4> QED
        BY <3>1, <3>4, <4>1 DEF WC!At
    <3>5. CASE p.in = "list" /\ q.s.list = WC!Relisted(x).list /\ WCReads(x, h, seg)
      <4>1. WC!Relists(a, line)
        BY <2>2, <2>3, <2>4, <2>6, <3>5 DEF WCReads, WC!Relists, WCSame, WCLine, s
      <4>2. ~WC!Moves(a, p, line)
        BY Zenon, <2>6, <3>5, <4>1 DEF WCAsked, WCPlaced
      <4>3. /\ x.clients = a.clients /\ x.list = s.list
            /\ ~(p.at <= Len(a.clients)) \/ a.clients[p.at] = a.list[p.at]
        BY <2>3, <4>2 DEF WC!Moves, WCSame, WCLine, s
      <4>4. q.s.list = [m \in WC!Place |-> IF m <= Len(x.clients) THEN x.clients[m] ELSE x.list[m]]
        <5>1. WCShape(x)
          BY Zenon, <2>3 DEF WCSame
        <5> QED
          BY Zenon, <3>5, <5>1, WCRelists
      <4>5. p.at \in WC!Place
        BY Zenon, <3>5 DEF WCAsked, WCPlaced
      <4>6. q.s.list[p.at] = IF p.at <= Len(a.clients) THEN a.clients[p.at] ELSE s.list[p.at]
        <5>. DEFINE c == x.clients  l == x.list  f == q.s.list  k == p.at
        <5>1. f = [m \in WC!Place |-> IF m <= Len(c) THEN c[m] ELSE l[m]] /\ k \in WC!Place
          BY Zenon, <4>4, <4>5
        <5>2. c = a.clients /\ l = s.list
          BY Zenon, <4>3
        <5>. HIDE DEF c, l, f, k
        <5>3. f[k] = IF k <= Len(c) THEN c[k] ELSE l[k]
          BY Zenon, <5>1
        <5> QED
          BY Zenon, <5>2, <5>3 DEF f, k
      <4>7. q.s.list[p.at] = a.list[p.at] \/ q.s.list[p.at] = s.list[p.at]
        BY Zenon, <4>3, <4>6
      <4>8. a.told.window = a.list[p.at] /\ a.told.window = s.list[p.at]
        BY <3>1, <3>5 DEF WC!At, WCAsked, WCPlaced
      <4> QED
        BY <3>5, <4>7, <4>8 DEF WC!At
    <3> QED
      BY <2>2, <3>2, <3>3, <3>4, <3>5 DEF WCAsked, WCPlaced, WCDid
  <2>7. ASSUME ~a.told.slips PROVE \A v \in Win : WCChanged(a, q.s, v) => v \in q.s.told.on
    <3>1. w = s.told.window
      BY Zenon, <1>2, <2>7 DEF WCLine, s
    <3>2. ASSUME NEW v \in Win, WCChanged(a, q.s, v) PROVE v \in q.s.told.on
      <4>1. WCChanged(a, s, v) \/ WCChanged(x, q.s, v)
        BY <2>3, <3>2 DEF WCChanged, WCSame
      <4>2. WCChanged(a, s, v) => v \in s.told.on
        BY Zenon, <2>7 DEF WCLine, s
      <4>3. WCChanged(x, q.s, v) => v \in WC!Meant(s, w, seg)
        BY Zenon, <2>2 DEF WCDid
      <4> QED
        BY Zenon, <2>3, <2>5, <3>1, <4>1, <4>2, <4>3
    <3> QED
      BY Zenon, <3>2
  <2>8. ASSUME ~a.told.slips, ~a.told.anyFront
        PROVE  q.s.active \in {a.active, 0} \cup q.s.told.front
    <3>1. w = s.told.window /\ background /\ seg.cmd # "js"
      BY <1>2, <2>4, <2>8 DEF WCLine, WCAsked, s
    <3>2. front \subseteq x.told.front
      BY Zenon, <2>2, <2>3, <3>1
    <3>3. s.active \in {a.active, 0} \cup s.told.front
      BY Zenon, <2>8 DEF WCLine, s
    <3>4. q.s.active \in {s.active, 0} \cup front
      BY Zenon, <2>2, <2>3 DEF WCDid, WCSame
    <3> QED
      BY <2>3, <2>5, <3>2, <3>3, <3>4
  <2>9. /\ q.s.told.window = a.told.window /\ q.s.told.anyFront = a.told.anyFront
        /\ q.s.told.slips = a.told.slips
    BY Zenon, <2>3, <2>5 DEF WCLine, s
  <2>10. WCLine(a, q, p, line)
    BY Zenon, <2>5, <2>6, <2>7, <2>8, <2>9 DEF WCLine
  <2> QED
    BY Zenon, <2>10 DEF q, seg
<1> QED
  BY Zenon, <1>1, <1>2

(* visit_command_segments: the results of the first segments exist. *)
WCResults(f, s, p, line, background, k) ==
    f = [n \in 0..k |-> IF n = 0 THEN WC!Done(s) ELSE WC!Continue(f[n - 1], p, line[n], background)]

LEMMA WCResultsExist ==
    ASSUME NEW s, NEW p, NEW line, NEW background, NEW k \in Nat
    PROVE  \E f : WCResults(f, s, p, line, background, k)
<1>. DEFINE Is(f, m) == WCResults(f, s, p, line, background, m)
            T == {m \in Nat : ~\E f : Is(f, m)}
<1>1. SUFFICES ASSUME T # {} PROVE FALSE
  BY Zenon DEF T
<1>2. PICK m \in T : \A y \in T : m <= y
  BY Zenon, <1>1, NatMin DEF T
<1>3. m \in Nat /\ ~\E f : Is(f, m)
  OBVIOUS
<1>4. CASE m = 0
  <2>. DEFINE f == [n \in 0..0 |-> WC!Done(s)]
  <2>1. f = [n \in 0..0 |-> IF n = 0 THEN WC!Done(s) ELSE WC!Continue(f[n - 1], p, line[n], background)]
    OBVIOUS
  <2>2. Is(f, 0)
    BY Zenon, <2>1 DEF WCResults
  <2> QED
    BY Zenon, <1>3, <1>4, <2>2
<1>5. CASE m # 0
  <2>. DEFINE k0 == m - 1
  <2>1. k0 \in Nat /\ k0 < m /\ m = k0 + 1
    BY <1>3, <1>5
  <2>. HIDE DEF k0
  <2>2. PICK g : Is(g, k0)
    <3>1. k0 \notin T
      BY <1>2, <2>1
    <3> QED
      BY Zenon, <2>1, <3>1
  <2>3. g = [n \in 0..k0 |-> IF n = 0 THEN WC!Done(s) ELSE WC!Continue(g[n - 1], p, line[n], background)]
    BY Zenon, <2>2 DEF WCResults
  <2>. DEFINE last == WC!Continue(g[k0], p, line[m], background)
              f == [n \in 0..m |-> IF n = m THEN last ELSE g[n]]
  <2>4. /\ g[0] = WC!Done(s)
        /\ \A n \in 1..k0 : g[n] = WC!Continue(g[n - 1], p, line[n], background)
    BY <2>1, <2>3
  <2>. HIDE DEF last
  <2>5. \A n \in 0..m : f[n] = IF n = m THEN last ELSE g[n]
    OBVIOUS
  <2>. DEFINE e == [n \in 0..m |-> IF n = 0 THEN WC!Done(s) ELSE WC!Continue(f[n - 1], p, line[n], background)]
  <2>6. ASSUME NEW n \in 0..m
        PROVE  f[n] = IF n = 0 THEN WC!Done(s) ELSE WC!Continue(f[n - 1], p, line[n], background)
    <3>. HIDE DEF f
    <3>1. CASE n = 0
      BY <2>1, <2>4, <2>5, <3>1
    <3>2. CASE n = m
      <4>1. f[n - 1] = g[k0] /\ n # 0
        BY <2>1, <2>5, <3>2
      <4>2. f[n] = last
        BY <2>5, <3>2
      <4> QED
        BY Zenon, <3>2, <4>1, <4>2 DEF last
    <3>3. CASE n # 0 /\ n # m
      <4>1. n \in 1..k0 /\ f[n] = g[n] /\ f[n - 1] = g[n - 1]
        BY <2>1, <2>5, <3>3
      <4> QED
        BY Zenon, <2>4, <3>3, <4>1
    <3> QED
      BY Zenon, <3>1, <3>2, <3>3
  <2>7. f = e
    <3>1. \A n \in 0..m : f[n] = e[n]
      BY Zenon, <2>6
    <3> QED
      BY Zenon, <3>1
  <2>. HIDE DEF f
  <2>8. Is(f, m)
    BY Zenon, <2>7 DEF WCResults
  <2> QED
    BY Zenon, <1>3, <2>8
<1> QED
  BY Zenon, <1>4, <1>5

LEMMA WCRuns ==
    ASSUME NEW a, NEW p, NEW line, Len(line) \in Nat, DOMAIN line = 1..Len(line),
           NEW background, WCAsked(a, p, line, background)
    PROVE  WCLine(a, WC!Results(a, p, line, background)[Len(line)], p, line)
<1>. DEFINE k == Len(line)  f == WC!Results(a, p, line, background)
            T == {n \in 0..k : ~WCLine(a, f[n], p, line)}
<1>1. k \in Nat
  OBVIOUS
<1>2. f = CHOOSE r : WCResults(r, a, p, line, background, k)
  BY Zenon DEF WC!Results, WCResults
<1>3. WCResults(f, a, p, line, background, k)
  BY Zenon, <1>1, <1>2, WCResultsExist
<1>. HIDE DEF f
<1>4. \A n \in 0..k : f[n] = IF n = 0 THEN WC!Done(a) ELSE WC!Continue(f[n - 1], p, line[n], background)
  BY Zenon, <1>3 DEF WCResults
<1>5. WCLine(a, f[0], p, line)
  <2>1. 0 \in 0..k
    BY <1>1
  <2>2. f[0].s = a
    BY Zenon, <1>4, <2>1, WCDone
  <2>3. \A v \in Win : ~WCChanged(a, a, v)
    BY DEF WCChanged
  <2> QED
    BY <2>2, <2>3 DEF WCLine, WCAsked
<1>6. T = {}
  <2>1. SUFFICES ASSUME T # {} PROVE FALSE
    OBVIOUS
  <2>2. T \subseteq Nat
    BY <1>1
  <2>3. PICK n \in T : \A y \in T : n <= y
    BY Zenon, <2>1, <2>2, NatMin
  <2>4. n \in 0..k /\ ~WCLine(a, f[n], p, line) /\ n # 0
    BY <1>5
  <2>5. n - 1 \in 0..k /\ n - 1 < n /\ n \in DOMAIN line
    BY <1>1, <2>4
  <2>6. n - 1 \notin T
    BY <2>3, <2>4, <2>5
  <2>7. WCLine(a, f[n - 1], p, line)
    BY Zenon, <2>5, <2>6
  <2>8. f[n] = WC!Continue(f[n - 1], p, line[n], background)
    BY Zenon, <1>4, <2>4
  <2>9. WCLine(a, f[n], p, line)
    <3>. DEFINE g == f[n - 1]
    <3>1. WCLine(a, g, p, line) /\ f[n] = WC!Continue(g, p, line[n], background)
      BY Zenon, <2>7, <2>8
    <3>. HIDE DEF g
    <3>2. WCLine(a, WC!Continue(g, p, line[n], background), p, line)
      BY Zenon, <2>5, <3>1, WCContinues
    <3> QED
      BY Zenon, <3>1, <3>2
  <2> QED
    BY Zenon, <2>4, <2>9
<1>7. k \in 0..k
  BY <1>1
<1> QED
  BY Zenon, <1>6, <1>7 DEF f

WCInv == WCShape(wc)

LEMMA WCHides ==
    ASSUME NEW s, WCShape(s)
    PROVE  LET t == WC!Hidden(s) IN
           /\ WCShape(t) /\ t.told = s.told
           /\ t.desk = s.desk /\ t.screen = s.screen /\ t.tiled = s.tiled /\ t.sticky = s.sticky
           /\ t.hidden = s.hidden /\ t.gone = s.gone /\ t.active = s.active
BY DEF WC!Hidden, WC!NoDialog, WCHeld, WCShape, WCFields

LEMMA WCAbout ==
    ASSUME NEW s, WCShape(s), NEW p, NEW line, NEW background,
           WCPlaced(s, p)
    PROVE  LET a == WC!About(s, p, line, background) IN
           WCSame(s, a) /\ WCAsked(a, p, line, background)
<1>. DEFINE slips == p.in = "list" /\ WC!Relists(s, line) /\ WC!Moves(s, p, line)
            anyFront == ~background \/ WC!Has(line, "js")
            told == [window |-> WC!At(s, p), on |-> {}, front |-> {}, anyFront |-> anyFront, slips |-> slips]
<1>1. PICK ran : WC!About(s, p, line, background) = [s EXCEPT !.ran = ran, !.told = told]
  BY Zenon DEF WC!About
<1>. DEFINE a == [s EXCEPT !.ran = ran, !.told = told]
<1>2. /\ DOMAIN told = WCTold /\ told.window = WC!At(s, p)
      /\ told.anyFront = anyFront /\ told.slips = slips
  BY DEF WCTold
<1>. HIDE DEF told
<1>3. WCSame(s, a) /\ a.told = told
  BY <1>2 DEF WCSame, WCShape, WCFields
<1>. HIDE DEF a
<1>4. /\ WC!At(a, p) = WC!At(s, p) /\ WC!Relists(a, line) = WC!Relists(s, line)
      /\ WC!Moves(a, p, line) = WC!Moves(s, p, line)
  BY Zenon, <1>3 DEF WCSame, WC!At, WC!Relists, WC!Moves
<1>5. WCAsked(a, p, line, background)
  BY Zenon, <1>2, <1>3, <1>4 DEF WCAsked, WCPlaced, WCSame
<1> QED
  BY Zenon, <1>1, <1>3, <1>5 DEF a

(* A line has been run that started where the windows were as they are.     *)
LEMMA WCLineDone ==
    ASSUME NEW s, WCShape(s), s.desk = wc.desk, s.screen = wc.screen, s.tiled = wc.tiled,
           s.sticky = wc.sticky, s.hidden = wc.hidden, s.gone = wc.gone, s.active = wc.active,
           NEW p, NEW line, Len(line) \in Nat, DOMAIN line = 1..Len(line), NEW background,
           WCPlaced(s, p),
           NEW t, t = WC!Execute(s, p, line, background).s, wc' = t \/ wc' = WC!Hidden(t)
    PROVE  WCInv' /\ WC!ActsAsTold
<1>. DEFINE a == WC!About(s, p, line, background)
            r == WC!Results(a, p, line, background)[Len(line)]
<1>1. WCSame(s, a) /\ WCAsked(a, p, line, background)
  BY Zenon, WCAbout
<1>2. WCLine(a, r, p, line)
  BY Zenon, <1>1, WCRuns
<1>3. t = r.s
  BY Zenon DEF WC!Execute
<1>. HIDE DEF a, r
<1>4. WCShape(t)
  BY Zenon, <1>2, <1>3 DEF WCLine
<1>5. /\ WCShape(wc') /\ wc'.told = t.told
      /\ wc'.desk = t.desk /\ wc'.screen = t.screen /\ wc'.tiled = t.tiled /\ wc'.sticky = t.sticky
      /\ wc'.hidden = t.hidden /\ wc'.gone = t.gone /\ wc'.active = t.active
  <2>. DEFINE h == WC!Hidden(t)
  <2>1. /\ WCShape(h) /\ h.told = t.told
        /\ h.desk = t.desk /\ h.screen = t.screen /\ h.tiled = t.tiled /\ h.sticky = t.sticky
        /\ h.hidden = t.hidden /\ h.gone = t.gone /\ h.active = t.active
    BY Zenon, <1>4, WCHides
  <2>2. CASE wc' = t
    BY Zenon, <1>4, <2>2
  <2>3. CASE wc' = h
    <3>. HIDE DEF h
    <3> QED
      BY Zenon, <2>1, <2>3
  <2> QED
    BY Zenon, <2>2, <2>3
<1>6. CASE a.told.slips
  BY Zenon, <1>2, <1>3, <1>5, <1>6 DEF WCInv, WCLine, WC!ActsAsTold
<1>7. CASE ~a.told.slips
  <2>1. \A v \in Win : WCChanged(a, t, v) => v \in wc'.told.on
    BY Zenon, <1>2, <1>3, <1>5, <1>7 DEF WCLine
  <2>2. \A v \in WC!Touched : v \in Win /\ WCChanged(a, t, v)
    BY <1>1, <1>5 DEF WC!Touched, WCChanged, WCSame
  <2>3. WC!Touched \subseteq wc'.told.on
    BY Zenon, <2>1, <2>2
  <2>4. wc'.told.anyFront \/ wc'.active \in {wc.active, WC!None} \cup wc'.told.front
    BY <1>1, <1>2, <1>3, <1>5, <1>7 DEF WCLine, WCSame, WC!None
  <2> QED
    BY Zenon, <1>5, <2>3, <2>4 DEF WCInv, WC!ActsAsTold
<1> QED
  BY Zenon, <1>6, <1>7

WCIsLine(line) == Len(line) \in Nat /\ DOMAIN line = 1..Len(line)

LEMMA WCTypes ==
    ASSUME WCInv, NEW line, WCIsLine(line), WC!TypeLine(line)
    PROVE  WCInv' /\ WC!ActsAsTold
<1>. DEFINE p == IF WC!Selected(wc) = WC!None THEN WC!Null ELSE WC!Row(wc.at)
            t == WC!Execute(wc, p, line, FALSE).s
<1>1. wc.shown /\ (wc' = t \/ wc' = WC!Hidden(t))
  BY Zenon DEF WC!TypeLine
<1>2. p.in \in {"rows", "null"}
  BY DEF WC!Null, WC!Row
<1>. HIDE DEF p
<1>3. WCPlaced(wc, p)
  BY <1>1, <1>2 DEF WCPlaced
<1> QED
  BY Zenon, <1>1, <1>3, WCLineDone DEF WCInv, WCIsLine

LEMMA WCEntries ==
    ASSUME NEW s, NEW n \in WC!Entries(s)
    PROVE  WCPlaced(s, WC!Entry(n))
BY DEF WC!Entries, WC!Entry, WCPlaced

LEMMA WCHotkeys ==
    ASSUME WCInv, NEW line, WCIsLine(line), WC!HotkeyLine(line)
    PROVE  WCInv' /\ WC!ActsAsTold
<1>. DEFINE o == WC!Overlaid(wc)
<1>1. PICK s, p : /\ s = o \/ s = wc
                  /\ p = WC!Null \/ \E n \in WC!Entries(s) : p = WC!Entry(n)
                  /\ \/ wc' = WC!Execute(s, p, line, FALSE).s
                     \/ wc' = WC!Hidden(WC!Execute(s, p, line, FALSE).s)
  BY Zenon DEF WC!HotkeyLine
<1>2. /\ WCShape(o) /\ o.desk = wc.desk /\ o.screen = wc.screen /\ o.tiled = wc.tiled
      /\ o.sticky = wc.sticky /\ o.hidden = wc.hidden /\ o.gone = wc.gone /\ o.active = wc.active
  BY Zenon, WCOverlaidKeeps DEF WCInv
<1>. HIDE DEF o
<1>3. /\ WCShape(s) /\ s.desk = wc.desk /\ s.screen = wc.screen /\ s.tiled = wc.tiled
      /\ s.sticky = wc.sticky /\ s.hidden = wc.hidden /\ s.gone = wc.gone /\ s.active = wc.active
  BY Zenon, <1>1, <1>2 DEF WCInv
<1>4. WCPlaced(s, p)
  <2>1. WCPlaced(s, WC!Null)
    BY DEF WC!Null, WCPlaced
  <2> QED
    BY Zenon, <1>1, <2>1, WCEntries
<1> QED
  BY Zenon, <1>1, <1>3, <1>4, WCLineDone DEF WCIsLine

LEMMA WCRules ==
    ASSUME WCInv, NEW line, WCIsLine(line), NEW n \in WC!Entries(wc), WC!RuleLine(line, n)
    PROVE  WCInv' /\ WC!ActsAsTold
<1>1. wc' = WC!Execute(wc, WC!Entry(n), line, TRUE).s
  BY Zenon DEF WC!RuleLine
<1>2. WCPlaced(wc, WC!Entry(n))
  BY Zenon, WCEntries
<1> QED
  BY Zenon, <1>1, <1>2, WCLineDone DEF WCInv, WCIsLine

(* What is no line: a window is changed by the answer to a dialog, or goes  *)
(* away.                                                                    *)
LEMMA WCNoLine ==
    ASSUME WCShape(wc'), wc'.told.anyFront = TRUE,
           wc'.told.slips \/ \A v \in Win : WCChanged(wc, wc', v) => v \in wc'.told.on
    PROVE  WCInv' /\ WC!ActsAsTold
<1>1. CASE wc'.told.slips
  BY Zenon, <1>1 DEF WCInv, WC!ActsAsTold
<1>2. CASE \A v \in Win : WCChanged(wc, wc', v) => v \in wc'.told.on
  <2>1. \A v \in WC!Touched : v \in Win /\ WCChanged(wc, wc', v)
    BY DEF WC!Touched, WCChanged
  <2>2. WC!Touched \subseteq wc'.told.on
    BY Zenon, <1>2, <2>1
  <2> QED
    BY Zenon, <2>2 DEF WCInv, WC!ActsAsTold
<1> QED
  BY Zenon, <1>1, <1>2

LEMMA WCApart ==
    ASSUME WCInv
    PROVE  LET a == WC!Apart IN
           WCSame(wc, a) /\ a.told = WC!Nothing /\ a.dialog = wc.dialog /\ a.collected = wc.collected
<1>. DEFINE told == WC!Nothing  a == [wc EXCEPT !.told = told]
<1>1. WC!Apart = a
  BY Zenon DEF WC!Apart
<1>2. DOMAIN told = WCTold
  BY DEF WC!Nothing, WCTold
<1>. HIDE DEF told
<1>3. WCSame(wc, a) /\ a.told = told /\ a.dialog = wc.dialog /\ a.collected = wc.collected
  BY <1>2 DEF WCInv, WCSame, WCShape, WCFields
<1> QED
  BY Zenon, <1>1, <1>3 DEF told

(* The same windows where they were, whatever else there is. *)
WCStays(s, t) ==
    /\ WCShape(t) /\ t.desk = s.desk /\ t.screen = s.screen /\ t.tiled = s.tiled
    /\ t.sticky = s.sticky /\ t.hidden \subseteq s.hidden /\ t.gone = s.gone /\ t.told = s.told

LEMMA WCStill == ASSUME WCInv, WCStays(WC!Apart, wc') PROVE WCInv' /\ WC!ActsAsTold
<1>1. \A v \in Win : ~WCChanged(wc, wc', v)
  BY Zenon, WCApart DEF WCStays, WCSame, WCChanged
<1>2. wc'.told.anyFront = TRUE /\ WCShape(wc')
  <2>1. WC!Nothing.anyFront = TRUE
    BY DEF WC!Nothing
  <2> QED
    BY Zenon, <2>1, WCApart DEF WCStays
<1> QED
  BY Zenon, <1>1, <1>2, WCNoLine

(* The windows that an answer is to change. *)
WCTelling(s, on, slips) == [s EXCEPT !.told.on = on, !.told.slips = slips]
WCIsTold(s, b, on, slips) ==
    /\ WCSame(s, b)
    /\ b.told.on = on /\ b.told.slips = slips /\ b.told.anyFront = s.told.anyFront

LEMMA WCTellsOf ==
    ASSUME NEW s, WCShape(s), NEW on, NEW slips
    PROVE  WCIsTold(s, WCTelling(s, on, slips), on, slips)
<1>. DEFINE told == [s.told EXCEPT !.on = on, !.slips = slips]  c == [s EXCEPT !.told = told]
<1>1. WCTelling(s, on, slips) = c
  BY DEF WCTelling, WCShape, WCFields, WCTold
<1>2. DOMAIN told = WCTold /\ told.on = on /\ told.slips = slips /\ told.anyFront = s.told.anyFront
  BY DEF WCShape, WCTold
<1>. HIDE DEF told
<1>3. WCSame(s, c) /\ c.told = told
  BY <1>2 DEF WCSame, WCShape, WCFields
<1>. HIDE DEF c
<1>4. WCIsTold(s, c, on, slips)
  BY <1>2, <1>3 DEF WCIsTold
<1> QED
  BY Zenon, <1>1, <1>4

LEMMA WCAnswersTile == ASSUME WCInv, WC!AnswerTile PROVE WCInv' /\ WC!ActsAsTold
<1>. DEFINE w == WC!Selected(wc)  b == [WC!Apart EXCEPT !.told.on = {w}]
            t == WC!ApplyTiling(b, w)
<1>1. wc' = WC!Hidden(t)
  BY Zenon DEF WC!AnswerTile
<1>2. WCSame(wc, b) /\ b.told.on = {w} /\ b.told.anyFront = TRUE
  <2>. DEFINE a == WC!Apart
  <2>1. WCSame(wc, a) /\ a.told = WC!Nothing
    BY Zenon, WCApart
  <2>. HIDE DEF a, w
  <2>. DEFINE told == [a.told EXCEPT !.on = {w}]
  <2>2. DOMAIN told = WCTold /\ told.on = {w} /\ told.anyFront = TRUE
    BY <2>1 DEF WC!Nothing, WCTold
  <2>. HIDE DEF told
  <2>3. WCSame(wc, [a EXCEPT !.told = told]) /\ [a EXCEPT !.told = told].told = told
    BY <2>1, <2>2 DEF WCSame, WCShape, WCFields
  <2>4. b = [a EXCEPT !.told = told]
    BY Zenon DEF a, told
  <2>. HIDE DEF b
  <2> QED
    BY <2>2, <2>3, <2>4
<1>. HIDE DEF b, w
<1>3. WCDid(b, t, FALSE, FALSE, {w}, {})
  BY Zenon, <1>2, WCTiles DEF WCSame
<1>. HIDE DEF t
<1>4. /\ WCShape(wc') /\ wc'.told = t.told
      /\ wc'.desk = t.desk /\ wc'.screen = t.screen /\ wc'.tiled = t.tiled /\ wc'.sticky = t.sticky
      /\ wc'.hidden = t.hidden /\ wc'.gone = t.gone
  BY Zenon, <1>1, <1>3, WCHides DEF WCDid
<1>5. wc'.told.on = {w} /\ wc'.told.anyFront = TRUE
  BY Zenon, <1>2, <1>3, <1>4 DEF WCDid
<1>6. \A v \in Win : WCChanged(wc, wc', v) => v \in wc'.told.on
  BY <1>2, <1>3, <1>4, <1>5 DEF WCDid, WCSame, WCChanged
<1> QED
  BY Zenon, <1>4, <1>5, <1>6, WCNoLine

LEMMA WCAnswersAll == ASSUME WCInv, NEW d, WC!AnswerAll(d) PROVE WCInv' /\ WC!ActsAsTold
<1>. DEFINE a == WC!Apart
            b == WCTelling(a, wc.dialog.for, wc.dialog.again)
            m == WC!MoveTo(b, wc.collected, d)
            u == [m EXCEPT !.current = d]
<1>1. wc.dialog.kind = "all" /\ (wc' = WC!Hidden(b) \/ wc' = WC!Hidden(u))
  BY Zenon DEF WC!AnswerAll, WCTelling
<1>2. /\ WCSame(wc, b) /\ b.told.on = wc.dialog.for /\ b.told.slips = wc.dialog.again
      /\ b.told.anyFront = TRUE
  <2>1. WCSame(wc, a) /\ WC!Apart.told.anyFront = TRUE
    <3>1. WC!Nothing.anyFront = TRUE
      BY DEF WC!Nothing
    <3> QED
      BY Zenon, <3>1, WCApart
  <2>. HIDE DEF a
  <2>2. WCShape(a) /\ a.told.anyFront = TRUE
    BY Zenon, <2>1 DEF WCSame, a
  <2>3. WCIsTold(a, b, wc.dialog.for, wc.dialog.again)
    BY Zenon, <2>2, WCTellsOf
  <2>. HIDE DEF b
  <2> QED
    BY <2>1, <2>2, <2>3 DEF WCSame, WCIsTold
<1>. HIDE DEF b
<1>3. WCShape(b)
  BY Zenon, <1>2 DEF WCSame
<1>4. WCDid(b, m, FALSE, FALSE, wc.collected, {})
  BY Zenon, <1>3, WCMovesTo
<1>. HIDE DEF m
<1>5. WCDid(m, u, FALSE, FALSE, {}, {})
  BY Zenon, <1>4, WCGoes DEF WCDid
<1>. HIDE DEF u
<1>6. PICK t : wc' = WC!Hidden(t) /\ WCDid(b, t, FALSE, FALSE, wc.collected, {})
  <2>1. WCDid(b, b, FALSE, FALSE, wc.collected, {})
    BY <1>3, WCRests DEF WCDid
  <2>2. WCDid(b, u, FALSE, FALSE, wc.collected, {})
    BY <1>4, <1>5 DEF WCDid, WCChanged
  <2> QED
    BY Zenon, <1>1, <2>1, <2>2
<1>7. /\ WCShape(wc') /\ wc'.told = t.told
      /\ wc'.desk = t.desk /\ wc'.screen = t.screen /\ wc'.tiled = t.tiled /\ wc'.sticky = t.sticky
      /\ wc'.hidden = t.hidden /\ wc'.gone = t.gone
  BY Zenon, <1>6, WCHides DEF WCDid
<1>8. /\ wc'.told.on = wc.dialog.for /\ wc'.told.slips = wc.dialog.again
      /\ wc'.told.anyFront = TRUE
  BY Zenon, <1>2, <1>6, <1>7 DEF WCDid
<1>9. \A v \in Win : WCChanged(wc, wc', v) => v \in wc.collected
  BY <1>2, <1>6, <1>7 DEF WCDid, WCSame, WCChanged
<1>10. wc'.told.slips \/ wc.collected = wc.dialog.for
  BY Zenon, <1>1, <1>8 DEF WCInv, WCShape, WCHeld
<1> QED
  BY Zenon, <1>7, <1>8, <1>9, <1>10, WCNoLine

LEMMA WCGoesAway == ASSUME WCInv, NEW w, WC!Gone(w) PROVE WCInv' /\ WC!ActsAsTold
<1>. DEFINE a == WC!Apart  t == WC!Without(a, w)
            told == [t.told EXCEPT !.on = {w}]  u == [t EXCEPT !.told = told]
<1>1. wc' = u
  BY Zenon DEF WC!Gone
<1>2. WCSame(wc, a) /\ a.told = WC!Nothing
  BY Zenon, WCApart
<1>. HIDE DEF a
<1>3. WCDid(a, t, FALSE, TRUE, {w}, {})
  <2>1. WC!CloseWindow(a, w).s = t
    BY Zenon, WCDone DEF WC!CloseWindow
  <2>2. WCShape(a)
    BY Zenon, <1>2 DEF WCSame
  <2> QED
    BY Zenon, <2>1, <2>2, WCCloses
<1>. HIDE DEF t
<1>4. DOMAIN told = WCTold /\ told.on = {w} /\ told.anyFront = TRUE
  BY <1>2, <1>3 DEF WCDid, WC!Nothing, WCTold
<1>. HIDE DEF told
<1>5. WCSame(t, u) /\ u.told = told
  BY <1>3, <1>4 DEF WCDid, WCSame, WCShape, WCFields
<1>. HIDE DEF u
<1>6. WCShape(wc') /\ wc'.told.on = {w} /\ wc'.told.anyFront = TRUE
  BY Zenon, <1>1, <1>4, <1>5 DEF WCSame
<1>7. \A v \in Win : WCChanged(wc, u, v) => v \in {w}
  BY <1>2, <1>3, <1>5 DEF WCDid, WCSame, WCChanged
<1>8. \A v \in Win : WCChanged(wc, wc', v) => v \in wc'.told.on
  BY Zenon, <1>1, <1>6, <1>7
<1> QED
  BY Zenon, <1>6, <1>8, WCNoLine

LEMMA WCOthers ==
    ASSUME WCInv,
           \/ \E d \in WC!Desk : WC!AnswerJump(d)
           \/ \E name \in Names : WC!AnswerRename(name)
           \/ WC!Cancel \/ WC!Relist \/ \E w \in Win : WC!Open(w)
           \/ WC!Show \/ WC!Hide \/ WC!Select \/ WC!Focus \/ WC!Wander
    PROVE  WCInv' /\ WC!ActsAsTold
<1>. DEFINE a == WC!Apart  r == WC!Relisted(a)
<1>1. \/ \E d : wc' = WC!Hidden([a EXCEPT !.current = d])
      \/ \E k, x : wc' = [a EXCEPT !.dialog = WC!NoDialog, !.names[k] = x]
      \/ wc' = [a EXCEPT !.dialog = WC!NoDialog]
      \/ \E rows, n : wc' = [r EXCEPT !.rows = rows, !.at = n]
      \/ \E c : wc' = [a EXCEPT !.clients = c]
      \/ wc' = WC!Overlaid(a)
      \/ wc' = WC!Hidden(a)
      \/ \E n : wc' = [a EXCEPT !.at = n]
      \/ \E w : wc' = WC!Activated(a, w)
      \/ \E d : wc' = [a EXCEPT !.current = d]
  <2>1. ASSUME NEW name, WC!AnswerRename(name)
        PROVE  \E k, x : wc' = [a EXCEPT !.dialog = WC!NoDialog, !.names[k] = x]
    <3>. DEFINE k == wc.dialog.of  x == IF k = 0 THEN a.names[k] ELSE name
    <3>1. wc' = [a EXCEPT !.dialog = WC!NoDialog, !.names[k] = x]
      BY Zenon, <2>1 DEF WC!AnswerRename
    <3>. HIDE DEF a, k, x
    <3> QED
      BY Zenon, <3>1
  <2>2. ASSUME NEW d, WC!AnswerJump(d) PROVE \E e : wc' = WC!Hidden([a EXCEPT !.current = e])
    BY Zenon, <2>2 DEF WC!AnswerJump
  <2>3. ASSUME WC!Cancel PROVE wc' = [a EXCEPT !.dialog = WC!NoDialog]
    BY Zenon, <2>3 DEF WC!Cancel
  <2>4. ASSUME WC!Relist PROVE \E rows, n : wc' = [r EXCEPT !.rows = rows, !.at = n]
    BY Zenon, <2>4 DEF WC!Relist
  <2>5. ASSUME NEW w, WC!Open(w) PROVE \E c : wc' = [a EXCEPT !.clients = c]
    BY Zenon, <2>5 DEF WC!Open
  <2>6. ASSUME WC!Show PROVE wc' = WC!Overlaid(a)
    BY Zenon, <2>6 DEF WC!Show
  <2>7. ASSUME WC!Hide PROVE wc' = WC!Hidden(a)
    BY Zenon, <2>7 DEF WC!Hide
  <2>8. ASSUME WC!Select PROVE \E n : wc' = [a EXCEPT !.at = n]
    BY Zenon, <2>8 DEF WC!Select
  <2>9. ASSUME WC!Focus PROVE \E w : wc' = WC!Activated(a, w)
    BY Zenon, <2>9 DEF WC!Focus
  <2>10. ASSUME WC!Wander PROVE \E d : wc' = [a EXCEPT !.current = d]
    BY Zenon, <2>10 DEF WC!Wander
  <2>. HIDE DEF a, r
  <2> QED
    BY Zenon, <2>1, <2>2, <2>3, <2>4, <2>5, <2>6, <2>7, <2>8, <2>9, <2>10
<1>2. WCShape(a)
  BY Zenon, WCApart DEF WCSame
<1>3. /\ WCShape(r) /\ r.told = a.told
      /\ r.desk = a.desk /\ r.screen = a.screen /\ r.tiled = a.tiled /\ r.sticky = a.sticky
      /\ r.hidden = a.hidden /\ r.gone = a.gone
  BY Zenon, <1>2, WCRelists
<1>. HIDE DEF a, r
<1>4. ASSUME NEW d PROVE WCStays(a, [a EXCEPT !.current = d])
  BY <1>2 DEF WCStays, WCShape, WCFields
<1>5. ASSUME NEW s, WCStays(a, s) PROVE WCStays(a, WC!Hidden(s))
  BY Zenon, <1>5, WCHides DEF WCStays
<1>6. WCStays(a, a)
  BY <1>2 DEF WCStays
<1>7. WCStays(a, wc')
  <2>1. CASE (\E d : wc' = WC!Hidden([a EXCEPT !.current = d])) \/ wc' = WC!Hidden(a)
    BY Zenon, <1>4, <1>5, <1>6, <2>1
  <2>2. CASE \E k, x : wc' = [a EXCEPT !.dialog = WC!NoDialog, !.names[k] = x]
    BY <1>2, <2>2 DEF WCStays, WCShape, WCFields, WCHeld, WC!NoDialog
  <2>3. CASE wc' = [a EXCEPT !.dialog = WC!NoDialog]
    BY <1>2, <2>3 DEF WCStays, WCShape, WCFields, WCHeld, WC!NoDialog
  <2>4. CASE \E rows, n : wc' = [r EXCEPT !.rows = rows, !.at = n]
    BY <1>3, <2>4 DEF WCStays, WCShape, WCFields
  <2>5. CASE \E c : wc' = [a EXCEPT !.clients = c]
    BY <1>2, <2>5 DEF WCStays, WCShape, WCFields
  <2>6. CASE wc' = WC!Overlaid(a)
    <3>. DEFINE o == WC!Overlaid(a)
    <3>1. /\ WCShape(o) /\ o.told = a.told
          /\ o.desk = a.desk /\ o.screen = a.screen /\ o.tiled = a.tiled /\ o.sticky = a.sticky
          /\ o.hidden = a.hidden /\ o.gone = a.gone
      BY Zenon, <1>2, WCOverlaidKeeps
    <3>. HIDE DEF o
    <3>2. wc' = o
      BY Zenon, <2>6 DEF o
    <3> QED
      BY <3>1, <3>2 DEF WCStays
  <2>7. CASE \E n : wc' = [a EXCEPT !.at = n]
    BY <1>2, <2>7 DEF WCStays, WCShape, WCFields
  <2>8. CASE \E w : wc' = WC!Activated(a, w)
    <3>1. PICK w : wc' = WC!Activated(a, w)
      BY Zenon, <2>8
    <3>2. wc' = a \/ wc' = [a EXCEPT !.active = w, !.hidden = a.hidden \ {w}]
      BY Zenon, <3>1 DEF WC!Activated
    <3> QED
      BY <1>2, <1>6, <3>2 DEF WCStays, WCShape, WCFields
  <2>9. CASE \E d : wc' = [a EXCEPT !.current = d]
    BY Zenon, <1>4, <2>9
  <2> QED
    BY Zenon, <1>1, <2>1, <2>2, <2>3, <2>4, <2>5, <2>6, <2>7, <2>8, <2>9
<1> QED
  BY Zenon, <1>7, WCStill DEF a

LEMMA WCStarts == ASSUME WC!Init PROVE WCInv
BY DEF WC!Init, WC!NoDialog, WC!Nothing, WCInv, WCHeld, WCShape, WCFields, WCTold

LEMMA WCSteps == ASSUME WC!CommandsFit, WCInv, WC!Next PROVE WCInv' /\ WC!ActsAsTold
<1>1. \A line \in Lines : WCIsLine(line)
  BY DEF WC!CommandsFit, WCIsLine
<1>2. CASE \E line \in Lines :
              \/ WC!TypeLine(line) \/ WC!HotkeyLine(line)
              \/ \E n \in WC!Entries(wc) : WC!RuleLine(line, n)
  BY Zenon, <1>1, <1>2, WCTypes, WCHotkeys, WCRules
<1>3. CASE \E d \in WC!Desk : WC!AnswerAll(d)
  BY Zenon, <1>3, WCAnswersAll
<1>4. CASE WC!AnswerTile \/ \E w \in Win : WC!Gone(w)
  BY Zenon, <1>4, WCAnswersTile, WCGoesAway
<1>5. CASE \/ \E d \in WC!Desk : WC!AnswerJump(d)
           \/ \E name \in Names : WC!AnswerRename(name)
           \/ WC!Cancel \/ WC!Relist \/ \E w \in Win : WC!Open(w)
           \/ WC!Show \/ WC!Hide \/ WC!Select \/ WC!Focus \/ WC!Wander
  BY Zenon, <1>5, WCOthers
<1> QED
  BY Zenon, <1>2, <1>3, <1>4, <1>5 DEF WC!Next

(* A line of commands changes the windows that its commands are for: the    *)
(* one the line was given, which is still in its place when the next        *)
(* command reads it, unless the list was read again and had changed; and    *)
(* the dialog of "maw" moves what it was opened for, unless a later "maw"   *)
(* collected again (rules_dispatch.c, hotkeys.c, command_mode.c,            *)
(* command_handlers.c, workspace_overlay.c, tiling_overlay.c).              *)
THEOREM CommandsKeepToWindows ==
    ASSUME WC!CommandsFit PROVE WC!Spec => WC!KeepsToItsWindows
<1>1. WC!Init => WCInv
  BY Zenon, WCStarts
<1>2. WCInv /\ [WC!Next]_wc => WCInv'
  <2>1. ASSUME WCInv, UNCHANGED wc PROVE WCInv'
    BY Zenon, <2>1 DEF WCInv
  <2> QED
    BY Zenon, <2>1, WCSteps
<1>3. WCInv /\ [WC!Next]_wc => [WC!ActsAsTold]_wc
  BY Zenon, WCSteps
<1> QED
  BY <1>1, <1>2, <1>3, PTL DEF WC!Spec, WC!KeepsToItsWindows
=============================================================================
