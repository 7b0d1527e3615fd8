-------------------------- MODULE MatchStoresProofs --------------------------
(* Proofs about MatchStores: whatever the handlers do, in whatever order,   *)
(* and wherever the process dies, no two of slot, name and user rule share  *)
(* an entry, the id of a new entry is referenced nowhere, and every name    *)
(* and rule in the files has its entry; between two handlers the files hold *)
(* what the memory holds, and the geom rules follow the layouts.            *)
EXTENDS MatchStores, TLAPS

(* The hypothesis on the environment: matching.json can be written, and is  *)
(* read back at the next start.                                             *)
MatchingReliable == "matching" \notin FailableStores \cup LossyStores

-----------------------------------------------------------------------------
(* The inductive invariant                                                  *)

Below(S, n) == S \subseteq 1..(n - 1)

Shape ==
    /\ next \in Nat \ {0}
    /\ slots \in [Slot -> Nat]
    /\ rules \subseteq Rule
    /\ disk = [pats |-> disk.pats, next |-> disk.next, slots |-> disk.slots,
               names |-> disk.names, layouts |-> disk.layouts, rules |-> disk.rules]
    /\ disk.next \in Nat \ {0}
    /\ disk.slots \in [Slot -> Nat]
    /\ disk.rules \subseteq Rule
    /\ todo \in Seq(Stores)
    /\ phase \in Phases
    /\ \A i \in DOMAIN entries : entries[i].pat \in Pattern
    /\ \A i \in DOMAIN disk.pats : disk.pats[i] \in Pattern
    /\ phase = "down" => MemRefs = {}

(* Every id in use is below the counter, in memory and in the files; while  *)
(* the process runs the counter of the file is not ahead of the other.      *)
MemBelow == Below(MemRefs \cup DOMAIN entries, next)
DiskBelow == Below(DiskRefs \cup DOMAIN disk.pats, disk.next)
CountersOrdered == phase # "down" => disk.next <= next

(* Before a file that may refer to a new entry is saved, matching.json is.  *)
MatchingFirst ==
    /\ phase \in {"down", "repair"} => todo = <<>> /\ resync = {} /\ victim = 0
    /\ phase \notin {"down", "repair"} =>
         \/ Below(MemRefs, disk.next)
         \/ todo # <<>> /\ Head(todo) = "matching"

(* Owners stay apart even when some of the files are from before the        *)
(* handler and some from after it.                                          *)
AllApart ==
    /\ OneSlotEach(slots) /\ OneSlotEach(disk.slots)
    /\ OneRuleEach(rules) /\ OneRuleEach(disk.rules)
    /\ Apart(SlotIds(slots) \cup SlotIds(disk.slots), names \cup disk.names,
             OwnRuleIds(rules) \cup OwnRuleIds(disk.rules))

Titles == \A w \in DOMAIN wins : wins[w] \in Title

IInv == Shape /\ MemBelow /\ DiskBelow /\ CountersOrdered /\ MatchingFirst /\ AllApart

-----------------------------------------------------------------------------
(* A handler that only takes owners away, or gives the next id to one new   *)
(* owner, keeps the invariant; N is the set of ids it hands out.            *)

LEMMA HandlerStep ==
  ASSUME NEW N, N \subseteq {next},
         NEW A \in SUBSET N, NEW B \in SUBSET N, NEW C \in SUBSET N,
         Apart(A, B, C),
         IInv, phase # "down", phase' # "down", disk' = disk,
         next' \in Nat, N = {} => next' = next, N # {} => next' = next + 1,
         slots' \in [Slot -> Nat], rules' \subseteq Rule, todo' \in Seq(Stores),
         phase' \in Phases,
         \A i \in DOMAIN entries' : entries'[i].pat \in Pattern,
         DOMAIN entries' \subseteq DOMAIN entries \cup N,
         MemRefs' \subseteq MemRefs \cup DOMAIN entries \cup N,
         SlotIds(slots') \subseteq SlotIds(slots) \cup A,
         names' \subseteq names \cup B,
         OwnRuleIds(rules') \subseteq OwnRuleIds(rules) \cup C,
         OneSlotEach(slots'), OneRuleEach(rules'),
         MatchingFirst'
  PROVE  IInv'
<1>1. Shape'
  BY DEF IInv, Shape
<1>2. MemBelow'
  BY DEF IInv, Shape, MemBelow, Below
<1>3. DiskBelow'
  BY DEF IInv, DiskBelow, DiskRefs
<1>4. CountersOrdered'
  BY DEF IInv, Shape, CountersOrdered
<1>5. AllApart'
  <2>1. next \notin SlotIds(slots) \cup names \cup OwnRuleIds(rules)
    <3>1. OwnRuleIds(rules) \subseteq RuleIds(rules)
      BY DEF OwnRuleIds, RuleIds
    <3>. QED  BY <3>1 DEF IInv, Shape, MemBelow, Below, MemRefs, Referenced
  <2>2. next \notin SlotIds(disk.slots) \cup disk.names \cup OwnRuleIds(disk.rules)
    <3>1. OwnRuleIds(disk.rules) \subseteq RuleIds(disk.rules)
      BY DEF OwnRuleIds, RuleIds
    <3>. QED  BY <3>1 DEF IInv, Shape, DiskBelow, Below, DiskRefs, Referenced, CountersOrdered
  <2>. QED  BY <2>1, <2>2 DEF IInv, AllApart, Apart
<1>. QED  BY <1>1, <1>2, <1>3, <1>4, <1>5 DEF IInv

(* Between two saves of a handler, and between two handlers, the file has   *)
(* the counter up to date with every reference in memory.                   *)
LEMMA NothingPending ==
  ASSUME IInv, todo = <<>>, phase \notin {"down", "repair"}
  PROVE  Below(MemRefs, disk.next)
  BY DEF IInv, MatchingFirst

(* A step that creates nothing: owners and entries only go away.            *)
LEMMA ShrinkingStep ==
  ASSUME IInv, todo = <<>>, phase \notin {"down", "repair"},
         phase' \in Phases, phase' \notin {"down", "repair"},
         disk' = disk, next' = next,
         slots' \in [Slot -> Nat], rules' \subseteq Rule, todo' \in Seq(Stores),
         \A i \in DOMAIN entries' : entries'[i].pat \in Pattern,
         DOMAIN entries' \subseteq DOMAIN entries,
         MemRefs' \subseteq MemRefs,
         SlotIds(slots') \subseteq SlotIds(slots),
         names' \subseteq names,
         OwnRuleIds(rules') \subseteq OwnRuleIds(rules),
         OneSlotEach(slots'), OneRuleEach(rules')
  PROVE  IInv'
<1>1. Below(MemRefs, disk.next)
  BY NothingPending
<1>2. MatchingFirst'
  BY <1>1 DEF MatchingFirst, Below
<1>3. next' \in Nat /\ Apart({}, {}, {})
  BY DEF IInv, Shape, Apart
<1>. QED  BY <1>2, <1>3, HandlerStep

(* A step that leaves every owner as it is.                                 *)
LEMMA OwnersKept ==
  ASSUME IInv, todo = <<>>, phase \notin {"down", "repair"},
         phase' \in Phases, phase' \notin {"down", "repair"},
         disk' = disk, next' = next, owners' = owners, todo' \in Seq(Stores),
         \A i \in DOMAIN entries' : entries'[i].pat \in Pattern,
         DOMAIN entries' \subseteq DOMAIN entries
  PROVE  IInv'
<1>1. slots' = slots /\ names' = names /\ layouts' = layouts /\ rules' = rules
  BY DEF owners
<1>2. MemRefs' = MemRefs
  BY <1>1 DEF MemRefs, Referenced
<1>3. slots \in [Slot -> Nat] /\ rules \subseteq Rule
      /\ OneSlotEach(slots) /\ OneRuleEach(rules)
  BY DEF IInv, Shape, AllApart
<1>. QED  BY <1>1, <1>2, <1>3, ShrinkingStep

(* A step of an idle process that hands out the next id, to at most one     *)
(* kind of owner, and then saves matching.json first.                       *)
LEMMA AllocatingStep ==
  ASSUME IInv, Idle, phase' = phase, disk' = disk, next' = AfterAllocation(next),
         NEW A \in SUBSET {next}, NEW B \in SUBSET {next}, NEW C \in SUBSET {next},
         Apart(A, B, C),
         slots' \in [Slot -> Nat], rules' \subseteq Rule,
         todo' \in Seq(Stores),
         todo' = <<>> => MemRefs' \subseteq MemRefs,
         todo' # <<>> => Head(todo') = "matching",
         \A i \in DOMAIN entries' : entries'[i].pat \in Pattern,
         DOMAIN entries' \subseteq DOMAIN entries \cup {next},
         MemRefs' \subseteq MemRefs \cup {next},
         SlotIds(slots') \subseteq SlotIds(slots) \cup A,
         names' \subseteq names \cup B,
         OwnRuleIds(rules') \subseteq OwnRuleIds(rules) \cup C,
         OneSlotEach(slots'), OneRuleEach(rules')
  PROVE  IInv'
<1>1. phase = "up" /\ todo = <<>>
  BY DEF Idle
<1>2. Below(MemRefs, disk.next)
  BY <1>1, NothingPending
<1>3. MatchingFirst'
  BY <1>1, <1>2 DEF MatchingFirst, Below
<1>4. next' \in Nat /\ next' = next + 1 /\ phase' \in Phases
  BY <1>1 DEF IInv, Shape, AfterAllocation, Phases
<1>. QED  BY <1>1, <1>3, <1>4, HandlerStep

-----------------------------------------------------------------------------
(* What the operators on entries and rules keep                             *)

LEMMA RebindingsKeep ==
  ASSUME NEW es, NEW ws, NEW fs \in Rebindings(es, ws),
         \A i \in DOMAIN es : es[i].pat \in Pattern
  PROVE  /\ DOMAIN fs = DOMAIN es
         /\ \A i \in DOMAIN fs : fs[i].pat \in Pattern
  BY DEF Rebindings, Entry

LEMMA SaveIfChangedType ==
  ASSUME NEW es, NEW fs
  PROVE  SaveIfChanged(es, fs) \in Seq(Stores)
<1>1. <<>> \in Seq(Stores) /\ <<"matching">> \in Seq(Stores)
  BY DEF Stores
<1>. QED  BY <1>1 DEF SaveIfChanged

LEMMA EntryFirstType ==
  ASSUME NEW o \in Owners
  PROVE  /\ EntryFirst(o) \in Seq(Stores)
         /\ EntryFirst(o) # <<>> /\ Head(EntryFirst(o)) = "matching"
         /\ OwnerFirst(o) \in Seq(Stores)
  BY DEF EntryFirst, OwnerFirst, Stores

LEMMA FewerRules ==
  ASSUME NEW rs, NEW ps, ps \subseteq rs, OneRuleEach(rs)
  PROVE  OneRuleEach(ps) /\ OwnRuleIds(ps) \subseteq OwnRuleIds(rs)
         /\ RuleIds(ps) \subseteq RuleIds(rs)
  BY DEF OneRuleEach, OwnRuleIds, RuleIds

(* A save of rules.json changes neither the ids nor the kinds of the rules. *)
LEMMA PatternsKeepRules ==
  ASSUME NEW rs \in SUBSET Rule, NEW es, \A i \in DOMAIN es : es[i].pat \in Pattern
  PROVE  /\ WithPatterns(rs, es) \subseteq Rule
         /\ RuleIds(WithPatterns(rs, es)) = RuleIds(rs)
         /\ OwnRuleIds(WithPatterns(rs, es)) = OwnRuleIds(rs)
         /\ OneRuleEach(rs) => OneRuleEach(WithPatterns(rs, es))
<1> DEFINE P(r) == IF r.id \in DOMAIN es THEN es[r.id].pat ELSE r.pat
           W(r) == [r EXCEPT !.pat = P(r)]
<1>1. \A r \in rs : /\ W(r) \in Rule /\ W(r).id = r.id /\ W(r).geom = r.geom
  BY DEF Rule
<1>2. WithPatterns(rs, es) = {W(r) : r \in rs}
  BY DEF WithPatterns
<1>. HIDE DEF W, P
<1>3. WithPatterns(rs, es) \subseteq Rule
  BY <1>1, <1>2
<1>4. RuleIds(WithPatterns(rs, es)) = RuleIds(rs)
  BY <1>1, <1>2 DEF RuleIds
<1>5. OwnRuleIds(WithPatterns(rs, es)) = OwnRuleIds(rs)
  <2>1. \A i : i \in OwnRuleIds(rs) <=> \E r \in rs : ~r.geom /\ r.id = i
    BY DEF OwnRuleIds
  <2>2. \A i : i \in OwnRuleIds(WithPatterns(rs, es)) <=>
                 \E r \in WithPatterns(rs, es) : ~r.geom /\ r.id = i
    BY DEF OwnRuleIds
  <2>3. ASSUME NEW i
        PROVE  i \in OwnRuleIds(WithPatterns(rs, es)) <=> i \in OwnRuleIds(rs)
    <3>1. ASSUME NEW r \in rs, ~r.geom, r.id = i
          PROVE  \E q \in WithPatterns(rs, es) : ~q.geom /\ q.id = i
      BY <1>1, <1>2, <3>1
    <3>2. ASSUME NEW q \in WithPatterns(rs, es), ~q.geom, q.id = i
          PROVE  \E r \in rs : ~r.geom /\ r.id = i
      BY <1>1, <1>2, <3>2
    <3>. QED  BY <2>1, <2>2, <3>1, <3>2
  <2>. QED  BY <2>3
<1>6. OneRuleEach(rs) => OneRuleEach(WithPatterns(rs, es))
  BY <1>1, <1>2 DEF OneRuleEach
<1>. QED  BY <1>3, <1>4, <1>5, <1>6

-----------------------------------------------------------------------------
(* The start                                                                *)

LEMMA InitInv ==
  ASSUME Init
  PROVE  IInv
<1>1. MemRefs = {} /\ DiskRefs = {}
  BY DEF Init, MemRefs, DiskRefs, Referenced, SlotIds, RuleIds, EmptySlots, Nothing
<1>2. SlotIds(slots) = {} /\ SlotIds(disk.slots) = {} /\ OwnRuleIds(rules) = {}
      /\ OwnRuleIds(disk.rules) = {}
  BY DEF Init, SlotIds, OwnRuleIds, EmptySlots
<1>3. Shape
  BY <1>1 DEF Init, Shape, EmptySlots, Nothing, Phases
<1>4. MemBelow /\ DiskBelow /\ CountersOrdered
  BY <1>1 DEF Init, MemBelow, DiskBelow, CountersOrdered, Below, Nothing
<1>5. MatchingFirst
  BY DEF Init, MatchingFirst
<1>6. AllApart
  BY <1>2 DEF Init, AllApart, Apart, OneSlotEach, OneRuleEach, EmptySlots
<1>. QED  BY <1>3, <1>4, <1>5, <1>6 DEF IInv

LEMMA LoadMatchingKeeps ==
  ASSUME IInv, LoadMatching
  PROVE  IInv'
<1>. USE DEF LoadMatching
<1>1. next' = disk.next
  BY DEF IInv, DiskBelow, Below, Shape, LoadedNext
<1>2. MemRefs = {}
  BY DEF IInv, Shape
<1>3. SlotIds(slots) = {} /\ DOMAIN layouts = {}
  BY <1>2 DEF MemRefs, Referenced
<1>4. MemRefs' \subseteq DiskRefs
  BY <1>3 DEF MemRefs, DiskRefs, Referenced
<1>5. Shape'
  BY <1>1 DEF IInv, Shape, Phases, Entry
<1>6. MemBelow' /\ DiskBelow' /\ CountersOrdered'
  <2>1. DOMAIN entries' = DOMAIN disk.pats /\ DiskRefs' = DiskRefs
    BY DEF DiskRefs
  <2>2. disk.next \in Nat
    BY DEF IInv, Shape
  <2>. QED
    BY <1>1, <1>4, <2>1, <2>2 DEF IInv, MemBelow, DiskBelow, CountersOrdered, Below
<1>7. MatchingFirst'
  BY DEF IInv, MatchingFirst, rest
<1>8. AllApart'
  BY <1>3 DEF IInv, AllApart, Apart
<1>. QED  BY <1>5, <1>6, <1>7, <1>8 DEF IInv

(* The id of a repaired rule is above every other.                          *)
LEMMA RepairRuleKeeps ==
  ASSUME IInv, NEW r \in rules, RepairRule(r)
  PROVE  IInv'
<1>. USE DEF RepairRule
<1>1. slots \in [Slot -> Nat] /\ OneSlotEach(slots) /\ todo \in Seq(Stores) /\ todo = <<>>
      /\ rules \subseteq Rule /\ OneRuleEach(rules) /\ next \in Nat \ {0}
  BY DEF IInv, Shape, AllApart, MatchingFirst
<1>2. MatchingFirst'
  BY <1>1 DEF IInv, MatchingFirst, rest
<1>3. Apart({}, {}, {}) /\ Apart({}, {}, {next})
  BY DEF Apart
<1>4. \A i \in DOMAIN entries : entries[i].pat \in Pattern
  BY DEF IInv, Shape
<1>5. CASE /\ entries' = Put(entries, next, Entry(r.pat, NoWindow))
           /\ next' = AfterAllocation(next)
           /\ rules' = (rules \ {r}) \cup {[r EXCEPT !.id = next]}
  <2> DEFINE new == [r EXCEPT !.id = next]
             C == IF r.geom THEN {} ELSE {next}
  <2>1. r.pat \in Pattern /\ new \in Rule /\ new.id = next /\ new.geom = r.geom
        /\ r.geom \in BOOLEAN
    BY <1>1 DEF Rule
  <2>. HIDE DEF new
  <2>2. rules' = (rules \ {r}) \cup {new}
    BY <1>5 DEF new
  <2>3. \A q \in rules : q.id # next
    BY <1>1 DEF IInv, MemBelow, Below, MemRefs, Referenced, RuleIds
  <2>4. OneRuleEach(rules')
    BY <1>1, <2>1, <2>2, <2>3 DEF OneRuleEach
  <2>5. OwnRuleIds(rules') \subseteq OwnRuleIds(rules) \cup C
    BY <2>1, <2>2 DEF OwnRuleIds
  <2>6. MemRefs' \subseteq MemRefs \cup {next}
    BY <2>1, <2>2 DEF MemRefs, Referenced, RuleIds
  <2>7. DOMAIN entries' \subseteq DOMAIN entries \cup {next}
        /\ \A i \in DOMAIN entries' : entries'[i].pat \in Pattern
    BY <1>4, <1>5, <2>1 DEF Put, Entry
  <2>8. rules' \subseteq Rule
    BY <1>1, <2>1, <2>2
  <2>9. C \in SUBSET {next} /\ Apart({}, {}, C)
    BY DEF Apart
  <2>10. next' = next + 1 /\ next' \in Nat /\ phase' \in Phases
    BY <1>1, <1>5 DEF AfterAllocation, Phases
  <2>. HIDE DEF C
  <2>. QED
    BY <1>1, <1>2, <2>4, <2>5, <2>6, <2>7, <2>8, <2>9, <2>10, HandlerStep
<1>6. CASE rules' = rules \ {r} /\ UNCHANGED <<entries, next>>
  <2>1. OneRuleEach(rules') /\ OwnRuleIds(rules') \subseteq OwnRuleIds(rules)
        /\ RuleIds(rules') \subseteq RuleIds(rules)
    BY <1>1, <1>6, FewerRules
  <2>2. MemRefs' \subseteq MemRefs
    BY <2>1 DEF MemRefs, Referenced
  <2>3. phase' \in Phases
    BY DEF Phases
  <2>. QED
    BY <1>1, <1>2, <1>3, <1>4, <1>6, <2>1, <2>2, <2>3, HandlerStep
<1>. QED  BY <1>5, <1>6

LEMMA RulesLoadedKeeps ==
  ASSUME IInv, RulesLoaded
  PROVE  IInv'
<1>. USE DEF RulesLoaded
<1>1. slots \in [Slot -> Nat] /\ OneSlotEach(slots) /\ rules \subseteq Rule
      /\ OneRuleEach(rules) /\ next \in Nat \ {0}
      /\ \A i \in DOMAIN entries : entries[i].pat \in Pattern
  BY DEF IInv, Shape, AllApart
<1>2. /\ rules' \subseteq Rule
      /\ RuleIds(rules') = RuleIds(rules)
      /\ OwnRuleIds(rules') = OwnRuleIds(rules)
      /\ OneRuleEach(rules')
  BY <1>1, PatternsKeepRules
<1>3. MemRefs' = MemRefs
  BY <1>2 DEF MemRefs, Referenced
<1>4. todo' \in Seq(Stores) /\ todo' # <<>> /\ Head(todo') = "matching"
  BY DEF Stores, Owners
<1>5. MatchingFirst'
  BY <1>4 DEF MatchingFirst
<1>6. Apart({}, {}, {}) /\ phase' \in Phases
  BY DEF Apart, Phases
<1>. QED  BY <1>1, <1>2, <1>3, <1>4, <1>5, <1>6, HandlerStep

LEMMA LoadOwnersKeeps ==
  ASSUME IInv, LoadOwners
  PROVE  IInv'
<1>. USE DEF LoadOwners
<1>1. rules' \subseteq rules
  OBVIOUS
<1>2. rules \subseteq Rule /\ OneRuleEach(rules) /\ disk.slots \in [Slot -> Nat]
      /\ OneSlotEach(disk.slots) /\ disk.next \in Nat /\ next \in Nat
      /\ disk.next <= next
  BY DEF IInv, Shape, AllApart, CountersOrdered
<1>3. OneRuleEach(rules') /\ OwnRuleIds(rules') \subseteq OwnRuleIds(rules)
      /\ RuleIds(rules') \subseteq RuleIds(rules)
  BY <1>1, <1>2, FewerRules
<1>4. Below(MemRefs, disk.next)
  BY NothingPending
<1>5. MemRefs' \subseteq MemRefs \cup DiskRefs
  BY <1>3 DEF MemRefs, DiskRefs, Referenced
<1>6. Below(DiskRefs, disk.next) /\ DiskRefs' = DiskRefs
  BY DEF IInv, DiskBelow, Below, DiskRefs
<1>7. Below(MemRefs', disk.next)
  BY <1>4, <1>5, <1>6 DEF Below
<1>8. Shape'
  BY <1>1, <1>2 DEF IInv, Shape, Phases
<1>9. MemBelow' /\ DiskBelow' /\ CountersOrdered' /\ MatchingFirst'
  <2>0. 1..(disk.next - 1) \subseteq 1..(next - 1)
    BY <1>2
  <2>1. MemBelow'
    BY <1>7, <2>0 DEF IInv, MemBelow, Below
  <2>2. DiskBelow' /\ CountersOrdered'
    BY <1>2, <1>6 DEF IInv, DiskBelow, CountersOrdered, Below
  <2>3. MatchingFirst'
    BY <1>7 DEF MatchingFirst, Below
  <2>. QED  BY <2>1, <2>2, <2>3
<1>10. AllApart'
  BY <1>2, <1>3 DEF IInv, AllApart, Apart
<1>. QED  BY <1>8, <1>9, <1>10 DEF IInv

LEMMA LayoutsSyncedKeeps ==
  ASSUME IInv, LayoutsSynced
  PROVE  IInv'
<1>. USE DEF LayoutsSynced
<1>1. <<>> \in Seq(Stores) /\ <<"matching", "rules">> \in Seq(Stores)
  BY DEF Stores, Owners
<1>2. phase' \in Phases /\ owners' = owners /\ todo' \in Seq(Stores)
  BY <1>1 DEF Phases, owners, mem
<1>3. entries' = entries /\ next' = next /\ \A i \in DOMAIN entries : entries[i].pat \in Pattern
  BY DEF mem, IInv, Shape
<1>. QED  BY <1>2, <1>3, OwnersKept

LEMMA SettleKeeps ==
  ASSUME IInv, NEW ws, Settle(ws)
  PROVE  IInv'
<1>. USE DEF Settle
<1>1. \A i \in DOMAIN Collected(entries) : /\ i \in DOMAIN entries
                                           /\ Collected(entries)[i].pat \in Pattern
  BY DEF IInv, Shape, Collected
<1>2. /\ DOMAIN entries' = DOMAIN Collected(entries)
      /\ \A i \in DOMAIN entries' : entries'[i].pat \in Pattern
  BY <1>1, RebindingsKeep
<1>3. todo' \in Seq(Stores) /\ phase' \in Phases
  BY SaveIfChangedType DEF Phases
<1>. QED  BY <1>1, <1>2, <1>3, OwnersKept

(* A geom rule that is added belongs to a layout, so to an entry already    *)
(* referred to.                                                             *)
LEMMA SyncLayoutKeeps ==
  ASSUME IInv, NEW i, SyncLayout(i)
  PROVE  IInv'
<1>. USE DEF SyncLayout
<1>1. slots \in [Slot -> Nat] /\ OneSlotEach(slots) /\ rules \subseteq Rule
      /\ OneRuleEach(rules) /\ \A j \in DOMAIN entries : entries[j].pat \in Pattern
      /\ MemBelow /\ next \in Nat
  BY DEF IInv, Shape, AllApart
<1>2. DOMAIN layouts \subseteq Nat
  BY <1>1 DEF MemBelow, Below, MemRefs, Referenced
<1>3. phase \notin {"down", "repair"} /\ phase \in Phases
  BY DEF IInv, Shape, MatchingFirst
<1>4. phase' \in Phases /\ phase' \notin {"down", "repair"} /\ todo' \in Seq(Stores)
  <2>1. <<"matching", "rules">> \in Seq(Stores) /\ <<>> \in Seq(Stores)
    BY DEF Stores, Owners
  <2>. QED  BY <1>3, <2>1 DEF Phases
<1> DEFINE old == GeomRules(rules, i)
           new == [id |-> i, geom |-> TRUE, pat |-> entries[i].pat]
<1>5. \/ rules' \subseteq rules
      \/ /\ i \in DOMAIN layouts /\ i \in DOMAIN entries
         /\ rules' = (rules \ old) \cup {new}
  BY DEF SyncedRules, Enabled, GeomRules
<1>6. /\ OneRuleEach(rules') /\ OwnRuleIds(rules') \subseteq OwnRuleIds(rules)
      /\ RuleIds(rules') \subseteq RuleIds(rules) \cup DOMAIN layouts /\ rules' \subseteq Rule
  <2>1. CASE rules' \subseteq rules
    BY <1>1, <2>1, FewerRules
  <2>2. CASE /\ i \in DOMAIN layouts /\ i \in DOMAIN entries
             /\ rules' = (rules \ old) \cup {new}
    <3>1. new \in Rule /\ new.id = i /\ new.geom
      BY <1>1, <1>2, <2>2 DEF Rule
    <3>2. \A r \in rules \ old : ~(r.geom /\ r.id = i)
      BY DEF GeomRules
    <3>3. \A r \in rules : r.geom \in BOOLEAN
      BY <1>1 DEF Rule
    <3>. HIDE DEF new, old
    <3>4. OneRuleEach(rules')
      BY <1>1, <2>2, <3>1, <3>2, <3>3 DEF OneRuleEach
    <3>5. OwnRuleIds(rules') \subseteq OwnRuleIds(rules)
      BY <2>2, <3>1 DEF OwnRuleIds
    <3>6. RuleIds(rules') \subseteq RuleIds(rules) \cup DOMAIN layouts
      BY <2>2, <3>1 DEF RuleIds
    <3>7. rules' \subseteq Rule
      BY <1>1, <2>2, <3>1
    <3>. QED  BY <3>4, <3>5, <3>6, <3>7
  <2>. QED  BY <1>5, <2>1, <2>2
<1>7. MemRefs' \subseteq MemRefs
  BY <1>6 DEF MemRefs, Referenced
<1>. HIDE DEF old, new
<1>. QED  BY <1>1, <1>3, <1>4, <1>6, <1>7, ShrinkingStep

-----------------------------------------------------------------------------
(* Handlers that leave every owner as it is                                 *)

LEMMA RebindingHandler ==
  ASSUME IInv, Idle, phase' = phase, disk' = disk, next' = next,
         owners' = owners, NEW ws, entries' \in Rebindings(entries, ws),
         todo' \in Seq(Stores)
  PROVE  IInv'
<1>1. \A i \in DOMAIN entries : entries[i].pat \in Pattern
  BY DEF IInv, Shape
<1>2. DOMAIN entries' = DOMAIN entries
      /\ \A i \in DOMAIN entries' : entries'[i].pat \in Pattern
  BY <1>1, RebindingsKeep
<1>3. phase' \in Phases /\ phase \notin {"down", "repair"} /\ todo = <<>>
  BY DEF Idle, Phases
<1>. QED  BY <1>2, <1>3, OwnersKept

LEMMA BindingHandler ==
  ASSUME IInv, Idle, phase' = phase, disk' = disk, next' = next,
         owners' = owners, NEW i, NEW w, entries' = Bind(entries, i, w),
         todo' \in Seq(Stores)
  PROVE  IInv'
<1>1. \A j \in DOMAIN entries : entries[j].pat \in Pattern
  BY DEF IInv, Shape
<1>2. DOMAIN entries' = DOMAIN entries
      /\ \A j \in DOMAIN entries' : entries'[j].pat \in Pattern
  BY <1>1 DEF Bind
<1>3. phase' \in Phases /\ phase \notin {"down", "repair"} /\ todo = <<>>
  BY DEF Idle, Phases
<1>. QED  BY <1>2, <1>3, OwnersKept

LEMMA WindowOpsKeep ==
  ASSUME IInv, WindowOps
  PROVE  IInv'
<1>1. ASSUME NEW ws \in WindowLists, ClientList(ws)
      PROVE  IInv'
  <2>1. todo' \in Seq(Stores)
    BY <1>1, SaveIfChangedType DEF ClientList
  <2>. QED  BY <1>1, <2>1, RebindingHandler DEF ClientList
<1>2. ASSUME NEW w \in Window, NEW t \in Title, TitleChange(w, t)
      PROVE  IInv'
  <2>1. /\ entries' = entries /\ next' = next /\ owners' = owners /\ todo' = todo
        /\ phase' = phase /\ disk' = disk /\ Idle
    BY <1>2 DEF TitleChange, mem, owners
  <2>2. phase' \in Phases /\ todo' \in Seq(Stores) /\ phase \notin {"down", "repair"}
        /\ todo = <<>> /\ \A i \in DOMAIN entries' : entries'[i].pat \in Pattern
    BY <2>1 DEF IInv, Shape, Idle
  <2>. QED  BY <2>1, <2>2, OwnersKept
<1>3. ASSUME NEW i \in DOMAIN entries, NEW p \in Pattern, EditPattern(i, p)
      PROVE  IInv'
  <2>1. \A j \in DOMAIN entries' : entries'[j].pat \in Pattern
    BY <1>3 DEF EditPattern, Entry, IInv, Shape
  <2>2. DOMAIN entries' = DOMAIN entries /\ owners' = owners
    BY <1>3 DEF EditPattern, owners
  <2>3. todo' \in Seq(Stores)
    <3>1. <<"matching">> \in Seq(Stores) /\ <<"matching", "rules">> \in Seq(Stores)
      BY DEF Stores, Owners
    <3>. QED  BY <1>3, <3>1 DEF EditPattern
  <2>4. phase' \in Phases /\ phase' = phase /\ phase \notin {"down", "repair"}
        /\ todo = <<>> /\ disk' = disk /\ next' = next
    BY <1>3 DEF EditPattern, Idle, Phases
  <2>. QED  BY <2>1, <2>2, <2>3, <2>4, OwnersKept
<1>. QED  BY <1>1, <1>2, <1>3 DEF WindowOps

LEMMA DeleteVictimKeeps ==
  ASSUME IInv, DeleteVictim
  PROVE  IInv'
<1>. USE DEF DeleteVictim
<1>1. \A i \in DOMAIN entries' : i \in DOMAIN entries /\ entries'[i].pat \in Pattern
  BY DEF IInv, Shape, Drop
<1>2. phase' \in Phases /\ phase' \notin {"down", "repair"} /\ phase \notin {"down", "repair"}
  BY DEF IInv, Shape, MatchingFirst
<1>3. todo' \in Seq(Stores) /\ owners' = owners
  BY DEF Stores, owners
<1>. QED  BY <1>1, <1>2, <1>3, OwnersKept

-----------------------------------------------------------------------------
(* The handlers of the owners                                               *)

LEMMA IdleFacts ==
  ASSUME IInv, Idle
  PROVE  /\ phase = "up" /\ todo = <<>> /\ phase \in Phases
         /\ slots \in [Slot -> Nat] /\ OneSlotEach(slots)
         /\ rules \subseteq Rule /\ OneRuleEach(rules)
         /\ next \in Nat \ {0} /\ MemBelow
         /\ \A i \in DOMAIN entries : entries[i].pat \in Pattern
  BY DEF IInv, Shape, AllApart, Idle, Phases

(* Taking the entry of one slot away, with the slot.                        *)
LEMMA ClearedSlot ==
  ASSUME IInv, Idle, NEW s \in Slot, slots' = [slots EXCEPT ![s] = 0],
         entries' = Drop(entries, {slots[s]}), todo' = EntryFirst("slots"),
         UNCHANGED <<wins, phase, next, names, layouts, rules, disk, rest>>
  PROVE  IInv'
<1>. USE IdleFacts
<1>1. slots' \in [Slot -> Nat] /\ OneSlotEach(slots')
      /\ SlotIds(slots') \subseteq SlotIds(slots)
  BY DEF OneSlotEach, SlotIds
<1>2. MemRefs' \subseteq MemRefs
  BY <1>1 DEF MemRefs, Referenced
<1>3. \A i \in DOMAIN entries' : i \in DOMAIN entries /\ entries'[i].pat \in Pattern
  BY DEF Drop
<1>4. todo' \in Seq(Stores)
  BY EntryFirstType DEF Owners
<1>5. OwnRuleIds(rules') = OwnRuleIds(rules)
  OBVIOUS
<1>. QED  BY <1>1, <1>2, <1>3, <1>4, <1>5, ShrinkingStep

LEMMA HarpoonAssignKeeps ==
  ASSUME IInv, Titles, NEW w \in Window, NEW s \in Slot, HarpoonAssign(w, s)
  PROVE  IInv'
<1> DEFINE left == {q \in Slot \ {s} : slots[q] \in MatchingIds(w)}
           kept == Drop(entries, {slots[q] : q \in left \cup {s}})
           rest_of == [q \in Slot |-> IF q \in left THEN 0 ELSE slots[q]]
<1>1. Idle /\ w \in DOMAIN wins
  BY DEF HarpoonAssign
<1>. USE IdleFacts, <1>1
<1>2. \A i \in DOMAIN kept : i \in DOMAIN entries /\ kept[i].pat \in Pattern
  BY DEF Drop
<1>3. rest_of \in [Slot -> Nat] /\ OneSlotEach(rest_of)
      /\ SlotIds(rest_of) \subseteq SlotIds(slots)
  BY DEF OneSlotEach, SlotIds
<1>4. todo' \in Seq(Stores) /\ todo' # <<>> /\ Head(todo') = "matching"
  BY EntryFirstType DEF Owners, HarpoonAssign
<1>5. UNCHANGED <<wins, phase, names, layouts, rules, disk, rest>>
  BY DEF HarpoonAssign
<1>6. CASE /\ entries' = Put(kept, next, Entry(wins[w], w))
           /\ next' = AfterAllocation(next)
           /\ slots' = [rest_of EXCEPT ![s] = next]
  <2>1. next \notin SlotIds(rest_of) /\ next # 0
    BY <1>3 DEF MemBelow, Below, MemRefs, Referenced
  <2>2. \A q \in Slot : rest_of[q] = 0 \/ rest_of[q] \in SlotIds(rest_of)
    BY DEF SlotIds
  <2>. HIDE DEF rest_of
  <2>3. slots' \in [Slot -> Nat]
    BY <1>3, <1>6
  <2>4. SlotIds(slots') \subseteq SlotIds(slots) \cup {next}
    <3>1. \A q \in Slot : slots'[q] = next \/ slots'[q] = rest_of[q]
      BY <1>3, <1>6
    <3>. QED  BY <1>3, <2>2, <3>1 DEF SlotIds
  <2>5. OneSlotEach(slots')
    <3>1. \A q \in Slot : q # s => slots'[q] = rest_of[q] /\ slots'[q] # next
      BY <1>3, <1>6, <2>1, <2>2
    <3>2. slots'[s] = next
      BY <1>3, <1>6
    <3>. QED  BY <1>3, <3>1, <3>2 DEF OneSlotEach
  <2>6. MemRefs' \subseteq MemRefs \cup {next}
    BY <1>5, <2>4 DEF MemRefs, Referenced
  <2>7. wins[w] \in Pattern
    BY DEF Titles, Pattern
  <2>. HIDE DEF kept
  <2>8. \A i \in DOMAIN entries' : i \in DOMAIN entries \cup {next} /\ entries'[i].pat \in Pattern
    BY <1>2, <1>6, <2>7 DEF Put, Entry
  <2>9. {next} \in SUBSET {next} /\ {} \in SUBSET {next} /\ Apart({next}, {}, {})
    BY DEF Apart
  <2>10. OwnRuleIds(rules') = OwnRuleIds(rules)
    BY <1>5
  <2>. QED
    BY <1>4, <1>5, <1>6, <2>3, <2>4, <2>5, <2>6, <2>8, <2>9, <2>10, AllocatingStep
<1>7. CASE entries' = kept /\ slots' = rest_of /\ next' = next
  <2>1. MemRefs' \subseteq MemRefs
    BY <1>3, <1>5, <1>7 DEF MemRefs, Referenced
  <2>. HIDE DEF left, kept, rest_of
  <2>. QED  BY <1>2, <1>3, <1>4, <1>5, <1>7, <2>1, ShrinkingStep
<1>. QED  BY <1>6, <1>7 DEF HarpoonAssign

LEMMA SlotOpsKeep ==
  ASSUME IInv, Titles, SlotOps
  PROVE  IInv'
<1>1. ASSUME NEW w \in Window, NEW s \in Slot, HarpoonToggle(w, s)
      PROVE  IInv'
  BY <1>1, ClearedSlot DEF HarpoonToggle
<1>2. ASSUME NEW s \in Slot, HarpoonDelete(s)
      PROVE  IInv'
  BY <1>2, ClearedSlot DEF HarpoonDelete
<1>3. ASSUME NEW s \in Slot, GetSlotWindow(s)
      PROVE  IInv'
  <2>1. todo' \in Seq(Stores)
    BY <1>3 DEF GetSlotWindow, IInv, Shape
  <2>. QED  BY <1>3, <2>1, RebindingHandler DEF GetSlotWindow
<1>. QED  BY <1>1, <1>2, <1>3, HarpoonAssignKeeps DEF SlotOps

LEMMA NameOpsKeep ==
  ASSUME IInv, Titles, NameOps
  PROVE  IInv'
<1>1. ASSUME NEW w \in Window, NEW i \in names, RenameWindow(w, i)
      PROVE  IInv'
  <2>1. todo' \in Seq(Stores)
    BY <1>1, EntryFirstType DEF RenameWindow, Owners
  <2>. QED  BY <1>1, <2>1, BindingHandler DEF RenameWindow
<1>2. ASSUME NEW w \in Window, NameWindow(w)
      PROVE  IInv'
  <2>. USE <1>2, IdleFacts DEF NameWindow
  <2>1. wins[w] \in Pattern
    BY DEF Titles, Pattern
  <2>2. \A i \in DOMAIN entries' : i \in DOMAIN entries \cup {next} /\ entries'[i].pat \in Pattern
    BY <2>1 DEF Put, Entry
  <2>3. names' \subseteq names \cup {next} /\ (todo' = <<>> => names' = names)
        /\ todo' \in Seq(Stores) /\ (todo' # <<>> => Head(todo') = "matching")
    <3>1. /\ EntryFirst("names") \in Seq(Stores) /\ <<>> \in Seq(Stores)
          /\ EntryFirst("names") # <<>> /\ Head(EntryFirst("names")) = "matching"
      BY EntryFirstType DEF Owners
    <3>2. \/ names' = names \cup {next} /\ todo' = EntryFirst("names")
          \/ names' = names /\ todo' = <<>>
      OBVIOUS
    <3>. QED  BY ONLY <3>1, <3>2
  <2>4. MemRefs' \subseteq MemRefs \cup {next} /\ (todo' = <<>> => MemRefs' \subseteq MemRefs)
    BY <2>3 DEF MemRefs, Referenced
  <2>5. {next} \in SUBSET {next} /\ {} \in SUBSET {next} /\ Apart({}, {next}, {})
    BY DEF Apart
  <2>6. slots' = slots /\ rules' = rules /\ phase' = phase /\ disk' = disk
        /\ next' = AfterAllocation(next) /\ Idle
    OBVIOUS
  <2>. QED  BY <2>2, <2>3, <2>4, <2>5, <2>6, AllocatingStep
<1>3. ASSUME NEW i \in names, NameDelete(i)
      PROVE  IInv'
  <2>. USE <1>3, IdleFacts DEF NameDelete
  <2>1. MemRefs' \subseteq MemRefs
    BY DEF MemRefs, Referenced
  <2>2. todo' \in Seq(Stores)
    BY EntryFirstType DEF Owners
  <2>3. slots' = slots /\ rules' = rules /\ phase' = phase /\ disk' = disk
        /\ next' = next /\ entries' = entries /\ names' \subseteq names
    OBVIOUS
  <2>. QED  BY <2>1, <2>2, <2>3, ShrinkingStep
<1>. QED  BY <1>1, <1>2, <1>3 DEF NameOps

LEMMA RuleOpsKeep ==
  ASSUME IInv, RuleOps
  PROVE  IInv'
<1>1. ASSUME NEW p \in Pattern, AddRule(p)
      PROVE  IInv'
  <2> DEFINE new == [id |-> next, geom |-> FALSE, pat |-> p]
  <2>. USE <1>1, IdleFacts DEF AddRule
  <2>1. \A i \in DOMAIN entries' : i \in DOMAIN entries \cup {next} /\ entries'[i].pat \in Pattern
    BY DEF Put, Entry
  <2>2. new \in Rule /\ new.id = next /\ new.geom = FALSE
    BY DEF Rule
  <2>3. \A r \in rules : r.id # next
    BY DEF MemBelow, Below, MemRefs, Referenced, RuleIds
  <2>. HIDE DEF new
  <2>4. /\ rules' = rules \/ rules' = rules \cup {new}
        /\ todo' = <<>> => rules' = rules
        /\ todo' \in Seq(Stores) /\ (todo' # <<>> => Head(todo') = "matching")
    <3>1. /\ EntryFirst("rules") \in Seq(Stores) /\ <<>> \in Seq(Stores)
          /\ EntryFirst("rules") # <<>> /\ Head(EntryFirst("rules")) = "matching"
      BY EntryFirstType DEF Owners
    <3>2. \/ rules' = rules \cup {new} /\ todo' = EntryFirst("rules")
          \/ rules' = rules /\ todo' = <<>>
      BY DEF new
    <3>. QED  BY ONLY <3>1, <3>2
  <2>5. OneRuleEach(rules') /\ rules' \subseteq Rule
    BY <2>2, <2>3, <2>4 DEF OneRuleEach
  <2>6. OwnRuleIds(rules') \subseteq OwnRuleIds(rules) \cup {next}
    BY <2>2, <2>4 DEF OwnRuleIds
  <2>7. RuleIds(rules') \subseteq RuleIds(rules) \cup {next}
    BY <2>2, <2>4 DEF RuleIds
  <2>8. MemRefs' \subseteq MemRefs \cup {next} /\ (todo' = <<>> => MemRefs' \subseteq MemRefs)
    BY <2>4, <2>7 DEF MemRefs, Referenced
  <2>9. {next} \in SUBSET {next} /\ {} \in SUBSET {next} /\ Apart({}, {}, {next})
    BY DEF Apart
  <2>10. slots' = slots /\ names' = names /\ phase' = phase /\ disk' = disk
        /\ next' = AfterAllocation(next) /\ Idle
    OBVIOUS
  <2>. QED  BY <2>1, <2>4, <2>5, <2>6, <2>8, <2>9, <2>10, AllocatingStep
<1>2. ASSUME NEW r \in rules, RuleDelete(r)
      PROVE  IInv'
  <2>. USE <1>2, IdleFacts DEF RuleDelete
  <2>1. /\ OneRuleEach(rules') /\ OwnRuleIds(rules') \subseteq OwnRuleIds(rules)
        /\ RuleIds(rules') \subseteq RuleIds(rules) /\ rules' \subseteq Rule
    BY FewerRules
  <2>2. MemRefs' \subseteq MemRefs
    BY <2>1 DEF MemRefs, Referenced
  <2>3. todo' \in Seq(Stores)
    BY EntryFirstType DEF Owners
  <2>4. slots' = slots /\ names' = names /\ phase' = phase /\ disk' = disk
        /\ next' = next /\ entries' = entries
    OBVIOUS
  <2>. QED  BY <2>1, <2>2, <2>3, <2>4, ShrinkingStep
<1>. QED  BY <1>1, <1>2 DEF RuleOps

-----------------------------------------------------------------------------
(* Layouts: the entry a new layout takes may be one that nothing refers to, *)
(* and matching.json is saved before layouts.json.                          *)

LEMMA StoredLayout ==
  ASSUME IInv, Idle, NEW N, N = {} \/ N = {next}, NEW i \in DOMAIN entries \cup N,
         NEW ok, StoreLayout(i, ok),
         next' \in Nat, N = {} => next' = next, N # {} => next' = next + 1,
         UNCHANGED <<phase, slots, names, rules, disk>>,
         DOMAIN entries' \subseteq DOMAIN entries \cup N,
         \A j \in DOMAIN entries' : entries'[j].pat \in Pattern
  PROVE  IInv'
<1>. USE IdleFacts
<1>1. DOMAIN layouts' \subseteq DOMAIN layouts \cup {i} /\ (todo' = <<>> => layouts' = layouts)
      /\ todo' \in Seq(Stores) /\ (todo' # <<>> => Head(todo') = "matching")
  <2>1. /\ EntryFirst("layouts") \in Seq(Stores) /\ <<>> \in Seq(Stores)
        /\ EntryFirst("layouts") # <<>> /\ Head(EntryFirst("layouts")) = "matching"
        /\ <<"matching">> \in Seq(Stores) /\ <<"matching">> # <<>>
        /\ Head(<<"matching">>) = "matching"
    BY EntryFirstType DEF Owners, Stores
  <2>2. \/ layouts' = Put(layouts, i, TRUE) /\ todo' \in {EntryFirst("layouts"), <<"matching">>}
        \/ layouts' = layouts /\ todo' = <<>>
    BY DEF StoreLayout
  <2>3. DOMAIN Put(layouts, i, TRUE) = DOMAIN layouts \cup {i}
    BY DEF Put
  <2>. QED  BY ONLY <2>1, <2>2, <2>3
<1>2. MemRefs' \subseteq MemRefs \cup DOMAIN entries \cup N
      /\ (todo' = <<>> => MemRefs' = MemRefs)
  BY <1>1 DEF MemRefs, Referenced
<1>3. Below(MemRefs, disk.next)
  BY NothingPending
<1>4. MatchingFirst'
  BY <1>1, <1>2, <1>3 DEF MatchingFirst, Below
<1>5. {} \in SUBSET N /\ N \subseteq {next} /\ Apart({}, {}, {})
      /\ SlotIds(slots') = SlotIds(slots) /\ OwnRuleIds(rules') = OwnRuleIds(rules)
  BY DEF Apart
<1>. QED  BY <1>1, <1>2, <1>4, <1>5, HandlerStep

LEMMA ForgottenLayout ==
  ASSUME IInv, Idle, NEW i, NEW before \in Seq(Stores), NEW ok,
         ForgetLayout(i, before, ok),
         UNCHANGED <<phase, next, slots, names, disk>>,
         DOMAIN entries' \subseteq DOMAIN entries,
         \A j \in DOMAIN entries' : entries'[j].pat \in Pattern
  PROVE  IInv'
<1>. USE IdleFacts
<1>1. rules' \subseteq rules /\ layouts' = Drop(layouts, {i})
  BY DEF ForgetLayout
<1>2. /\ OneRuleEach(rules') /\ OwnRuleIds(rules') \subseteq OwnRuleIds(rules)
      /\ RuleIds(rules') \subseteq RuleIds(rules) /\ rules' \subseteq Rule
  BY <1>1, FewerRules
<1>3. MemRefs' \subseteq MemRefs
  BY <1>1, <1>2 DEF MemRefs, Referenced, Drop
<1>4. todo' \in Seq(Stores)
  <2>1. OwnerFirst("layouts") \in Seq(Stores) /\ <<>> \in Seq(Stores)
        /\ <<"rules">> \in Seq(Stores)
    BY EntryFirstType DEF Owners, Stores
  <2> DEFINE more == IF rules' = rules THEN <<>> ELSE <<"rules">>
             first == before \o OwnerFirst("layouts")
  <2>2. first \in Seq(Stores) /\ more \in Seq(Stores)
    BY <2>1
  <2>3. todo' = first \o more \/ todo' = before
    BY DEF ForgetLayout
  <2>. HIDE DEF first, more
  <2>4. first \o more \in Seq(Stores)
    BY <2>2
  <2>. QED  BY <2>3, <2>4
<1>. QED  BY <1>2, <1>3, <1>4, ShrinkingStep

LEMMA LayoutOpsKeep ==
  ASSUME IInv, Titles, LayoutOps
  PROVE  IInv'
<1>1. ASSUME NEW ok \in LayoutSaves, NEW w \in Window, NEW i \in DOMAIN entries,
             SaveAdoptedLayout(w, i, ok)
      PROVE  IInv'
  <2>. USE <1>1, IdleFacts DEF SaveAdoptedLayout
  <2>1. DOMAIN entries' = DOMAIN entries
        /\ \A j \in DOMAIN entries' : entries'[j].pat \in Pattern
    BY DEF Bind
  <2>2. StoreLayout(i, ok) /\ i \in DOMAIN entries \cup {} /\ next' = next /\ next' \in Nat
    OBVIOUS
  <2>. QED  BY <2>1, <2>2, StoredLayout
<1>2. ASSUME NEW ok \in LayoutSaves, NEW w \in Window, SaveNewLayout(w, ok)
      PROVE  IInv'
  <2>. USE <1>2, IdleFacts DEF SaveNewLayout
  <2>1. wins[w] \in Pattern
    BY DEF Titles, Pattern
  <2>2. DOMAIN entries' \subseteq DOMAIN entries \cup {next}
        /\ \A j \in DOMAIN entries' : entries'[j].pat \in Pattern
    BY <2>1 DEF Put, Entry
  <2>3. StoreLayout(next, ok) /\ next \in DOMAIN entries \cup {next}
        /\ next' = next + 1 /\ next' \in Nat
    BY DEF AfterAllocation
  <2>. QED  BY <2>2, <2>3, StoredLayout
<1>3. ASSUME NEW ok \in LayoutSaves, NEW w \in Window, ClearLayout(w, ok)
      PROVE  IInv'
  <2> DEFINE saves == SaveIfChanged(entries, entries')
  <2>3. UNCHANGED <<wins, phase, next, slots, names, disk, resync>> /\ Idle
    BY <1>3 DEF ClearLayout
  <2>. USE <1>3, <2>3, IdleFacts
  <2>1. DOMAIN entries' = DOMAIN entries
        /\ \A j \in DOMAIN entries' : entries'[j].pat \in Pattern
    <3>0. \A j \in DOMAIN entries : entries[j].pat \in Pattern
      BY DEF IInv, Shape
    <3>1. CASE entries' = entries
      BY ONLY <3>0, <3>1
    <3>2. CASE entries' \in Rebindings(entries, wins)
      BY ONLY <3>0, <3>2, RebindingsKeep
    <3>. QED  BY <3>1, <3>2 DEF ClearLayout
  <2>2. saves \in Seq(Stores)
    BY SaveIfChangedType
  <2>4. \/ \E i \in DOMAIN layouts : ForgetLayout(i, saves, ok)
        \/ todo' = saves /\ UNCHANGED <<layouts, rules, victim>>
    BY DEF ClearLayout
  <2>. HIDE DEF saves
  <2>5. ASSUME NEW i \in DOMAIN layouts, ForgetLayout(i, saves, ok)
        PROVE  IInv'
    BY <2>1, <2>2, <2>3, <2>5, ForgottenLayout
  <2>6. CASE todo' = saves /\ UNCHANGED <<layouts, rules, victim>>
    <3>1. owners' = owners /\ phase' \in Phases
      BY <2>3, <2>6 DEF owners
    <3>. QED  BY <2>1, <2>2, <2>3, <2>6, <3>1, OwnersKept
  <2>. QED  BY <2>4, <2>5, <2>6
<1>4. ASSUME NEW ok \in LayoutSaves, NEW i \in DOMAIN layouts, DeleteLayout(i, ok)
      PROVE  IInv'
  <2>1. <<>> \in Seq(Stores)
    OBVIOUS
  <2>. QED  BY <1>4, <2>1, IdleFacts, ForgottenLayout DEF DeleteLayout
<1>5. ASSUME NEW ok \in LayoutSaves, NEW i \in DOMAIN layouts, ToggleDisabled(i, ok)
      PROVE  IInv'
  <2>. USE <1>5, IdleFacts DEF ToggleDisabled
  <2>1. MemRefs' = MemRefs /\ OwnRuleIds(rules') = OwnRuleIds(rules)
        /\ SlotIds(slots') = SlotIds(slots)
    BY DEF MemRefs, Referenced
  <2>2. todo' \in Seq(Stores)
    <3>1. <<"layouts">> \in Seq(Stores) /\ <<>> \in Seq(Stores)
      BY DEF Stores, Owners
    <3>2. todo' = <<"layouts">> \/ todo' = <<>>
      OBVIOUS
    <3>. QED  BY ONLY <3>1, <3>2
  <2>3. \A j \in DOMAIN entries' : entries'[j].pat \in Pattern
    OBVIOUS
  <2>. QED  BY <2>1, <2>2, <2>3, ShrinkingStep
<1>6. ASSUME NEW w \in Window, RestoreLayout(w)
      PROVE  IInv'
  <2>1. <<"matching">> \in Seq(Stores)
    BY DEF Stores
  <2>2. CASE todo' = <<"matching">> /\ \E i \in MatchingIds(w) : entries' = Bind(entries, i, w)
    BY <1>6, <2>1, <2>2, BindingHandler DEF RestoreLayout
  <2>3. CASE /\ entries' \in Rebindings(entries, wins)
             /\ todo' = SaveIfChanged(entries, entries')
    BY <1>6, <2>3, SaveIfChangedType, RebindingHandler DEF RestoreLayout
  <2>. QED  BY <1>6, <2>2, <2>3 DEF RestoreLayout
<1>. QED  BY <1>1, <1>2, <1>3, <1>4, <1>5, <1>6 DEF LayoutOps

-----------------------------------------------------------------------------
(* Saves, and what can go wrong.  A file of an owner is only written while  *)
(* the counter in matching.json is above every id in memory.                *)

LEMMA SavedOwner ==
  ASSUME IInv, Below(MemRefs, disk.next), phase \notin {"down", "repair"},
         UNCHANGED <<phase, entries, next, slots, names, layouts, rules, resync, victim>>,
         todo' \in Seq(Stores),
         NEW sl, NEW ns, NEW ls, NEW rs,
         disk' = [pats |-> disk.pats, next |-> disk.next, slots |-> sl,
                  names |-> ns, layouts |-> ls, rules |-> rs],
         sl \in [Slot -> Nat], rs \subseteq Rule, OneSlotEach(sl), OneRuleEach(rs),
         SlotIds(sl) \subseteq SlotIds(slots) \cup SlotIds(disk.slots),
         ns \subseteq names \cup disk.names,
         DOMAIN ls \subseteq DOMAIN layouts \cup DOMAIN disk.layouts,
         RuleIds(rs) \subseteq RuleIds(rules) \cup RuleIds(disk.rules),
         OwnRuleIds(rs) \subseteq OwnRuleIds(rules) \cup OwnRuleIds(disk.rules)
  PROVE  IInv'
<1>1. /\ disk'.pats = disk.pats /\ disk'.next = disk.next /\ disk'.slots = sl
      /\ disk'.names = ns /\ disk'.layouts = ls /\ disk'.rules = rs
  OBVIOUS
<1>2. MemRefs' = MemRefs
  BY DEF MemRefs, Referenced
<1>3. DiskRefs' \subseteq DiskRefs \cup MemRefs
  BY <1>1 DEF DiskRefs, MemRefs, Referenced
<1>4. Shape'
  BY <1>1 DEF IInv, Shape
<1>5. MemBelow' /\ CountersOrdered'
  BY <1>1, <1>2 DEF IInv, MemBelow, CountersOrdered, Below
<1>6. DiskBelow'
  BY <1>1, <1>3 DEF IInv, DiskBelow, Below
<1>7. MatchingFirst'
  BY <1>1, <1>2 DEF MatchingFirst, Below
<1>8. AllApart'
  BY <1>1 DEF IInv, AllApart, Apart
<1>. QED  BY <1>4, <1>5, <1>6, <1>7, <1>8 DEF IInv

LEMMA SavedMatching ==
  ASSUME IInv, phase \notin {"down", "repair"},
         UNCHANGED <<phase, entries, next, slots, names, layouts, rules, resync, victim>>,
         todo' \in Seq(Stores),
         disk' = [pats |-> Patterns(entries), next |-> next, slots |-> disk.slots,
                  names |-> disk.names, layouts |-> disk.layouts, rules |-> disk.rules]
  PROVE  IInv'
<1>1. /\ disk'.pats = Patterns(entries) /\ disk'.next = next /\ disk'.slots = disk.slots
      /\ disk'.names = disk.names /\ disk'.layouts = disk.layouts
      /\ disk'.rules = disk.rules
  OBVIOUS
<1>2. MemRefs' = MemRefs /\ DiskRefs' = DiskRefs
  BY <1>1 DEF MemRefs, DiskRefs, Referenced
<1>3. Shape'
  BY <1>1 DEF IInv, Shape, Patterns
<1>4. disk.next <= next /\ disk.next \in Nat /\ next \in Nat
  BY DEF IInv, Shape, CountersOrdered
<1>5. MemBelow' /\ CountersOrdered'
  BY <1>1, <1>2, <1>4 DEF IInv, MemBelow, CountersOrdered, Below
<1>6. DiskBelow'
  <2>1. Below(DiskRefs, next)
    BY <1>4 DEF IInv, DiskBelow, Below
  <2>2. Below(DOMAIN entries, next)
    BY DEF IInv, MemBelow, Below
  <2>3. DOMAIN Patterns(entries) = DOMAIN entries
    BY DEF Patterns
  <2>. QED  BY <1>1, <1>2, <2>1, <2>2, <2>3 DEF DiskBelow, Below
<1>7. MatchingFirst'
  BY <1>1, <1>2 DEF IInv, MemBelow, MatchingFirst, Below
<1>8. AllApart'
  BY <1>1 DEF IInv, AllApart, Apart
<1>. QED  BY <1>3, <1>5, <1>6, <1>7, <1>8 DEF IInv

LEMMA SaveKeeps ==
  ASSUME IInv, Save
  PROVE  IInv'
<1>1. todo \in Seq(Stores) /\ todo # <<>> /\ Head(todo) \in Stores
      /\ todo' \in Seq(Stores) /\ disk' = WithFile(Head(todo))
  BY DEF Save, IInv, Shape
<1>2. phase \notin {"down", "repair"}
  BY <1>1 DEF IInv, MatchingFirst
<1>3. UNCHANGED <<phase, entries, next, slots, names, layouts, rules, resync, victim>>
  BY DEF Save, mem, rest
<1>4. disk = [pats |-> disk.pats, next |-> disk.next, slots |-> disk.slots,
              names |-> disk.names, layouts |-> disk.layouts, rules |-> disk.rules]
  BY DEF IInv, Shape
<1>5. /\ slots \in [Slot -> Nat] /\ disk.slots \in [Slot -> Nat]
      /\ rules \subseteq Rule /\ disk.rules \subseteq Rule
      /\ OneSlotEach(slots) /\ OneSlotEach(disk.slots)
      /\ OneRuleEach(rules) /\ OneRuleEach(disk.rules)
      /\ \A i \in DOMAIN entries : entries[i].pat \in Pattern
  BY DEF IInv, Shape, AllApart
<1>6. CASE Head(todo) = "matching"
  <2>1. disk' = [pats |-> Patterns(entries), next |-> next, slots |-> disk.slots,
                 names |-> disk.names, layouts |-> disk.layouts, rules |-> disk.rules]
    BY <1>1, <1>4, <1>6 DEF WithFile
  <2>. QED  BY <1>1, <1>2, <1>3, <2>1, SavedMatching
<1>7. CASE Head(todo) \in Owners
  <2>1. Below(MemRefs, disk.next)
    BY <1>2, <1>7 DEF IInv, MatchingFirst, Owners
  <2>2. CASE Head(todo) = "slots"
    <3>1. disk' = [pats |-> disk.pats, next |-> disk.next, slots |-> slots,
                   names |-> disk.names, layouts |-> disk.layouts, rules |-> disk.rules]
      BY <1>1, <1>4, <2>2 DEF WithFile
    <3>. QED  BY <1>1, <1>2, <1>3, <1>5, <2>1, <3>1, SavedOwner
  <2>3. CASE Head(todo) = "names"
    <3>1. disk' = [pats |-> disk.pats, next |-> disk.next, slots |-> disk.slots,
                   names |-> names, layouts |-> disk.layouts, rules |-> disk.rules]
      BY <1>1, <1>4, <2>3 DEF WithFile
    <3>. QED  BY <1>1, <1>2, <1>3, <1>5, <2>1, <3>1, SavedOwner
  <2>4. CASE Head(todo) = "layouts"
    <3>1. disk' = [pats |-> disk.pats, next |-> disk.next, slots |-> disk.slots,
                   names |-> disk.names, layouts |-> layouts, rules |-> disk.rules]
      BY <1>1, <1>4, <2>4 DEF WithFile
    <3>. QED  BY <1>1, <1>2, <1>3, <1>5, <2>1, <3>1, SavedOwner
  <2>5. CASE Head(todo) = "rules"
    <3> DEFINE rs == WithPatterns(rules, entries)
    <3>1. disk' = [pats |-> disk.pats, next |-> disk.next, slots |-> disk.slots,
                   names |-> disk.names, layouts |-> disk.layouts, rules |-> rs]
      BY <1>1, <1>4, <2>5 DEF WithFile
    <3>2. /\ rs \subseteq Rule /\ OneRuleEach(rs)
          /\ RuleIds(rs) = RuleIds(rules) /\ OwnRuleIds(rs) = OwnRuleIds(rules)
      BY <1>5, PatternsKeepRules
    <3>. HIDE DEF rs
    <3>. QED  BY <1>1, <1>2, <1>3, <1>5, <2>1, <3>1, <3>2, SavedOwner
  <2>. QED  BY <1>7, <2>2, <2>3, <2>4, <2>5 DEF Owners
<1>. QED  BY <1>1, <1>6, <1>7 DEF Stores

LEMMA SaveFailsKeeps ==
  ASSUME MatchingReliable, IInv, SaveFails
  PROVE  IInv'
<1>1. todo # <<>> /\ Head(todo) # "matching" /\ todo' \in Seq(Stores)
  BY DEF SaveFails, MatchingReliable, IInv, Shape
<1>2. phase \notin {"down", "repair"} /\ Below(MemRefs, disk.next)
  BY <1>1 DEF IInv, MatchingFirst
<1>3. UNCHANGED <<phase, entries, next, slots, names, layouts, rules, disk, resync, victim>>
  BY DEF SaveFails, mem, rest
<1>4. MemRefs' = MemRefs /\ DiskRefs' = DiskRefs
  BY <1>3 DEF MemRefs, DiskRefs, Referenced
<1>5. MatchingFirst'
  BY <1>2, <1>3, <1>4 DEF MatchingFirst, Below
<1>6. Shape'
  BY <1>1, <1>3, <1>4 DEF IInv, Shape
<1>7. MemBelow' /\ DiskBelow' /\ CountersOrdered' /\ AllApart'
  BY <1>3, <1>4 DEF IInv, MemBelow, DiskBelow, CountersOrdered, AllApart, Below
<1>. QED  BY <1>5, <1>6, <1>7 DEF IInv

LEMMA StopKeeps ==
  ASSUME IInv, Stop
  PROVE  IInv'
<1>. USE DEF Stop, Forgotten
<1>1. SlotIds(slots') = {} /\ slots' \in [Slot -> Nat] /\ OneSlotEach(slots')
  BY DEF SlotIds, EmptySlots, OneSlotEach
<1>2. DOMAIN layouts' = {} /\ DOMAIN entries' = {} /\ names' = {} /\ rules' = {}
  BY DEF Nothing
<1>3. MemRefs' = {} /\ DiskRefs' = DiskRefs
  BY <1>1, <1>2 DEF MemRefs, DiskRefs, Referenced, RuleIds
<1>4. Shape'
  BY <1>1, <1>2, <1>3 DEF IInv, Shape, Phases
<1>5. MemBelow' /\ DiskBelow' /\ CountersOrdered'
  BY <1>2, <1>3 DEF IInv, MemBelow, DiskBelow, CountersOrdered, Below
<1>6. MatchingFirst'
  BY DEF MatchingFirst
<1>7. AllApart'
  BY <1>1, <1>2 DEF IInv, AllApart, Apart, OneRuleEach, OwnRuleIds
<1>. QED  BY <1>4, <1>5, <1>6, <1>7 DEF IInv

LEMMA UnreadableKeeps ==
  ASSUME MatchingReliable, ConstantsAssumption, IInv, NEW s \in LossyStores, Unreadable(s)
  PROVE  IInv'
<1>. USE DEF Unreadable
<1>1. s \in Owners
  BY DEF ConstantsAssumption, MatchingReliable, Stores
<1>2. UNCHANGED <<phase, entries, next, slots, names, layouts, rules, todo, resync, victim>>
  BY DEF mem, rest
<1>3. disk = [pats |-> disk.pats, next |-> disk.next, slots |-> disk.slots,
              names |-> disk.names, layouts |-> disk.layouts, rules |-> disk.rules]
  BY DEF IInv, Shape
<1>4. /\ disk'.pats = disk.pats /\ disk'.next = disk.next
      /\ disk'.slots \in {disk.slots, EmptySlots} /\ disk'.names \subseteq disk.names
      /\ disk'.layouts \in {disk.layouts, Nothing} /\ disk'.rules \subseteq disk.rules
      /\ disk' = [pats |-> disk'.pats, next |-> disk'.next, slots |-> disk'.slots,
                  names |-> disk'.names, layouts |-> disk'.layouts,
                  rules |-> disk'.rules]
  BY <1>1, <1>3 DEF WithoutFile, Owners
<1>5. SlotIds(EmptySlots) = {} /\ EmptySlots \in [Slot -> Nat] /\ OneSlotEach(EmptySlots)
      /\ DOMAIN Nothing = {}
  BY DEF SlotIds, EmptySlots, OneSlotEach, Nothing
<1>6. /\ OneRuleEach(disk'.rules) /\ OwnRuleIds(disk'.rules) \subseteq OwnRuleIds(disk.rules)
      /\ RuleIds(disk'.rules) \subseteq RuleIds(disk.rules)
  BY <1>4, FewerRules DEF IInv, AllApart
<1>7. MemRefs' = MemRefs /\ DiskRefs' \subseteq DiskRefs
  BY <1>2, <1>4, <1>5, <1>6 DEF MemRefs, DiskRefs, Referenced
<1>8. Shape'
  BY <1>2, <1>4, <1>5, <1>7 DEF IInv, Shape
<1>9. MemBelow' /\ DiskBelow' /\ CountersOrdered' /\ MatchingFirst'
  BY <1>2, <1>4, <1>7 DEF IInv, MemBelow, DiskBelow, CountersOrdered, MatchingFirst, Below
<1>10. AllApart'
  BY <1>2, <1>4, <1>5, <1>6 DEF IInv, AllApart, Apart
<1>. QED  BY <1>8, <1>9, <1>10 DEF IInv

-----------------------------------------------------------------------------
(* The invariant holds in every reachable state                             *)

LEMMA TitlesKept ==
  ASSUME Titles, [Next]_vars
  PROVE  Titles'
<1>1. ASSUME NEW ws \in WindowLists, wins' = ws
      PROVE  Titles'
  BY <1>1 DEF Titles, WindowLists
<1>2. ASSUME NEW w, NEW t \in Title, wins' = [wins EXCEPT ![w] = t]
      PROVE  Titles'
  BY <1>2 DEF Titles
<1>3. ASSUME wins' = Nothing
      PROVE  Titles'
  BY <1>3 DEF Titles, Nothing
<1>4. ASSUME wins' = wins
      PROVE  Titles'
  BY <1>4 DEF Titles
<1>5. CASE Start
  BY <1>1, <1>4, <1>5 DEF Start, LoadMatching, RepairRule, RulesLoaded, LoadOwners,
     LayoutsSynced, Settle
<1>6. CASE WindowOps
  BY <1>1, <1>2, <1>4, <1>6 DEF WindowOps, ClientList, TitleChange, EditPattern
<1>7. CASE SlotOps
  BY <1>4, <1>7 DEF SlotOps, HarpoonToggle, HarpoonAssign, HarpoonDelete, GetSlotWindow
<1>8. CASE NameOps \/ RuleOps
  BY <1>4, <1>8 DEF NameOps, RenameWindow, NameWindow, NameDelete, RuleOps, AddRule,
     RuleDelete
<1>9. CASE LayoutOps
  BY <1>4, <1>9 DEF LayoutOps, SaveAdoptedLayout, SaveNewLayout, ClearLayout,
     DeleteLayout, ToggleDisabled, RestoreLayout
<1>10. CASE Save \/ (\E i \in resync : SyncLayout(i)) \/ DeleteVictim
  BY <1>4, <1>10 DEF Save, SyncLayout, DeleteVictim
<1>11. CASE Faults
  BY <1>3, <1>4, <1>11 DEF Faults, SaveFails, Stop, Forgotten, Unreadable
<1>12. CASE UNCHANGED vars
  BY <1>4, <1>12 DEF vars
<1>. QED
  BY <1>5, <1>6, <1>7, <1>8, <1>9, <1>10, <1>11, <1>12 DEF Next

LEMMA NextKeeps ==
  ASSUME MatchingReliable, ConstantsAssumption, IInv, Titles, [Next]_vars
  PROVE  IInv'
<1>1. CASE Start
  BY <1>1, LoadMatchingKeeps, RepairRuleKeeps, RulesLoadedKeeps, LoadOwnersKeeps,
     LayoutsSyncedKeeps, SettleKeeps DEF Start
<1>2. CASE WindowOps \/ SlotOps \/ NameOps \/ RuleOps \/ LayoutOps
  BY <1>2, WindowOpsKeep, SlotOpsKeep, NameOpsKeep, RuleOpsKeep, LayoutOpsKeep
<1>3. CASE Save \/ (\E i \in resync : SyncLayout(i)) \/ DeleteVictim
  BY <1>3, SaveKeeps, SyncLayoutKeeps, DeleteVictimKeeps
<1>4. CASE Faults
  BY <1>4, SaveFailsKeeps, StopKeeps, UnreadableKeeps DEF Faults
<1>5. CASE UNCHANGED vars
  BY <1>5 DEF vars, IInv, Shape, MemBelow, DiskBelow, CountersOrdered, MatchingFirst,
     AllApart, MemRefs, DiskRefs, Referenced, Below
<1>. QED  BY <1>1, <1>2, <1>3, <1>4, <1>5 DEF Next

(* While matching.json can be written and read, every id in use is below    *)
(* the counter of its file, save for ids a handler is about to record.      *)
THEOREM InductiveInvariant == MatchingReliable /\ Spec => [](IInv /\ Titles)
<1>1. Init => IInv /\ Titles
  BY InitInv DEF Init, Titles, Nothing
<1>2. MatchingReliable /\ ConstantsAssumption /\ IInv /\ Titles /\ [Next]_vars
        => (IInv /\ Titles)'
  BY NextKeeps, TitlesKept
<1>3. CASE MatchingReliable
  <2>1. IInv /\ Titles /\ [Next]_vars => (IInv /\ Titles)'
    BY <1>2, <1>3, ConstantsAssumption
  <2>. QED  BY <1>1, <2>1, PTL DEF Spec
<1>. QED  BY <1>3

-----------------------------------------------------------------------------
(* No two of slot, name and user rule ever have the same entry, in memory   *)
(* or in the files a crash leaves behind.                                   *)
THEOREM ExclusiveOwners == MatchingReliable /\ Spec => []Exclusive
<1>1. IInv => Exclusive
  BY DEF IInv, AllApart, Exclusive, Distinct, Apart
<1>. QED  BY <1>1, InductiveInvariant, PTL

(* While the process runs, only the next id is given to a new entry.        *)
LEMMA NewEntryId ==
  ASSUME IInv, [Next]_vars, phase # "down", NEW i \in DOMAIN entries' \ DOMAIN entries
  PROVE  i = next
<1>1. ASSUME NEW es, NEW p, NEW w, DOMAIN es \subseteq DOMAIN entries,
             entries' = Put(es, next, Entry(p, w))
      PROVE  i = next
  BY <1>1 DEF Put
<1>2. ASSUME NEW S, entries' = Drop(entries, S)
      PROVE  FALSE
  BY <1>2 DEF Drop
<1>3. ASSUME NEW j, NEW w, entries' = Bind(entries, j, w)
      PROVE  FALSE
  BY <1>3 DEF Bind
<1>4. ASSUME NEW es, NEW ws, entries' \in Rebindings(es, ws), DOMAIN es \subseteq DOMAIN entries
      PROVE  FALSE
  BY <1>4 DEF Rebindings
<1>5. ASSUME entries' = entries
      PROVE  FALSE
  BY <1>5
<1>6. CASE Start
  <2>1. DOMAIN Collected(entries) \subseteq DOMAIN entries
    BY DEF Collected
  <2>. QED
    BY <1>1, <1>4, <1>5, <1>6, <2>1 DEF Start, LoadMatching, RepairRule, RulesLoaded,
       LoadOwners, LayoutsSynced, Settle, mem
<1>7. CASE WindowOps
  <2>1. ASSUME NEW j, NEW e, entries' = [entries EXCEPT ![j] = e]
        PROVE  FALSE
    BY <2>1
  <2>. QED  BY <1>4, <1>5, <1>7, <2>1 DEF WindowOps, ClientList, TitleChange, EditPattern, mem
<1>8. CASE SlotOps
  <2>1. ASSUME NEW w, NEW s, HarpoonAssign(w, s)
        PROVE  i = next
    <3>1. \A S : DOMAIN Drop(entries, S) \subseteq DOMAIN entries
      BY DEF Drop
    <3>. QED  BY <1>1, <1>2, <2>1, <3>1 DEF HarpoonAssign
  <2>. QED
    BY <1>2, <1>4, <1>8, <2>1 DEF SlotOps, HarpoonToggle, HarpoonDelete, GetSlotWindow
<1>9. CASE NameOps \/ RuleOps
  BY <1>1, <1>3, <1>5, <1>9 DEF NameOps, RenameWindow, NameWindow, NameDelete, RuleOps,
     AddRule, RuleDelete
<1>10. CASE LayoutOps
  <2>1. ASSUME NEW w, NEW ok, ClearLayout(w, ok)
        PROVE  FALSE
    BY <1>4, <1>5, <2>1 DEF ClearLayout
  <2>. QED
    BY <1>1, <1>3, <1>4, <1>5, <1>10, <2>1 DEF LayoutOps, SaveAdoptedLayout,
       SaveNewLayout, DeleteLayout, ToggleDisabled, RestoreLayout
<1>11. CASE Save \/ (\E j \in resync : SyncLayout(j)) \/ DeleteVictim
  BY <1>2, <1>5, <1>11 DEF Save, SyncLayout, DeleteVictim, mem
<1>12. CASE Faults
  <2>1. ASSUME entries' = Nothing
        PROVE  FALSE
    BY <2>1 DEF Nothing
  <2>. QED  BY <1>5, <1>12, <2>1 DEF Faults, SaveFails, Stop, Forgotten, Unreadable, mem
<1>13. CASE UNCHANGED vars
  BY <1>5, <1>13 DEF vars
<1>. QED
  BY <1>6, <1>7, <1>8, <1>9, <1>10, <1>11, <1>12, <1>13 DEF Next

LEMMA NextIsFresh ==
  ASSUME IInv, phase # "down"
  PROVE  /\ next \notin MemRefs \cup DiskRefs \cup DOMAIN disk.pats
         /\ next >= disk.next
  BY DEF IInv, Shape, MemBelow, DiskBelow, CountersOrdered, Below

(* The entry a handler or the repair of a rule creates has an id that       *)
(* nothing refers to, in memory or in a file.                               *)
THEOREM NewIdsAreFresh == MatchingReliable /\ Spec => FreshIds
<1> DEFINE Fresh == \A i \in DOMAIN entries' \ DOMAIN entries :
               phase # "down" => i \notin MemRefs \cup DiskRefs \cup DOMAIN disk.pats
<1>1. IInv /\ [Next]_vars => Fresh
  BY NewEntryId, NextIsFresh
<1>2. IInv /\ [Next]_vars => [Fresh]_vars
  BY <1>1
<1>. HIDE DEF Fresh
<1>3. MatchingReliable /\ Spec => [][Fresh]_vars
  BY <1>2, InductiveInvariant, PTL DEF Spec
<1>. QED  BY <1>3 DEF Fresh, FreshIds

(* An id that was ever recorded in matching.json is never handed out again. *)
THEOREM IdsAreNeverReused == MatchingReliable /\ Spec => NeverReused
<1> DEFINE New == /\ disk'.next >= disk.next
                  /\ \A i \in DOMAIN entries' \ DOMAIN entries :
                        phase # "down" => i >= disk.next
<1>1. ASSUME MatchingReliable, ConstantsAssumption, IInv, [Next]_vars
      PROVE  disk'.next >= disk.next
  <2>1. disk.next \in Nat /\ next \in Nat
    BY <1>1 DEF IInv, Shape
  <2>2. CASE Save
    <3>1. todo # <<>> /\ Head(todo) \in Stores
      BY <1>1, <2>2 DEF Save, IInv, Shape
    <3>2. phase # "down"
      BY <1>1, <3>1 DEF IInv, MatchingFirst
    <3>3. disk = [pats |-> disk.pats, next |-> disk.next, slots |-> disk.slots,
                  names |-> disk.names, layouts |-> disk.layouts, rules |-> disk.rules]
      BY <1>1 DEF IInv, Shape
    <3>4. disk'.next \in {next, disk.next}
      BY <2>2, <3>1, <3>3 DEF Save, WithFile, Stores, Owners
    <3>. QED  BY <1>1, <2>1, <3>2, <3>4 DEF IInv, CountersOrdered
  <2>3. ASSUME NEW s \in LossyStores, Unreadable(s)
        PROVE  disk'.next = disk.next
    <3>1. s \in Owners
      BY <1>1 DEF ConstantsAssumption, MatchingReliable, Stores
    <3>2. disk = [pats |-> disk.pats, next |-> disk.next, slots |-> disk.slots,
                  names |-> disk.names, layouts |-> disk.layouts, rules |-> disk.rules]
      BY <1>1 DEF IInv, Shape
    <3>. QED  BY <2>3, <3>1, <3>2 DEF Unreadable, WithoutFile, Owners
  <2>4. ASSUME disk' = disk
        PROVE  disk'.next >= disk.next
    BY <2>1, <2>4
  <2>5. CASE Start
    BY <2>4, <2>5 DEF Start, LoadMatching, RepairRule, RulesLoaded, LoadOwners,
       LayoutsSynced, Settle
  <2>6. CASE WindowOps \/ SlotOps
    BY <2>4, <2>6 DEF WindowOps, ClientList, TitleChange, EditPattern, SlotOps,
       HarpoonToggle, HarpoonAssign, HarpoonDelete, GetSlotWindow
  <2>7. CASE NameOps \/ RuleOps
    BY <2>4, <2>7 DEF NameOps, RenameWindow, NameWindow, NameDelete, RuleOps, AddRule,
       RuleDelete
  <2>8. CASE LayoutOps
    BY <2>4, <2>8 DEF LayoutOps, SaveAdoptedLayout, SaveNewLayout, ClearLayout,
       DeleteLayout, ToggleDisabled, RestoreLayout
  <2>9. CASE (\E i \in resync : SyncLayout(i)) \/ DeleteVictim
    BY <2>4, <2>9 DEF SyncLayout, DeleteVictim
  <2>10. CASE Faults
    BY <2>1, <2>3, <2>4, <2>10 DEF Faults, SaveFails, Stop
  <2>11. CASE UNCHANGED vars
    BY <2>4, <2>11 DEF vars
  <2>. QED
    BY <1>1, <2>2, <2>5, <2>6, <2>7, <2>8, <2>9, <2>10, <2>11 DEF Next
<1>2. MatchingReliable /\ ConstantsAssumption /\ IInv /\ [Next]_vars => [New]_vars
  BY <1>1, NewEntryId, NextIsFresh
<1>. HIDE DEF New
<1>3. CASE MatchingReliable
  <2>1. IInv /\ [Next]_vars => [New]_vars
    BY <1>2, <1>3, ConstantsAssumption
  <2>2. Spec => [][New]_vars
    BY <1>3, <2>1, InductiveInvariant, PTL DEF Spec
  <2>. QED  BY <2>2 DEF New, NeverReused
<1>. QED  BY <1>3
-----------------------------------------------------------------------------
(* Names and rules resolve: what the files and the memory hold of them      *)

(* The files of names and rules can be written, and no layout takes the     *)
(* entry of another owner.  They may be unreadable at a start.              *)
OwnersReliable ==
    /\ MatchingReliable
    /\ {"names", "rules"} \cap FailableStores = {}
    /\ "layouts" \notin Features

Unsaved(s) == \E k \in DOMAIN todo : todo[k] = s
SaveLists == {<<>>} \cup {<<s>> : s \in Stores} \cup {<<"matching", o>> : o \in Owners}

NoLayouts ==
    /\ layouts = Nothing /\ disk.layouts = Nothing /\ resync = {}
    /\ \A r \in rules \cup disk.rules : ~r.geom

Resolving == names \cup RuleIds(rules)
ResolvingOnDisk == disk.names \cup RuleIds(disk.rules)

(* Names and rules have their entries, in memory and in the files; a file   *)
(* that no save is due for names the same entries as the memory; and the    *)
(* entry that is about to be deleted has no owner left in memory.           *)
ResolvesInMemory == phase # "down" => Resolving \cup ResolvingOnDisk \subseteq DOMAIN entries
ResolvesOnDisk == ResolvingOnDisk \subseteq DOMAIN disk.pats
EntriesFirst ==
    \/ Resolving \subseteq DOMAIN disk.pats
    \/ todo # <<>> /\ Head(todo) = "matching"
OwnersSaved ==
    phase # "down" =>
        /\ Unsaved("names") \/ disk.names = names
        /\ Unsaved("rules") \/ RuleIds(disk.rules) = RuleIds(rules)
VictimUnowned == victim \notin Resolving

RInv ==
    /\ todo \in SaveLists
    /\ NoLayouts
    /\ ResolvesInMemory /\ ResolvesOnDisk /\ EntriesFirst /\ OwnersSaved /\ VictimUnowned

(* Which saves a list holds, and what is left of it after the first.        *)
LEMMA SaveListItems ==
  ASSUME NEW s, NEW o
  PROVE  /\ todo = <<>> => ~Unsaved(s)
         /\ todo = <<o>> => (Unsaved(s) <=> s = o)
         /\ todo = <<"matching", o>> => (Unsaved(s) <=> s = "matching" \/ s = o)
<1>1. todo = <<>> => ~Unsaved(s)
  BY DEF Unsaved
<1>2. todo = <<o>> => (Unsaved(s) <=> s = o)
  BY DEF Unsaved
<1>3. ASSUME todo = <<"matching", o>>
      PROVE  Unsaved(s) <=> s = "matching" \/ s = o
  <2>1. DOMAIN todo = {1, 2} /\ todo[1] = "matching" /\ todo[2] = o
    BY <1>3
  <2>. QED  BY <2>1 DEF Unsaved
<1>. QED  BY <1>1, <1>2, <1>3

LEMMA SaveListsHold ==
  /\ <<>> \in SaveLists
  /\ \A s \in Stores : <<s>> \in SaveLists
  /\ \A o \in Owners : <<"matching", o>> \in SaveLists
  BY DEF SaveLists

LEMMA FirstSave ==
  ASSUME todo \in SaveLists, todo # <<>>
  PROVE  \/ todo = <<Head(todo)>> /\ Tail(todo) = <<>> /\ Head(todo) \in Stores
         \/ /\ Head(todo) = "matching"
            /\ \E o \in Owners : todo = <<"matching", o>> /\ Tail(todo) = <<o>>
<1>1. CASE \E s \in Stores : todo = <<s>>
  BY <1>1
<1>2. CASE \E o \in Owners : todo = <<"matching", o>>
  BY <1>2
<1>. QED  BY <1>1, <1>2 DEF SaveLists

(* A handler, or a step of the start, that keeps the entries of every name  *)
(* and rule and saves what it changed of them.                              *)
LEMMA ResolvingStep ==
  ASSUME RInv, todo = <<>>, phase # "down", phase' # "down", disk' = disk,
         layouts' = Nothing, resync' = {}, \A r \in rules' : ~r.geom,
         todo' \in SaveLists, EntriesFirst', VictimUnowned',
         Resolving' \cup ResolvingOnDisk \subseteq DOMAIN entries',
         names' = names \/ Unsaved("names")',
         RuleIds(rules') = RuleIds(rules) \/ Unsaved("rules")'
  PROVE  RInv'
<1>1. ResolvingOnDisk' = ResolvingOnDisk
  BY DEF ResolvingOnDisk
<1>2. NoLayouts'
  BY DEF RInv, NoLayouts
<1>3. ResolvesInMemory' /\ ResolvesOnDisk'
  BY <1>1 DEF RInv, ResolvesInMemory, ResolvesOnDisk
<1>4. ~Unsaved("names") /\ ~Unsaved("rules")
  BY SaveListItems
<1>5. OwnersSaved'
  <2>1. disk.names = names /\ RuleIds(disk.rules) = RuleIds(rules)
    BY <1>4 DEF RInv, OwnersSaved
  <2>. QED  BY <2>1 DEF OwnersSaved
<1>. QED  BY <1>2, <1>3, <1>5 DEF RInv

(* The names and the rules stay as they are.                                *)
LEMMA NamesAndRulesKept ==
  ASSUME RInv, todo = <<>>, phase # "down", phase' # "down", disk' = disk,
         names' = names, rules' = rules, layouts' = layouts, resync' = resync,
         victim' = victim, todo' \in SaveLists,
         Resolving \cup ResolvingOnDisk \subseteq DOMAIN entries'
  PROVE  RInv'
<1>1. Resolving' = Resolving /\ RuleIds(rules') = RuleIds(rules)
  BY DEF Resolving
<1>2. layouts' = Nothing /\ resync' = {} /\ \A r \in rules' : ~r.geom
  BY DEF RInv, NoLayouts
<1>3. EntriesFirst' /\ VictimUnowned'
  BY <1>1 DEF RInv, EntriesFirst, VictimUnowned
<1>. QED  BY <1>1, <1>2, <1>3, ResolvingStep

LEMMA EntriesKept ==
  ASSUME RInv, todo = <<>>, phase # "down", phase' # "down", disk' = disk,
         names' = names, rules' = rules, layouts' = layouts, resync' = resync,
         victim' = victim, todo' \in SaveLists, DOMAIN entries \subseteq DOMAIN entries'
  PROVE  RInv'
<1>1. Resolving \cup ResolvingOnDisk \subseteq DOMAIN entries'
  BY DEF RInv, ResolvesInMemory
<1>. QED  BY <1>1, NamesAndRulesKept

(* The entry of a slot belongs to no name and no rule.                      *)
LEMMA SlotsApart ==
  ASSUME IInv, RInv, NEW s \in Slot
  PROVE  slots[s] \notin Resolving \cup ResolvingOnDisk
<1>1. OwnRuleIds(rules) = RuleIds(rules) /\ OwnRuleIds(disk.rules) = RuleIds(disk.rules)
  BY DEF OwnRuleIds, RuleIds, RInv, NoLayouts
<1>2. 0 \notin Resolving \cup ResolvingOnDisk
  <2>1. Resolving \subseteq MemRefs /\ ResolvingOnDisk \subseteq DiskRefs
    BY DEF Resolving, ResolvingOnDisk, MemRefs, DiskRefs, Referenced
  <2>2. 0 \notin MemRefs /\ 0 \notin DiskRefs
    BY DEF IInv, Shape, MemBelow, DiskBelow, Below
  <2>. QED  BY <2>1, <2>2
<1>3. CASE slots[s] # 0
  <2>1. slots[s] \in SlotIds(slots)
    BY <1>3 DEF SlotIds
  <2>. QED  BY <1>1, <2>1 DEF IInv, AllApart, Apart, Resolving, ResolvingOnDisk
<1>. QED  BY <1>2, <1>3
-----------------------------------------------------------------------------
(* Every step keeps it: the start                                           *)

LEMMA InitResolves ==
  ASSUME Init
  PROVE  RInv
<1>1. Resolving = {} /\ ResolvingOnDisk = {}
  BY DEF Init, Resolving, ResolvingOnDisk, RuleIds
<1>2. todo \in SaveLists /\ NoLayouts
  BY SaveListsHold DEF Init, NoLayouts
<1>. QED
  BY <1>1, <1>2 DEF Init, RInv, ResolvesInMemory, ResolvesOnDisk, EntriesFirst,
     OwnersSaved, VictimUnowned

LEMMA LoadMatchingResolves ==
  ASSUME IInv, IInv', RInv, LoadMatching
  PROVE  RInv'
<1>. USE DEF LoadMatching
<1>1. victim = 0 /\ todo = <<>> /\ resync = {}
  BY DEF IInv, MatchingFirst
<1>2. Resolving' = ResolvingOnDisk /\ ResolvingOnDisk' = ResolvingOnDisk
      /\ DOMAIN entries' = DOMAIN disk.pats
  BY DEF Resolving, ResolvingOnDisk
<1>3. NoLayouts'
  BY <1>1 DEF RInv, NoLayouts, rest
<1>4. ResolvingOnDisk \subseteq DOMAIN disk.pats
  BY DEF RInv, ResolvesOnDisk
<1>5. VictimUnowned'
  <2>1. 0 \notin DiskRefs
    BY DEF IInv, Shape, DiskBelow, Below
  <2>2. ResolvingOnDisk \subseteq DiskRefs
    BY DEF ResolvingOnDisk, DiskRefs, Referenced
  <2>. QED  BY <1>1, <1>2, <2>1, <2>2 DEF VictimUnowned, rest
<1>6. OwnersSaved'
  BY DEF OwnersSaved
<1>7. todo' \in SaveLists
  BY <1>1, SaveListsHold
<1>. QED
  BY <1>2, <1>3, <1>4, <1>5, <1>6, <1>7 DEF RInv, ResolvesInMemory, ResolvesOnDisk, EntriesFirst

LEMMA NoOrphans ==
  ASSUME RInv, phase = "repair"
  PROVE  Orphans = {}
  BY DEF Orphans, RInv, ResolvesInMemory, Resolving, RuleIds

LEMMA RulesLoadedResolves ==
  ASSUME IInv, RInv, RulesLoaded
  PROVE  RInv'
<1>. USE DEF RulesLoaded
<1>1. todo = <<>> /\ rules \subseteq Rule /\ \A i \in DOMAIN entries : entries[i].pat \in Pattern
  BY DEF IInv, MatchingFirst, Shape
<1>2. RuleIds(rules') = RuleIds(rules)
  BY <1>1, PatternsKeepRules
<1>3. \A r \in rules' : ~r.geom
  <2>1. ASSUME NEW r \in rules, NEW p, ~r.geom
        PROVE  ~[r EXCEPT !.pat = p].geom
    BY <1>1, <2>1 DEF Rule
  <2>. QED  BY <2>1 DEF RInv, NoLayouts, WithPatterns
<1>4. Resolving' = Resolving
  BY <1>2 DEF Resolving
<1>5. todo' \in SaveLists /\ todo' # <<>> /\ Head(todo') = "matching"
  BY SaveListsHold DEF Owners
<1>6. EntriesFirst' /\ VictimUnowned'
  BY <1>4, <1>5 DEF RInv, EntriesFirst, VictimUnowned, rest
<1>7. layouts' = Nothing /\ resync' = {}
  BY DEF RInv, NoLayouts, rest
<1>8. Resolving \cup ResolvingOnDisk \subseteq DOMAIN entries
  BY DEF RInv, ResolvesInMemory
<1>. QED  BY <1>1, <1>2, <1>3, <1>4, <1>5, <1>6, <1>7, <1>8, ResolvingStep

LEMMA LoadOwnersResolves ==
  ASSUME RInv, LoadOwners
  PROVE  RInv'
<1>. USE DEF LoadOwners
<1>1. disk.layouts = Nothing /\ layouts = Nothing /\ resync = {} /\ \A r \in rules : ~r.geom
  BY DEF RInv, NoLayouts
<1>2. layouts' = layouts /\ resync' = resync /\ rules' = rules
  BY <1>1 DEF Nothing
<1>3. todo' \in SaveLists
  BY SaveListsHold
<1>4. UNCHANGED <<entries, names, disk, victim>> /\ phase # "down" /\ phase' # "down"
  OBVIOUS
<1>. QED  BY <1>2, <1>3, <1>4, EntriesKept

LEMMA LayoutsSyncedResolves ==
  ASSUME RInv, LayoutsSynced
  PROVE  RInv'
<1>. USE DEF LayoutsSynced
<1>1. todo' \in SaveLists
  BY SaveListsHold DEF Owners
<1>2. UNCHANGED <<entries, names, rules, layouts, resync, victim, disk>>
  BY DEF mem, rest
<1>. QED  BY <1>1, <1>2, EntriesKept

LEMMA SettleResolves ==
  ASSUME IInv, RInv, NEW ws, Settle(ws)
  PROVE  RInv'
<1>. USE DEF Settle
<1>1. todo' \in SaveLists
  BY SaveListsHold DEF SaveIfChanged, Stores
<1>2. UNCHANGED <<names, rules, layouts, resync, victim, disk>>
  BY DEF owners, rest
<1>3. DOMAIN entries' = DOMAIN entries \cap MemRefs
  <2>1. \A i \in DOMAIN Collected(entries) : Collected(entries)[i].pat \in Pattern
    BY DEF IInv, Shape, Collected
  <2>2. DOMAIN entries' = DOMAIN Collected(entries)
    BY <2>1, RebindingsKeep
  <2>. QED  BY <2>2 DEF Collected
<1>4. Resolving \cup ResolvingOnDisk \subseteq DOMAIN entries \cap MemRefs
  <2>1. Resolving \subseteq MemRefs
    BY DEF Resolving, MemRefs, Referenced
  <2>2. ResolvingOnDisk = Resolving
    <3>1. ~Unsaved("names") /\ ~Unsaved("rules")
      BY SaveListItems
    <3>. QED  BY <3>1 DEF RInv, OwnersSaved, Resolving, ResolvingOnDisk
  <2>. QED  BY <2>1, <2>2 DEF RInv, ResolvesInMemory
<1>. QED  BY <1>1, <1>2, <1>3, <1>4, NamesAndRulesKept

LEMMA StartResolves ==
  ASSUME IInv, IInv', RInv, Start
  PROVE  RInv'
<1>1. ASSUME NEW r, RepairRule(r)
      PROVE  FALSE
  BY <1>1, NoOrphans DEF RepairRule
<1>. QED
  BY <1>1, LoadMatchingResolves, RulesLoadedResolves, LoadOwnersResolves,
     LayoutsSyncedResolves, SettleResolves DEF Start

-----------------------------------------------------------------------------
(* Every step keeps it: the handlers                                        *)

LEMMA RebindingResolves ==
  ASSUME IInv, RInv, Idle, phase' = phase, disk' = disk, owners' = owners,
         rest' = rest, NEW ws, entries' \in Rebindings(entries, ws),
         todo' \in SaveLists
  PROVE  RInv'
<1>1. DOMAIN entries' = DOMAIN entries
  BY RebindingsKeep DEF IInv, Shape
<1>2. UNCHANGED <<names, rules, layouts, resync, victim>>
  BY DEF owners, rest
<1>. QED  BY <1>1, <1>2, EntriesKept DEF Idle

LEMMA WindowOpsResolve ==
  ASSUME IInv, RInv, WindowOps
  PROVE  RInv'
<1>1. ASSUME NEW ws, ClientList(ws)
      PROVE  RInv'
  <2>1. todo' \in SaveLists
    BY <1>1, SaveListsHold DEF ClientList, SaveIfChanged, Stores
  <2>. QED  BY <1>1, <2>1, RebindingResolves DEF ClientList
<1>2. ASSUME NEW w, NEW t, TitleChange(w, t)
      PROVE  RInv'
  <2>1. UNCHANGED <<phase, entries, names, rules, layouts, disk, todo, resync, victim>>
    BY <1>2 DEF TitleChange, mem, rest
  <2>2. todo \in SaveLists
    BY DEF RInv
  <2>. QED  BY <1>2, <2>1, <2>2, EntriesKept DEF TitleChange, Idle
<1>3. ASSUME NEW i \in DOMAIN entries, NEW p, EditPattern(i, p)
      PROVE  RInv'
  <2>1. DOMAIN entries' = DOMAIN entries
    BY <1>3 DEF EditPattern
  <2>2. todo' \in SaveLists
    BY <1>3, SaveListsHold DEF EditPattern, Stores, Owners
  <2>3. resync = {} /\ DOMAIN layouts = {}
    BY DEF RInv, NoLayouts, Nothing
  <2>4. resync' = {}
    BY <1>3, <2>3 DEF EditPattern
  <2>5. UNCHANGED <<names, rules, layouts, disk, victim>> /\ phase' = phase
    BY <1>3 DEF EditPattern, owners
  <2>. QED  BY <1>3, <2>1, <2>2, <2>3, <2>4, <2>5, EntriesKept DEF EditPattern, Idle
<1>. QED  BY <1>1, <1>2, <1>3 DEF WindowOps

(* Entries of slots go away, and a new one may come.                        *)
LEMMA SlotEntriesResolve ==
  ASSUME IInv, RInv, Idle, NEW Q \in SUBSET Slot,
         DOMAIN entries \ {slots[q] : q \in Q} \subseteq DOMAIN entries',
         todo' = EntryFirst("slots"),
         UNCHANGED <<phase, names, layouts, rules, disk, rest>>
  PROVE  RInv'
<1>1. \A q \in Q : slots[q] \notin Resolving \cup ResolvingOnDisk
  BY SlotsApart
<1>2. Resolving \cup ResolvingOnDisk \subseteq DOMAIN entries
  BY DEF RInv, ResolvesInMemory, Idle
<1>3. Resolving \cup ResolvingOnDisk \subseteq DOMAIN entries'
  BY <1>1, <1>2
<1>4. todo' \in SaveLists
  BY SaveListsHold DEF EntryFirst, Owners
<1>. QED  BY <1>3, <1>4, NamesAndRulesKept DEF Idle, rest

LEMMA SlotOpsResolve ==
  ASSUME IInv, RInv, SlotOps
  PROVE  RInv'
<1>1. ASSUME NEW s \in Slot, HarpoonDelete(s) \/ \E w : HarpoonToggle(w, s)
      PROVE  RInv'
  <2>1. /\ Idle /\ entries' = Drop(entries, {slots[s]}) /\ todo' = EntryFirst("slots")
        /\ UNCHANGED <<phase, names, layouts, rules, disk, rest>>
    BY <1>1 DEF HarpoonDelete, HarpoonToggle
  <2>2. DOMAIN entries \ {slots[q] : q \in {s}} \subseteq DOMAIN entries'
    BY <2>1 DEF Drop
  <2>. QED  BY <2>1, <2>2, SlotEntriesResolve
<1>2. ASSUME NEW w, NEW s \in Slot, HarpoonAssign(w, s)
      PROVE  RInv'
  <2> DEFINE Q == {q \in Slot \ {s} : slots[q] \in MatchingIds(w)} \cup {s}
             kept == Drop(entries, {slots[q] : q \in Q})
  <2>1. /\ Idle /\ todo' = EntryFirst("slots")
        /\ UNCHANGED <<phase, names, layouts, rules, disk, rest>>
        /\ entries' = kept \/ entries' = Put(kept, next, Entry(wins[w], w))
    BY <1>2 DEF HarpoonAssign
  <2>2. DOMAIN kept = DOMAIN entries \ {slots[q] : q \in Q}
    BY DEF Drop
  <2>. HIDE DEF kept
  <2>3. DOMAIN entries \ {slots[q] : q \in Q} \subseteq DOMAIN entries'
    BY <2>1, <2>2 DEF Put
  <2>4. Q \in SUBSET Slot
    OBVIOUS
  <2>. HIDE DEF Q
  <2>. QED  BY <2>1, <2>3, <2>4, SlotEntriesResolve
<1>3. ASSUME NEW s \in Slot, GetSlotWindow(s)
      PROVE  RInv'
  <2>1. todo' \in SaveLists
    BY <1>3 DEF GetSlotWindow, RInv
  <2>. QED  BY <1>3, <2>1, RebindingResolves DEF GetSlotWindow
<1>. QED  BY <1>1, <1>2, <1>3 DEF SlotOps

LEMMA NameOpsResolve ==
  ASSUME IInv, RInv, NameOps
  PROVE  RInv'
<1>1. ASSUME NEW w, NEW i, RenameWindow(w, i)
      PROVE  RInv'
  <2>1. todo' \in SaveLists
    BY <1>1, SaveListsHold DEF RenameWindow, EntryFirst, Owners
  <2>2. DOMAIN entries' = DOMAIN entries
    BY <1>1 DEF RenameWindow, Bind
  <2>. QED  BY <1>1, <2>1, <2>2, EntriesKept DEF RenameWindow, Idle, owners, rest
<1>2. ASSUME NEW w, NameWindow(w)
      PROVE  RInv'
  <2>1. DOMAIN entries' = DOMAIN entries \cup {next}
    BY <1>2 DEF NameWindow, Put
  <2>2. UNCHANGED <<phase, rules, layouts, disk, resync, victim>> /\ Idle
    BY <1>2 DEF NameWindow, rest
  <2>3. CASE names' = names /\ todo' = todo
    <3>1. todo \in SaveLists
      BY DEF RInv
    <3>. QED  BY <2>1, <2>2, <2>3, <3>1, EntriesKept DEF Idle
  <2>4. CASE names' = names \cup {next} /\ todo' = EntryFirst("names")
    <3>1. todo' \in SaveLists
      BY <2>4, SaveListsHold DEF EntryFirst, Owners
    <3>2. Unsaved("names")' /\ EntriesFirst'
      BY <2>4 DEF EntryFirst, Unsaved, EntriesFirst
    <3>3. Resolving' = Resolving \cup {next} /\ RuleIds(rules') = RuleIds(rules)
      BY <2>2, <2>4 DEF Resolving
    <3>4. Resolving \cup ResolvingOnDisk \subseteq DOMAIN entries
      BY <2>2 DEF RInv, ResolvesInMemory, Idle
    <3>5. layouts' = Nothing /\ resync' = {} /\ \A r \in rules' : ~r.geom
      BY <2>2 DEF RInv, NoLayouts
    <3>6. VictimUnowned'
      BY <2>2, <3>3 DEF Idle, RInv, IInv, Shape, VictimUnowned
    <3>. QED
      BY <2>1, <2>2, <3>1, <3>2, <3>3, <3>4, <3>5, <3>6, ResolvingStep DEF Idle
  <2>. QED  BY <1>2, <2>3, <2>4 DEF NameWindow
<1>3. ASSUME NEW i \in names, NameDelete(i)
      PROVE  RInv'
  <2>. USE <1>3 DEF NameDelete
  <2>1. OwnRuleIds(rules) = RuleIds(rules)
    BY DEF OwnRuleIds, RuleIds, RInv, NoLayouts
  <2>2. i \notin RuleIds(rules)
    BY <2>1 DEF IInv, AllApart, Apart
  <2>3. Resolving' \subseteq Resolving /\ VictimUnowned'
    BY <2>2 DEF Resolving, VictimUnowned
  <2>4. todo' \in SaveLists /\ Unsaved("names")'
    BY SaveListsHold DEF OwnerFirst, Unsaved, Stores, Owners
  <2>5. todo = <<>> /\ phase # "down"
    BY DEF Idle
  <2>6. EntriesFirst'
    BY <2>3, <2>5 DEF RInv, EntriesFirst
  <2>7. layouts' = Nothing /\ resync' = {} /\ \A r \in rules' : ~r.geom
    BY DEF RInv, NoLayouts
  <2>8. Resolving' \cup ResolvingOnDisk \subseteq DOMAIN entries'
    BY <2>3, <2>5 DEF RInv, ResolvesInMemory
  <2>9. UNCHANGED <<phase, disk, rules>>
    OBVIOUS
  <2>. QED  BY ONLY RInv, <2>3, <2>4, <2>5, <2>6, <2>7, <2>8, <2>9, ResolvingStep
<1>. QED  BY <1>1, <1>2, <1>3 DEF NameOps

LEMMA RuleOpsResolve ==
  ASSUME IInv, RInv, RuleOps
  PROVE  RInv'
<1>1. ASSUME NEW p, AddRule(p)
      PROVE  RInv'
  <2> DEFINE new == [id |-> next, geom |-> FALSE, pat |-> p]
  <2>1. DOMAIN entries' = DOMAIN entries \cup {next}
    BY <1>1 DEF AddRule, Put
  <2>2. UNCHANGED <<phase, names, layouts, disk, resync, victim>> /\ Idle
    BY <1>1 DEF AddRule, rest
  <2>3. CASE rules' = rules /\ todo' = todo
    <3>1. todo \in SaveLists
      BY DEF RInv
    <3>. QED  BY <2>1, <2>2, <2>3, <3>1, EntriesKept DEF Idle
  <2>4. CASE rules' = rules \cup {new} /\ todo' = EntryFirst("rules")
    <3>1. todo' \in SaveLists
      BY <2>4, SaveListsHold DEF EntryFirst, Owners
    <3>2. Unsaved("rules")' /\ EntriesFirst'
      BY <2>4 DEF EntryFirst, Unsaved, EntriesFirst
    <3>3. RuleIds(rules') = RuleIds(rules) \cup {next}
      <4>1. new.id = next
        OBVIOUS
      <4>. HIDE DEF new
      <4>. QED  BY <2>4, <4>1 DEF RuleIds
    <3>4. Resolving' = Resolving \cup {next}
      BY <2>2, <3>3 DEF Resolving
    <3>5. Resolving \cup ResolvingOnDisk \subseteq DOMAIN entries
      BY <2>2 DEF RInv, ResolvesInMemory, Idle
    <3>6. layouts' = Nothing /\ resync' = {} /\ \A r \in rules' : ~r.geom
      BY <2>2, <2>4 DEF RInv, NoLayouts
    <3>7. VictimUnowned'
      BY <2>2, <3>4 DEF Idle, RInv, IInv, Shape, VictimUnowned
    <3>. QED
      BY <2>1, <2>2, <3>1, <3>2, <3>4, <3>5, <3>6, <3>7, ResolvingStep DEF Idle
  <2>. QED  BY <1>1, <2>3, <2>4 DEF AddRule
<1>2. ASSUME NEW r \in rules, RuleDelete(r)
      PROVE  RInv'
  <2>. USE <1>2 DEF RuleDelete
  <2>1. OwnRuleIds(rules) = RuleIds(rules) /\ r.id \in RuleIds(rules)
        /\ \A q \in rules : ~q.geom
    BY DEF OwnRuleIds, RuleIds, RInv, NoLayouts
  <2>2. r.id \notin names
    BY <2>1 DEF IInv, AllApart, Apart
  <2>3. r.id \notin RuleIds(rules')
    <3>1. \A q \in rules : q.geom \in BOOLEAN
      BY DEF IInv, Shape, Rule
    <3>2. \A q \in rules : q.id = r.id => q = r
      BY <2>1, <3>1 DEF IInv, AllApart, OneRuleEach
    <3>. QED  BY <3>2 DEF RuleIds
  <2>4. Resolving' \subseteq Resolving /\ VictimUnowned'
    BY <2>2, <2>3 DEF Resolving, VictimUnowned, RuleIds
  <2>5. todo' \in SaveLists /\ Unsaved("rules")'
    BY SaveListsHold DEF OwnerFirst, Unsaved, Stores, Owners
  <2>6. todo = <<>> /\ phase # "down"
    BY DEF Idle
  <2>7. EntriesFirst'
    BY <2>4, <2>6 DEF RInv, EntriesFirst
  <2>8. layouts' = Nothing /\ resync' = {} /\ \A q \in rules' : ~q.geom
    BY DEF RInv, NoLayouts
  <2>9. Resolving' \cup ResolvingOnDisk \subseteq DOMAIN entries'
    BY <2>4, <2>6 DEF RInv, ResolvesInMemory
  <2>10. UNCHANGED <<phase, disk, names>>
    OBVIOUS
  <2>. QED  BY ONLY RInv, <2>4, <2>5, <2>6, <2>7, <2>8, <2>9, <2>10, ResolvingStep
<1>. QED  BY <1>1, <1>2 DEF RuleOps

-----------------------------------------------------------------------------
(* Every step keeps it: the saves and the faults                            *)

LEMMA DeleteVictimResolves ==
  ASSUME IInv, RInv, DeleteVictim
  PROVE  RInv'
<1>. USE DEF DeleteVictim
<1>1. phase # "down"
  BY DEF IInv, MatchingFirst
<1>2. ~Unsaved("names") /\ ~Unsaved("rules")
  BY SaveListItems
<1>3. ResolvingOnDisk = Resolving
  BY <1>1, <1>2 DEF RInv, OwnersSaved, Resolving, ResolvingOnDisk
<1>4. Resolving \cup ResolvingOnDisk \subseteq DOMAIN entries'
  BY <1>1, <1>3 DEF RInv, ResolvesInMemory, VictimUnowned, Drop
<1>5. todo' \in SaveLists /\ todo' # <<>> /\ Head(todo') = "matching"
  BY SaveListsHold DEF Stores
<1>6. UNCHANGED <<phase, names, rules, layouts, disk, resync>>
  BY DEF owners
<1>7. Resolving' = Resolving /\ RuleIds(rules') = RuleIds(rules)
  BY <1>6 DEF Resolving
<1>8. EntriesFirst' /\ VictimUnowned'
  <2>1. 0 \notin Resolving
    BY DEF IInv, Shape, MemBelow, Below, MemRefs, Referenced, Resolving
  <2>. QED  BY <1>5, <1>7, <2>1 DEF EntriesFirst, VictimUnowned
<1>9. layouts' = Nothing /\ resync' = {} /\ \A q \in rules' : ~q.geom
  BY <1>6 DEF RInv, NoLayouts
<1>. QED  BY <1>1, <1>4, <1>5, <1>6, <1>7, <1>8, <1>9, ResolvingStep

(* After a save what it wrote is no longer unsaved.                         *)
LEMMA OneSavedLess ==
  ASSUME todo \in SaveLists, todo # <<>>, todo' = Tail(todo)
  PROVE  /\ todo' \in SaveLists
         /\ Head(todo) \in Stores
         /\ \A s : Unsaved(s) => s = Head(todo) \/ Unsaved(s)'
         /\ \A s : Unsaved(s)' => Unsaved(s)
         /\ todo' # <<>> => Head(todo) = "matching"
<1>1. CASE todo = <<Head(todo)>> /\ Tail(todo) = <<>> /\ Head(todo) \in Stores
  <2>1. \A s : ~Unsaved(s)'
    BY <1>1 DEF Unsaved
  <2>2. \A s : Unsaved(s) => s = Head(todo)
    BY <1>1, SaveListItems
  <2>. QED  BY <1>1, <2>1, <2>2, SaveListsHold
<1>2. ASSUME Head(todo) = "matching",
             NEW o \in Owners, todo = <<"matching", o>>, Tail(todo) = <<o>>
      PROVE  /\ todo' \in SaveLists
             /\ Head(todo) \in Stores
             /\ \A s : Unsaved(s) => s = Head(todo) \/ Unsaved(s)'
             /\ \A s : Unsaved(s)' => Unsaved(s)
  <2>1. \A s : Unsaved(s)' <=> s = o
    BY <1>2 DEF Unsaved
  <2>2. \A s : Unsaved(s) <=> s = "matching" \/ s = o
    BY <1>2, SaveListItems
  <2>. QED  BY <1>2, <2>1, <2>2, SaveListsHold DEF Stores
<1>. QED  BY <1>1, <1>2, FirstSave
LEMMA SaveResolves ==
  ASSUME IInv, RInv, Save
  PROVE  RInv'
<1>1. todo # <<>> /\ todo' = Tail(todo) /\ disk' = WithFile(Head(todo))
      /\ UNCHANGED <<phase, entries, next, slots, names, layouts, rules, resync, victim>>
  BY DEF Save, mem, rest
<1>2. /\ todo' \in SaveLists /\ Head(todo) \in Stores
      /\ \A s : Unsaved(s) => s = Head(todo) \/ Unsaved(s)'
  BY <1>1, OneSavedLess DEF RInv
<1>3. phase # "down"
  BY <1>1 DEF IInv, MatchingFirst
<1>4. disk = [pats |-> disk.pats, next |-> disk.next, slots |-> disk.slots,
              names |-> disk.names, layouts |-> disk.layouts, rules |-> disk.rules]
  BY DEF IInv, Shape
<1>5. Resolving' = Resolving
  BY <1>1 DEF Resolving
<1>6. VictimUnowned'
  BY <1>1, <1>5 DEF RInv, VictimUnowned
<1>7. Resolving \cup ResolvingOnDisk \subseteq DOMAIN entries
  BY <1>3 DEF RInv, ResolvesInMemory
<1> DEFINE rs == WithPatterns(rules, entries)
<1>8. RuleIds(rs) = RuleIds(rules) /\ \A r \in rs : ~r.geom
  <2>1. rules \subseteq Rule /\ \A i \in DOMAIN entries : entries[i].pat \in Pattern
    BY DEF IInv, Shape
  <2>2. RuleIds(rs) = RuleIds(rules)
    BY <2>1, PatternsKeepRules
  <2>3. ASSUME NEW r \in rules, NEW p, ~r.geom
        PROVE  ~[r EXCEPT !.pat = p].geom
    BY <2>1, <2>3 DEF Rule
  <2>. QED  BY <2>2, <2>3 DEF RInv, NoLayouts, WithPatterns
<1>. HIDE DEF rs
<1>9. CASE Head(todo) = "matching"
  <2>1. disk'.pats = Patterns(entries) /\ disk'.names = disk.names
        /\ disk'.layouts = disk.layouts /\ disk'.rules = disk.rules
    BY <1>1, <1>4, <1>9 DEF WithFile
  <2>2. DOMAIN disk'.pats = DOMAIN entries /\ ResolvingOnDisk' = ResolvingOnDisk
    BY <2>1 DEF Patterns, ResolvingOnDisk
  <2>3. ResolvesOnDisk' /\ EntriesFirst' /\ ResolvesInMemory'
    BY <1>1, <1>5, <1>7, <2>2 DEF ResolvesOnDisk, EntriesFirst, ResolvesInMemory
  <2>4. NoLayouts'
    BY <1>1, <2>1 DEF RInv, NoLayouts
  <2>5. OwnersSaved'
    BY <1>1, <1>2, <1>3, <1>9, <2>1 DEF RInv, OwnersSaved
  <2>. QED  BY <1>2, <1>6, <2>3, <2>4, <2>5 DEF RInv
<1>10. CASE Head(todo) \in Owners
  <2>1. /\ disk'.pats = disk.pats
        /\ disk'.names = IF Head(todo) = "names" THEN names ELSE disk.names
        /\ disk'.layouts \in {layouts, disk.layouts}
        /\ disk'.rules = IF Head(todo) = "rules" THEN rs ELSE disk.rules
    BY <1>1, <1>4, <1>10 DEF WithFile, Owners, rs
  <2>2. Resolving \subseteq DOMAIN disk.pats
    BY <1>10 DEF RInv, EntriesFirst, Owners
  <2>3. ResolvingOnDisk' \subseteq Resolving \cup ResolvingOnDisk
    BY <1>8, <2>1 DEF Resolving, ResolvingOnDisk
  <2>4. ResolvesOnDisk' /\ EntriesFirst' /\ ResolvesInMemory'
    BY <1>1, <1>5, <1>7, <2>1, <2>2, <2>3
       DEF RInv, ResolvesOnDisk, EntriesFirst, ResolvesInMemory
  <2>5. NoLayouts'
    BY <1>1, <1>8, <2>1 DEF RInv, NoLayouts
  <2>6. OwnersSaved'
    BY <1>1, <1>2, <1>3, <1>8, <2>1 DEF RInv, OwnersSaved
  <2>. QED  BY <1>2, <1>6, <2>4, <2>5, <2>6 DEF RInv
<1>. QED  BY <1>2, <1>9, <1>10 DEF Stores

LEMMA SaveFailsResolves ==
  ASSUME OwnersReliable, IInv, RInv, SaveFails
  PROVE  RInv'
<1>1. todo # <<>> /\ todo' = Tail(todo)
      /\ UNCHANGED <<phase, entries, names, layouts, rules, disk, resync, victim>>
  BY DEF SaveFails, mem, rest
<1>2. /\ todo' \in SaveLists
      /\ \A s : Unsaved(s) => s = Head(todo) \/ Unsaved(s)'
  BY <1>1, OneSavedLess DEF RInv
<1>3. Head(todo) \notin {"matching", "names", "rules"}
  BY DEF SaveFails, OwnersReliable, MatchingReliable
<1>4. Resolving' = Resolving /\ ResolvingOnDisk' = ResolvingOnDisk
  BY <1>1 DEF Resolving, ResolvingOnDisk
<1>5. NoLayouts' /\ ResolvesInMemory' /\ ResolvesOnDisk' /\ VictimUnowned'
  BY <1>1, <1>4 DEF RInv, NoLayouts, ResolvesInMemory, ResolvesOnDisk, VictimUnowned
<1>6. EntriesFirst'
  BY <1>1, <1>3, <1>4 DEF RInv, EntriesFirst
<1>7. OwnersSaved'
  BY <1>1, <1>2, <1>3 DEF RInv, OwnersSaved
<1>. QED  BY <1>2, <1>5, <1>6, <1>7 DEF RInv

LEMMA StopResolves ==
  ASSUME RInv, Stop
  PROVE  RInv'
<1>. USE DEF Stop, Forgotten
<1>1. Resolving' = {} /\ ResolvingOnDisk' = ResolvingOnDisk
  BY DEF Resolving, ResolvingOnDisk, RuleIds
<1>2. todo' \in SaveLists /\ NoLayouts'
  BY SaveListsHold DEF RInv, NoLayouts
<1>. QED
  BY <1>1, <1>2 DEF RInv, ResolvesInMemory, ResolvesOnDisk, EntriesFirst, OwnersSaved,
     VictimUnowned

LEMMA UnreadableResolves ==
  ASSUME OwnersReliable, ConstantsAssumption, IInv, RInv,
         NEW s \in LossyStores, Unreadable(s)
  PROVE  RInv'
<1>. USE DEF Unreadable
<1>1. s \in Owners
  BY DEF ConstantsAssumption, OwnersReliable, MatchingReliable, Stores
<1>2. UNCHANGED <<phase, entries, names, layouts, rules, todo, resync, victim>>
  BY DEF mem, rest
<1>3. disk = [pats |-> disk.pats, next |-> disk.next, slots |-> disk.slots,
              names |-> disk.names, layouts |-> disk.layouts, rules |-> disk.rules]
  BY DEF IInv, Shape
<1>4. /\ disk'.pats = disk.pats /\ disk'.names \subseteq disk.names
      /\ disk'.layouts \in {disk.layouts, Nothing} /\ disk'.rules \subseteq disk.rules
  BY <1>1, <1>3 DEF WithoutFile, Owners
<1>5. Resolving' = Resolving /\ ResolvingOnDisk' \subseteq ResolvingOnDisk
  BY <1>2, <1>4 DEF Resolving, ResolvingOnDisk, RuleIds
<1>6. NoLayouts'
  BY <1>2, <1>4 DEF RInv, NoLayouts
<1>7. ResolvesInMemory' /\ ResolvesOnDisk' /\ EntriesFirst' /\ OwnersSaved' /\ VictimUnowned'
  BY <1>2, <1>4, <1>5 DEF RInv, ResolvesInMemory, ResolvesOnDisk, EntriesFirst,
     OwnersSaved, VictimUnowned
<1>. QED  BY <1>2, <1>6, <1>7 DEF RInv

LEMMA NextResolves ==
  ASSUME OwnersReliable, ConstantsAssumption, IInv, IInv', RInv, [Next]_vars
  PROVE  RInv'
<1>1. CASE Start
  BY <1>1, StartResolves
<1>2. CASE WindowOps \/ SlotOps \/ NameOps \/ RuleOps
  BY <1>2, WindowOpsResolve, SlotOpsResolve, NameOpsResolve, RuleOpsResolve
<1>3. ~LayoutOps
  BY DEF OwnersReliable, LayoutOps
<1>4. CASE Save \/ DeleteVictim
  BY <1>4, SaveResolves, DeleteVictimResolves
<1>5. resync = {}
  BY DEF RInv, NoLayouts
<1>6. CASE Faults
  BY <1>6, SaveFailsResolves, StopResolves, UnreadableResolves DEF Faults
<1>7. CASE UNCHANGED vars
  <2>1. UNCHANGED <<phase, entries, names, layouts, rules, disk, todo, resync, victim>>
    BY <1>7 DEF vars
  <2>2. Resolving' = Resolving /\ ResolvingOnDisk' = ResolvingOnDisk
    BY <2>1 DEF Resolving, ResolvingOnDisk
  <2>3. NoLayouts' /\ ResolvesInMemory' /\ ResolvesOnDisk' /\ VictimUnowned'
    BY <2>1, <2>2 DEF RInv, NoLayouts, ResolvesInMemory, ResolvesOnDisk, VictimUnowned
  <2>4. EntriesFirst' /\ OwnersSaved' /\ todo' \in SaveLists
    BY <2>1, <2>2 DEF RInv, EntriesFirst, OwnersSaved, Unsaved
  <2>. QED  BY <2>3, <2>4 DEF RInv
<1>. QED  BY <1>1, <1>2, <1>3, <1>4, <1>5, <1>6, <1>7 DEF Next

THEOREM ResolvingInvariant == OwnersReliable /\ Spec => [](IInv /\ RInv)
<1>1. Init => RInv
  BY InitResolves
<1>2. CASE OwnersReliable
  <2>1. IInv /\ IInv' /\ RInv /\ [Next]_vars => RInv'
    BY <1>2, ConstantsAssumption, NextResolves
  <2>2. MatchingReliable
    BY <1>2 DEF OwnersReliable
  <2>. QED  BY <1>1, <2>1, <2>2, InductiveInvariant, PTL DEF Spec
<1>. QED  BY <1>2

(* In the files that a crash leaves behind every name and every rule has    *)
(* its entry: names and rules are written after their entry and removed     *)
(* before it, as long as these files can be written and no layout takes an  *)
(* entry over.                                                              *)
THEOREM NamesAndRulesResolve == OwnersReliable /\ Spec => []NamesRulesResolve
<1>1. RInv => NamesRulesResolve
  BY DEF RInv, ResolvesOnDisk, ResolvingOnDisk, NamesRulesResolve
<1>. QED  BY <1>1, ResolvingInvariant, PTL
-----------------------------------------------------------------------------
(* Durability: between two handlers the files hold what the memory holds    *)

(* No file fails to be written.                                             *)
SavesReliable == OwnersReliable /\ FailableStores = {}

Agreeing ==
    /\ DOMAIN disk.pats \subseteq DOMAIN entries
    /\ DOMAIN entries \cap MemRefs \subseteq DOMAIN disk.pats
    /\ \A i \in DOMAIN disk.pats : disk.pats[i] = entries[i].pat
RulesAsWritten == WithPatterns(rules, entries)

(* What no save is due for is as in memory, from the moment it is loaded.   *)
DInv ==
    /\ phase \in {"repair", "loaded"} => victim = 0 /\ DOMAIN entries = DOMAIN disk.pats
    /\ phase # "down" => Unsaved("matching") \/ Agreeing
    /\ phase \notin {"down", "repair", "loaded"} => Unsaved("slots") \/ disk.slots = slots
    /\ phase \notin {"down", "repair"} => Unsaved("rules") \/ disk.rules = RulesAsWritten

(* A rule is written the same while its entry stays and keeps its pattern.  *)
LEMMA SamePatterns ==
  ASSUME NEW rs, NEW es, NEW fs,
         \A r \in rs : r.id \in DOMAIN es /\ r.id \in DOMAIN fs /\ es[r.id].pat = fs[r.id].pat
  PROVE  WithPatterns(rs, es) = WithPatterns(rs, fs)
<1>1. \A r \in rs : (IF r.id \in DOMAIN es THEN es[r.id].pat ELSE r.pat)
                      = (IF r.id \in DOMAIN fs THEN fs[r.id].pat ELSE r.pat)
  OBVIOUS
<1>. QED  BY <1>1, Zenon DEF WithPatterns

(* Binding the entries anew keeps every pattern.                            *)
LEMMA RebindingsKeepPatterns ==
  ASSUME NEW es, NEW ws, NEW fs \in Rebindings(es, ws)
  PROVE  DOMAIN fs = DOMAIN es /\ \A i \in DOMAIN es : fs[i].pat = es[i].pat
  BY DEF Rebindings, Entry

(* Rules are written as before when the rules stay and so do the entries    *)
(* they refer to.                                                           *)
LEMMA RulesWrittenSame ==
  ASSUME RInv, phase # "down", rules' = rules,
         \A i \in Resolving : i \in DOMAIN entries' /\ entries'[i].pat = entries[i].pat
  PROVE  RulesAsWritten' = RulesAsWritten
<1>1. \A r \in rules : r.id \in Resolving
  BY DEF Resolving, RuleIds
<1>2. Resolving \subseteq DOMAIN entries
  BY DEF RInv, ResolvesInMemory
<1>. QED  BY <1>1, <1>2, SamePatterns DEF RulesAsWritten

(* A handler, or a step of the start after the owners are loaded.           *)
LEMMA DurableStep ==
  ASSUME RInv, DInv, todo = <<>>, phase \notin {"down", "repair", "loaded"},
         phase' \notin {"down", "repair", "loaded"}, disk' = disk,
         Unsaved("matching")' \/ Agreeing',
         Unsaved("slots")' \/ slots' = slots,
         Unsaved("rules")' \/ RulesAsWritten' = RulesAsWritten
  PROVE  DInv'
<1>1. disk.slots = slots /\ disk.rules = RulesAsWritten
  <2>1. ~Unsaved("slots") /\ ~Unsaved("rules")
    BY SaveListItems
  <2>. QED  BY <2>1 DEF DInv
<1>. QED  BY <1>1 DEF DInv

(* Between handlers the entries agree with the file.                        *)
LEMMA IdleAgrees ==
  ASSUME DInv, todo = <<>>, phase # "down"
  PROVE  Agreeing
<1>1. ~Unsaved("matching")
  BY SaveListItems
<1>. QED  BY <1>1 DEF DInv

(* A handler that leaves the entries but for their bindings.                *)
LEMMA BindingsOnly ==
  ASSUME RInv, DInv, todo = <<>>, phase \notin {"down", "repair", "loaded"},
         phase' \notin {"down", "repair", "loaded"}, disk' = disk,
         slots' = slots \/ Unsaved("slots")',
         rules' = rules \/ Unsaved("rules")', MemRefs' \subseteq MemRefs,
         DOMAIN entries' = DOMAIN entries,
         \A i \in DOMAIN entries : entries'[i].pat = entries[i].pat
  PROVE  DInv'
<1>1. Agreeing'
  <2>1. Agreeing
    BY IdleAgrees
  <2>. QED  BY <2>1 DEF Agreeing
<1>2. rules' = rules => RulesAsWritten' = RulesAsWritten
  <2>1. Resolving \subseteq DOMAIN entries
    BY DEF RInv, ResolvesInMemory
  <2>. QED  BY <2>1, RulesWrittenSame
<1>. QED  BY <1>1, <1>2, DurableStep

(* A handler that changes entries no rule has, and saves them.              *)
LEMMA EntriesSaved ==
  ASSUME RInv, DInv, todo = <<>>, phase \notin {"down", "repair", "loaded"},
         phase' \notin {"down", "repair", "loaded"}, disk' = disk,
         slots' = slots \/ Unsaved("slots")', rules' = rules, Unsaved("matching")',
         \A i \in Resolving : i \in DOMAIN entries' /\ entries'[i].pat = entries[i].pat
  PROVE  DInv'
<1>1. RulesAsWritten' = RulesAsWritten
  BY RulesWrittenSame
<1>. QED  BY <1>1, DurableStep

-----------------------------------------------------------------------------
(* Every step keeps it: the start                                           *)

LEMMA InitDurable ==
  ASSUME Init
  PROVE  DInv
  BY DEF Init, DInv

LEMMA LoadMatchingDurable ==
  ASSUME IInv, LoadMatching
  PROVE  DInv'
<1>. USE DEF LoadMatching
<1>1. DOMAIN entries' = DOMAIN disk.pats /\ disk' = disk /\ phase' = "repair"
      /\ \A i \in DOMAIN disk.pats : entries'[i].pat = disk.pats[i]
  BY DEF Entry
<1>2. Agreeing'
  BY <1>1 DEF Agreeing
<1>3. victim' = 0
  BY DEF IInv, MatchingFirst, rest
<1>. QED  BY <1>1, <1>2, <1>3 DEF DInv

LEMMA RulesLoadedDurable ==
  ASSUME IInv, RInv, DInv, RulesLoaded
  PROVE  DInv'
<1>. USE DEF RulesLoaded
<1>1. todo' = <<"matching", "rules">> /\ phase' = "loaded"
      /\ UNCHANGED <<entries, disk>>
  OBVIOUS
<1>2. Unsaved("matching")' /\ Unsaved("rules")'
  BY <1>1 DEF Unsaved
<1>3. DOMAIN entries = DOMAIN disk.pats /\ victim' = 0
  BY DEF DInv, rest
<1>. QED  BY <1>1, <1>2, <1>3 DEF DInv

LEMMA LoadOwnersDurable ==
  ASSUME RInv, DInv, LoadOwners
  PROVE  DInv'
<1>. USE DEF LoadOwners
<1>1. rules' = rules /\ entries' = entries /\ disk' = disk /\ slots' = disk.slots
      /\ todo' = todo /\ phase' \in {"clean", "dirty"}
  BY DEF RInv, NoLayouts
<1>2. ~Unsaved("rules") /\ Agreeing
  BY SaveListItems, IdleAgrees
<1>3. DOMAIN entries = DOMAIN disk.pats
  BY DEF DInv
<1>4. Agreeing' /\ RulesAsWritten' = RulesAsWritten
  BY <1>1, <1>2, <1>3 DEF Agreeing, RulesAsWritten
<1>5. disk.rules = RulesAsWritten
  BY <1>2 DEF DInv
<1>. QED  BY <1>1, <1>4, <1>5 DEF DInv

LEMMA LayoutsSyncedDurable ==
  ASSUME RInv, DInv, LayoutsSynced
  PROVE  DInv'
<1>. USE DEF LayoutsSynced
<1>1. UNCHANGED <<entries, slots, names, layouts, rules, disk>>
  BY DEF mem
<1>2. MemRefs' = MemRefs
  BY <1>1 DEF MemRefs, Referenced
<1>. QED  BY <1>1, <1>2, BindingsOnly

LEMMA SettleDurable ==
  ASSUME IInv, RInv, DInv, NEW ws, Settle(ws)
  PROVE  DInv'
<1>. USE DEF Settle
<1>1. UNCHANGED <<slots, names, layouts, rules, disk>>
  BY DEF owners
<1>2. MemRefs' = MemRefs
  BY <1>1 DEF MemRefs, Referenced
<1>3. CASE entries' = entries
  BY <1>1, <1>2, <1>3, BindingsOnly
<1>4. CASE entries' # entries
  <2>1. Unsaved("matching")'
    BY <1>4 DEF SaveIfChanged, Unsaved
  <2>2. ASSUME NEW i \in Resolving
        PROVE  i \in DOMAIN entries' /\ entries'[i].pat = entries[i].pat
    <3>1. i \in MemRefs /\ i \in DOMAIN entries
      BY DEF Resolving, MemRefs, Referenced, RInv, ResolvesInMemory
    <3>2. i \in DOMAIN Collected(entries) /\ Collected(entries)[i] = entries[i]
      BY <3>1 DEF Collected
    <3>3. entries' \in Rebindings(Collected(entries), ws)
      OBVIOUS
    <3>. QED  BY <3>2, <3>3, RebindingsKeepPatterns
  <2>. QED  BY <1>1, <2>1, <2>2, EntriesSaved
<1>. QED  BY <1>3, <1>4

LEMMA StartDurable ==
  ASSUME IInv, RInv, DInv, Start
  PROVE  DInv'
<1>1. ASSUME NEW r, RepairRule(r)
      PROVE  FALSE
  BY <1>1, NoOrphans DEF RepairRule
<1>. QED
  BY <1>1, LoadMatchingDurable, RulesLoadedDurable, LoadOwnersDurable,
     LayoutsSyncedDurable, SettleDurable DEF Start

-----------------------------------------------------------------------------
(* Every step keeps it: the handlers                                        *)

LEMMA RebindingDurable ==
  ASSUME RInv, DInv, Idle, phase' = phase, disk' = disk, owners' = owners,
         NEW ws, entries' \in Rebindings(entries, ws)
  PROVE  DInv'
<1>1. DOMAIN entries' = DOMAIN entries
      /\ \A i \in DOMAIN entries : entries'[i].pat = entries[i].pat
  BY RebindingsKeepPatterns
<1>2. UNCHANGED <<slots, names, layouts, rules>>
  BY DEF owners
<1>3. MemRefs' = MemRefs
  BY <1>2 DEF MemRefs, Referenced
<1>. QED  BY <1>1, <1>2, <1>3, BindingsOnly DEF Idle

LEMMA WindowOpsDurable ==
  ASSUME IInv, RInv, DInv, WindowOps
  PROVE  DInv'
<1>1. ASSUME NEW ws, ClientList(ws)
      PROVE  DInv'
  BY <1>1, RebindingDurable DEF ClientList
<1>2. ASSUME NEW w, NEW t, TitleChange(w, t)
      PROVE  DInv'
  <2>1. UNCHANGED <<phase, entries, slots, names, layouts, rules, disk>>
    BY <1>2 DEF TitleChange, mem
  <2>2. MemRefs' = MemRefs
    BY <2>1 DEF MemRefs, Referenced
  <2>. QED  BY <1>2, <2>1, <2>2, BindingsOnly DEF TitleChange, Idle
<1>3. ASSUME NEW i \in DOMAIN entries, NEW p, EditPattern(i, p)
      PROVE  DInv'
  <2>1. UNCHANGED <<phase, slots, names, layouts, rules, disk>> /\ Idle
    BY <1>3 DEF EditPattern, owners
  <2>2. Unsaved("matching")'
    BY <1>3 DEF EditPattern, Unsaved
  <2>3. CASE i \in RuleIds(rules)
    <3>1. todo' = <<"matching", "rules">>
      BY <1>3, <2>3 DEF EditPattern
    <3>2. Unsaved("rules")'
      BY <3>1 DEF Unsaved
    <3>. QED  BY <2>1, <2>2, <3>2, DurableStep DEF Idle
  <2>4. CASE i \notin RuleIds(rules)
    <3>1. \A j \in DOMAIN entries \ {i} : j \in DOMAIN entries' /\ entries'[j] = entries[j]
      BY <1>3 DEF EditPattern
    <3>2. \A r \in rules : r.id \in DOMAIN entries /\ r.id # i
      BY <2>1, <2>4 DEF RInv, ResolvesInMemory, Resolving, RuleIds, Idle
    <3>3. RulesAsWritten' = RulesAsWritten
      BY <2>1, <3>1, <3>2, SamePatterns DEF RulesAsWritten
    <3>. QED  BY <2>1, <2>2, <3>3, DurableStep DEF Idle
  <2>. QED  BY <2>3, <2>4
<1>. QED  BY <1>1, <1>2, <1>3 DEF WindowOps

LEMMA SlotEntriesDurable ==
  ASSUME IInv, RInv, DInv, Idle, NEW Q \in SUBSET Slot,
         \A i \in DOMAIN entries : i \notin {slots[q] : q \in Q} =>
              i \in DOMAIN entries' /\ entries'[i].pat = entries[i].pat,
         todo' = EntryFirst("slots"), UNCHANGED <<phase, rules, disk>>
  PROVE  DInv'
<1>1. \A q \in Q : slots[q] \notin Resolving
  BY SlotsApart
<1>2. Resolving \subseteq DOMAIN entries
  BY DEF RInv, ResolvesInMemory, Idle
<1>3. Unsaved("matching")' /\ Unsaved("slots")'
  BY DEF EntryFirst, Unsaved
<1>4. \A i \in Resolving : i \in DOMAIN entries' /\ entries'[i].pat = entries[i].pat
  BY <1>1, <1>2
<1>. QED  BY <1>3, <1>4, EntriesSaved DEF Idle

LEMMA SlotOpsDurable ==
  ASSUME IInv, RInv, DInv, SlotOps
  PROVE  DInv'
<1>1. ASSUME NEW s \in Slot, HarpoonDelete(s) \/ \E w : HarpoonToggle(w, s)
      PROVE  DInv'
  <2>1. /\ Idle /\ entries' = Drop(entries, {slots[s]}) /\ todo' = EntryFirst("slots")
        /\ UNCHANGED <<phase, rules, disk>>
    BY <1>1 DEF HarpoonDelete, HarpoonToggle
  <2>2. \A i \in DOMAIN entries : i \notin {slots[q] : q \in {s}} =>
              i \in DOMAIN entries' /\ entries'[i].pat = entries[i].pat
    BY <2>1 DEF Drop
  <2>. QED  BY <2>1, <2>2, SlotEntriesDurable
<1>2. ASSUME NEW w, NEW s \in Slot, HarpoonAssign(w, s)
      PROVE  DInv'
  <2> DEFINE Q == {q \in Slot \ {s} : slots[q] \in MatchingIds(w)} \cup {s}
             kept == Drop(entries, {slots[q] : q \in Q})
  <2>1. /\ Idle /\ todo' = EntryFirst("slots") /\ UNCHANGED <<phase, rules, disk>>
        /\ entries' = kept \/ entries' = Put(kept, next, Entry(wins[w], w))
    BY <1>2 DEF HarpoonAssign
  <2>2. DOMAIN kept = DOMAIN entries \ {slots[q] : q \in Q}
        /\ \A i \in DOMAIN kept : kept[i] = entries[i]
    BY DEF Drop
  <2>. HIDE DEF kept
  <2>3. next \notin DOMAIN entries
    BY DEF IInv, Shape, MemBelow, Below
  <2>4. \A i \in DOMAIN kept : i \in DOMAIN entries' /\ entries'[i] = kept[i]
    BY <2>1, <2>2, <2>3 DEF Put
  <2>5. \A i \in DOMAIN entries : i \notin {slots[q] : q \in Q} =>
              i \in DOMAIN entries' /\ entries'[i].pat = entries[i].pat
    BY <2>2, <2>4
  <2>6. Q \in SUBSET Slot
    OBVIOUS
  <2>. HIDE DEF Q
  <2>. QED  BY <2>1, <2>5, <2>6, SlotEntriesDurable
<1>3. ASSUME NEW s \in Slot, GetSlotWindow(s)
      PROVE  DInv'
  BY <1>3, RebindingDurable DEF GetSlotWindow
<1>. QED  BY <1>1, <1>2, <1>3 DEF SlotOps

(* A new entry that nothing refers to need not be saved.                    *)
LEMMA UnownedEntry ==
  ASSUME IInv, RInv, DInv, Idle, NEW e, entries' = Put(entries, next, e),
         UNCHANGED <<phase, slots, names, layouts, rules, disk>>
  PROVE  DInv'
<1>1. MemRefs' = MemRefs
  BY DEF MemRefs, Referenced
<1>2. next \notin DOMAIN entries /\ next \notin MemRefs
  BY DEF IInv, Shape, MemBelow, Below
<1>3. DOMAIN entries' = DOMAIN entries \cup {next}
      /\ \A i \in DOMAIN entries : entries'[i] = entries[i]
  BY <1>2 DEF Put
<1>4. Agreeing
  BY IdleAgrees DEF Idle
<1>5. Agreeing'
  BY <1>1, <1>2, <1>3, <1>4 DEF Agreeing
<1>6. Resolving \subseteq DOMAIN entries
  BY DEF RInv, ResolvesInMemory, Idle
<1>7. RulesAsWritten' = RulesAsWritten
  BY <1>3, <1>6, RulesWrittenSame DEF Idle
<1>. QED  BY <1>5, <1>7, DurableStep DEF Idle

LEMMA NameOpsDurable ==
  ASSUME IInv, RInv, DInv, NameOps
  PROVE  DInv'
<1>1. ASSUME NEW w, NEW i, RenameWindow(w, i)
      PROVE  DInv'
  <2>1. Idle /\ UNCHANGED <<phase, slots, names, layouts, rules, disk>>
        /\ entries' = Bind(entries, i, w)
    BY <1>1 DEF RenameWindow, owners
  <2>2. DOMAIN entries' = DOMAIN entries
        /\ \A j \in DOMAIN entries : entries'[j].pat = entries[j].pat
    BY <2>1 DEF Bind
  <2>3. MemRefs' = MemRefs
    BY <2>1 DEF MemRefs, Referenced
  <2>. QED  BY <2>1, <2>2, <2>3, BindingsOnly DEF Idle
<1>2. ASSUME NEW w, NameWindow(w)
      PROVE  DInv'
  <2>1. Idle /\ UNCHANGED <<phase, slots, layouts, rules, disk>>
        /\ entries' = Put(entries, next, Entry(wins[w], w))
    BY <1>2 DEF NameWindow
  <2>2. CASE names' = names
    BY <2>1, <2>2, UnownedEntry
  <2>3. CASE todo' = EntryFirst("names")
    <3>1. Unsaved("matching")'
      BY <2>3 DEF EntryFirst, Unsaved
    <3>2. next \notin DOMAIN entries
      BY DEF IInv, Shape, MemBelow, Below
    <3>3. Resolving \subseteq DOMAIN entries
      BY <2>1 DEF RInv, ResolvesInMemory, Idle
    <3>4. \A i \in Resolving : i \in DOMAIN entries' /\ entries'[i].pat = entries[i].pat
      BY <2>1, <3>2, <3>3 DEF Put
    <3>. QED  BY <2>1, <3>1, <3>4, EntriesSaved DEF Idle
  <2>. QED  BY <1>2, <2>2, <2>3 DEF NameWindow
<1>3. ASSUME NEW i \in names, NameDelete(i)
      PROVE  DInv'
  <2>1. Idle /\ UNCHANGED <<phase, entries, slots, layouts, rules, disk>>
        /\ names' \subseteq names
    BY <1>3 DEF NameDelete
  <2>2. MemRefs' \subseteq MemRefs
    BY <2>1 DEF MemRefs, Referenced
  <2>. QED  BY <2>1, <2>2, BindingsOnly DEF Idle
<1>. QED  BY <1>1, <1>2, <1>3 DEF NameOps

LEMMA RuleOpsDurable ==
  ASSUME IInv, RInv, DInv, RuleOps
  PROVE  DInv'
<1>1. ASSUME NEW p, AddRule(p)
      PROVE  DInv'
  <2>1. Idle /\ UNCHANGED <<phase, slots, names, layouts, disk>>
        /\ entries' = Put(entries, next, Entry(p, NoWindow))
    BY <1>1 DEF AddRule
  <2>2. CASE rules' = rules
    BY <2>1, <2>2, UnownedEntry
  <2>3. CASE todo' = EntryFirst("rules")
    <3>1. Unsaved("matching")' /\ Unsaved("rules")'
      BY <2>3 DEF EntryFirst, Unsaved
    <3>. QED  BY <2>1, <3>1, DurableStep DEF Idle
  <2>. QED  BY <1>1, <2>2, <2>3 DEF AddRule
<1>2. ASSUME NEW r \in rules, RuleDelete(r)
      PROVE  DInv'
  <2>1. Idle /\ UNCHANGED <<phase, entries, slots, names, layouts, disk>>
        /\ rules' \subseteq rules
    BY <1>2 DEF RuleDelete
  <2>2. MemRefs' \subseteq MemRefs
    BY <2>1 DEF MemRefs, Referenced, RuleIds
  <2>3. Unsaved("rules")'
    BY <1>2 DEF RuleDelete, OwnerFirst, Unsaved
  <2>. QED  BY <2>1, <2>2, <2>3, BindingsOnly DEF Idle
<1>. QED  BY <1>1, <1>2 DEF RuleOps

-----------------------------------------------------------------------------
(* Every step keeps it: the saves and the faults                            *)

LEMMA DeleteVictimDurable ==
  ASSUME IInv, RInv, DInv, DeleteVictim
  PROVE  DInv'
<1>. USE DEF DeleteVictim
<1>1. phase \notin {"down", "repair", "loaded"}
  BY DEF IInv, MatchingFirst, DInv
<1>2. UNCHANGED <<phase, slots, rules, disk>> /\ todo = <<>>
  BY DEF owners
<1>3. Unsaved("matching")'
  BY DEF Unsaved
<1>4. Resolving \subseteq DOMAIN entries /\ victim \notin Resolving
  BY <1>1 DEF RInv, ResolvesInMemory, VictimUnowned
<1>5. \A i \in Resolving : i \in DOMAIN entries' /\ entries'[i].pat = entries[i].pat
  BY <1>4 DEF Drop
<1>. QED  BY <1>1, <1>2, <1>3, <1>5, EntriesSaved
LEMMA SaveDurable ==
  ASSUME IInv, RInv, DInv, Save
  PROVE  DInv'
<1>1. todo # <<>> /\ todo' = Tail(todo) /\ disk' = WithFile(Head(todo))
      /\ UNCHANGED <<phase, entries, next, slots, names, layouts, rules, victim>>
  BY DEF Save, mem, rest
<1>2. /\ Head(todo) \in Stores
      /\ \A s : Unsaved(s) => s = Head(todo) \/ Unsaved(s)'
      /\ \A s : Unsaved(s)' => Unsaved(s)
  BY <1>1, OneSavedLess DEF RInv
<1>3. phase \notin {"down", "repair"}
  BY <1>1 DEF IInv, MatchingFirst
<1>4. disk = [pats |-> disk.pats, next |-> disk.next, slots |-> disk.slots,
              names |-> disk.names, layouts |-> disk.layouts, rules |-> disk.rules]
  BY DEF IInv, Shape
<1>5. MemRefs' = MemRefs /\ RulesAsWritten' = RulesAsWritten
  BY <1>1 DEF MemRefs, Referenced, RulesAsWritten
<1>6. CASE Head(todo) = "matching"
  <2>1. disk'.pats = Patterns(entries) /\ disk'.slots = disk.slots
        /\ disk'.rules = disk.rules
    BY <1>1, <1>4, <1>6 DEF WithFile
  <2>2. DOMAIN disk'.pats = DOMAIN entries
        /\ \A i \in DOMAIN entries : disk'.pats[i] = entries[i].pat
    BY <2>1 DEF Patterns
  <2>3. Agreeing'
    BY <1>1, <1>5, <2>2 DEF Agreeing
  <2>4. phase = "loaded" => victim = 0
    BY DEF DInv
  <2>5. phase \notin {"down", "repair", "loaded"} => Unsaved("slots")' \/ disk'.slots = slots
    BY <1>2, <1>6, <2>1 DEF DInv
  <2>6. Unsaved("rules")' \/ disk'.rules = RulesAsWritten
    BY <1>2, <1>3, <1>6, <2>1 DEF DInv
  <2>. QED  BY <1>1, <1>3, <1>5, <2>2, <2>3, <2>4, <2>5, <2>6 DEF DInv
<1>7. CASE Head(todo) \in Owners
  <2>1. /\ disk'.pats = disk.pats
        /\ disk'.slots = IF Head(todo) = "slots" THEN slots ELSE disk.slots
        /\ disk'.rules = IF Head(todo) = "rules" THEN RulesAsWritten ELSE disk.rules
    BY <1>1, <1>4, <1>7 DEF WithFile, Owners, RulesAsWritten
  <2>2. Unsaved("matching")' \/ Agreeing'
    <3>1. Unsaved("matching") => Unsaved("matching")'
      BY <1>2, <1>7 DEF Owners
    <3>2. Agreeing => Agreeing'
      BY <1>1, <1>5, <2>1 DEF Agreeing
    <3>. QED  BY <1>3, <3>1, <3>2 DEF DInv
  <2>3. phase = "loaded" => victim = 0 /\ DOMAIN entries = DOMAIN disk.pats
    BY DEF DInv
  <2>4. phase \notin {"down", "repair", "loaded"} => Unsaved("slots")' \/ disk'.slots = slots
    BY <1>2, <2>1 DEF DInv
  <2>5. Unsaved("rules")' \/ disk'.rules = RulesAsWritten
    BY <1>2, <1>3, <2>1 DEF DInv
  <2>. QED  BY <1>1, <1>3, <1>5, <2>1, <2>2, <2>3, <2>4, <2>5 DEF DInv
<1>. QED  BY <1>2, <1>6, <1>7 DEF Stores

LEMMA NextDurable ==
  ASSUME SavesReliable, IInv, RInv, DInv, [Next]_vars
  PROVE  DInv'
<1>1. CASE Start
  BY <1>1, StartDurable
<1>2. CASE WindowOps \/ SlotOps \/ NameOps \/ RuleOps
  BY <1>2, WindowOpsDurable, SlotOpsDurable, NameOpsDurable, RuleOpsDurable
<1>3. ~LayoutOps /\ ~SaveFails
  BY DEF SavesReliable, OwnersReliable, LayoutOps, SaveFails
<1>4. CASE Save \/ DeleteVictim
  BY <1>4, SaveDurable, DeleteVictimDurable
<1>5. resync = {}
  BY DEF RInv, NoLayouts
<1>6. CASE Stop
  BY <1>6 DEF Stop, DInv
<1>7. ASSUME NEW s, Unreadable(s)
      PROVE  DInv'
  BY <1>7 DEF Unreadable, DInv
<1>8. CASE UNCHANGED vars
  <2>1. UNCHANGED <<phase, entries, slots, names, layouts, rules, disk, todo, victim>>
    BY <1>8 DEF vars
  <2>2. MemRefs' = MemRefs /\ RulesAsWritten' = RulesAsWritten
        /\ \A s : Unsaved(s)' <=> Unsaved(s)
    BY <2>1 DEF MemRefs, Referenced, RulesAsWritten, Unsaved
  <2>3. Agreeing' <=> Agreeing
    BY <2>1, <2>2 DEF Agreeing
  <2>. QED  BY <2>1, <2>2, <2>3 DEF DInv
<1>. QED  BY <1>1, <1>2, <1>3, <1>4, <1>5, <1>6, <1>7, <1>8 DEF Next, Faults

(* Between two handlers a crash loses nothing but an entry without owner:   *)
(* every file holds what the memory holds of slots, names and rules, and    *)
(* matching.json every entry they refer to, when no save fails and layouts  *)
(* are not in use.                                                          *)
THEOREM FilesAreDurable == SavesReliable /\ Spec => []Durable
<1>1. Init => DInv
  BY InitDurable
<1>2. ASSUME RInv, DInv
      PROVE  Durable
  <2>. SUFFICES ASSUME Idle
                PROVE  /\ disk.slots = slots /\ disk.names = names /\ disk.layouts = layouts
                       /\ disk.rules = RulesAsWritten /\ Agreeing
    BY DEF Durable, Agreeing, RulesAsWritten
  <2>1. phase = "up" /\ todo = <<>>
    BY DEF Idle
  <2>2. \A s : ~Unsaved(s)
    BY <2>1, SaveListItems
  <2>3. disk.names = names /\ disk.layouts = layouts
    BY <1>2, <2>1, <2>2 DEF RInv, OwnersSaved, NoLayouts
  <2>4. disk.slots = slots /\ disk.rules = RulesAsWritten /\ Agreeing
    BY <1>2, <2>1, <2>2 DEF DInv
  <2>. QED  BY <2>3, <2>4
<1>3. CASE SavesReliable
  <2>1. IInv /\ RInv /\ DInv /\ [Next]_vars => DInv'
    BY <1>3, NextDurable
  <2>2. OwnersReliable
    BY <1>3 DEF SavesReliable
  <2>. QED  BY <1>1, <1>2, <2>1, <2>2, ResolvingInvariant, PTL DEF Spec
<1>. QED  BY <1>3
-----------------------------------------------------------------------------
(* The geom rules follow the layouts                                        *)

(* layouts.json can be written.  The rule table is never full when a layout *)
(* is synced: MAX_RULES is less than MAX_WINDOWS, and a layout that finds    *)
(* it full stays without a rule.                                            *)
LayoutsReliable == MatchingReliable /\ "layouts" \notin FailableStores
RoomForRules == Cardinality(rules) < MaxRules

(* A layout has its rule, and a rule its layout, except for the layouts     *)
(* that the handler or the start is about to sync.                          *)
InStep(i) ==
    /\ Enabled(layouts, i) /\ i \in DOMAIN entries =>
          \E r \in rules : GeomRules(rules, i) = {r} /\ r.pat = entries[i].pat
    /\ GeomRules(rules, i) # {} => Enabled(layouts, i)
Loading == phase \in {"down", "repair", "loaded"}
GInv ==
    /\ Loading => resync = {}
    /\ ~Loading => \A i \in Nat \ resync : InStep(i)

(* One id stays in step when its layout, its rule and its entry stay.       *)
LEMMA StaysInStep ==
  ASSUME NEW i, InStep(i), Enabled(layouts, i)' <=> Enabled(layouts, i),
         GeomRules(rules, i)' = GeomRules(rules, i),
         Enabled(layouts, i) /\ i \in DOMAIN entries' =>
            i \in DOMAIN entries /\ entries'[i].pat = entries[i].pat
  PROVE  InStep(i)'
<1>1. \A r \in GeomRules(rules, i)' : r \in rules'
  BY DEF GeomRules
<1>2. ASSUME Enabled(layouts, i)', i \in DOMAIN entries'
      PROVE  \E r \in rules' : GeomRules(rules, i)' = {r} /\ r.pat = entries'[i].pat
  <2>1. PICK r \in rules : GeomRules(rules, i) = {r} /\ r.pat = entries[i].pat
    BY <1>2 DEF InStep
  <2>. QED  BY <1>1, <1>2, <2>1
<1>3. GeomRules(rules, i)' # {} => Enabled(layouts, i)'
  BY DEF InStep
<1>. QED  BY <1>2, <1>3 DEF InStep

(* A step that leaves the layouts, and the rules that belong to them, alone.*)
LEMMA LayoutsStay ==
  ASSUME GInv, ~Loading, ~Loading', layouts' = layouts, resync \subseteq resync',
         \A i \in Nat : GeomRules(rules, i)' = GeomRules(rules, i),
         \A i \in DOMAIN layouts \ resync' : i \in DOMAIN entries' =>
            i \in DOMAIN entries /\ entries'[i].pat = entries[i].pat
  PROVE  GInv'
<1>1. ASSUME NEW i \in Nat \ resync'
      PROVE  InStep(i)'
  <2>1. InStep(i)
    BY <1>1 DEF GInv
  <2>2. Enabled(layouts, i)' <=> Enabled(layouts, i)
    BY DEF Enabled
  <2>3. Enabled(layouts, i) => i \in DOMAIN layouts
    BY DEF Enabled
  <2>. QED  BY <1>1, <2>1, <2>2, <2>3, StaysInStep
<1>. QED  BY <1>1 DEF GInv

(* The entries change in their bindings, go away, or get the next id.       *)
LEMMA EntriesChange ==
  ASSUME IInv, GInv, ~Loading, ~Loading', layouts' = layouts, rules' = rules,
         resync' = resync,
         \A i \in DOMAIN entries' \ {next} :
            i \in DOMAIN entries /\ entries'[i].pat = entries[i].pat
  PROVE  GInv'
<1>1. next \notin DOMAIN layouts
  BY DEF IInv, Shape, MemBelow, Below, MemRefs, Referenced
<1>2. \A i : GeomRules(rules, i)' = GeomRules(rules, i)
  BY DEF GeomRules
<1>. QED  BY <1>1, <1>2, LayoutsStay

LEMMA IdleNotLoading ==
  ASSUME Idle
  PROVE  ~Loading
  BY DEF Idle, Loading

LEMMA RebindingInStep ==
  ASSUME IInv, GInv, ~Loading, ~Loading', NEW es, NEW ws, entries' \in Rebindings(es, ws),
         \A i \in DOMAIN es : i \in DOMAIN entries /\ es[i].pat = entries[i].pat,
         layouts' = layouts, rules' = rules, resync' = resync
  PROVE  GInv'
<1>1. DOMAIN entries' = DOMAIN es /\ \A i \in DOMAIN es : entries'[i].pat = es[i].pat
  BY RebindingsKeepPatterns
<1>. QED  BY <1>1, EntriesChange

LEMMA BindingInStep ==
  ASSUME NEW i, NEW w, entries' = Bind(entries, i, w)
  PROVE  DOMAIN entries' = DOMAIN entries
         /\ \A j \in DOMAIN entries : entries'[j].pat = entries[j].pat
  BY DEF Bind

-----------------------------------------------------------------------------
(* Every step keeps it: the start                                           *)

LEMMA LoadOwnersInStep ==
  ASSUME LoadOwners
  PROVE  GInv'
<1>. USE DEF LoadOwners
<1> DEFINE stale == {r \in rules : r.geom /\ ~Enabled(disk.layouts, r.id)}
<1>1. ~Loading'
  BY DEF Loading
<1>2. ASSUME NEW i \in Nat \ resync'
      PROVE  InStep(i)'
  <2>1. ~Enabled(layouts, i)'
    BY <1>2 DEF Enabled
  <2>2. ~Enabled(disk.layouts, i)
    BY <2>1 DEF Enabled
  <2>3. rules' = rules \ stale
    OBVIOUS
  <2>4. GeomRules(rules, i)' = {}
    BY <2>2, <2>3 DEF GeomRules
  <2>. QED  BY <2>1, <2>4 DEF InStep
<1>. QED  BY <1>1, <1>2 DEF GInv

(* The layout that is synced is in step, and no other one is touched.       *)
LEMMA SyncLayoutInStep ==
  ASSUME IInv, GInv, RoomForRules, NEW i \in resync, SyncLayout(i)
  PROVE  GInv'
<1>1. ~Loading
  BY DEF GInv
<1>2. ~Loading'
  BY <1>1 DEF SyncLayout, Loading
<1>3. UNCHANGED <<layouts, entries>> /\ rules' = SyncedRules(i) /\ resync' = resync \ {i}
  BY DEF SyncLayout
<1> DEFINE old == GeomRules(rules, i)
           new == [id |-> i, geom |-> TRUE, pat |-> entries[i].pat]
<1>4. new.id = i /\ new.geom /\ new.pat = entries[i].pat
  OBVIOUS
<1>5. \/ ~(Enabled(layouts, i) /\ i \in DOMAIN entries) /\ rules' = rules \ old
      \/ Enabled(layouts, i) /\ i \in DOMAIN entries /\ rules' = (rules \ old) \cup {new}
  BY <1>3 DEF SyncedRules, RoomForRules
<1>. HIDE DEF new
<1>6. InStep(i)'
  <2>1. CASE rules' = rules \ old /\ ~(Enabled(layouts, i) /\ i \in DOMAIN entries)
    <3>1. GeomRules(rules, i)' = {}
      BY <2>1 DEF GeomRules
    <3>2. ~(Enabled(layouts, i) /\ i \in DOMAIN entries)'
      BY <1>3, <2>1
    <3>. QED  BY <3>1, <3>2 DEF InStep
  <2>2. CASE Enabled(layouts, i) /\ rules' = (rules \ old) \cup {new}
    <3>1. GeomRules(rules, i)' = {new} /\ new \in rules'
      BY <1>4, <2>2 DEF GeomRules
    <3>2. Enabled(layouts, i)'
      BY <1>3, <2>2
    <3>. QED  BY <1>3, <1>4, <3>1, <3>2 DEF InStep
  <2>. QED  BY <1>5, <2>1, <2>2
<1>7. ASSUME NEW j \in Nat \ resync', j # i
      PROVE  InStep(j)'
  <2>1. InStep(j)
    BY <1>1, <1>3, <1>7 DEF GInv
  <2>2. GeomRules(rules, j)' = GeomRules(rules, j)
    BY <1>4, <1>5, <1>7 DEF GeomRules
  <2>. QED  BY <1>3, <2>1, <2>2, StaysInStep
<1>. QED  BY <1>2, <1>6, <1>7 DEF GInv

LEMMA StartInStep ==
  ASSUME IInv, GInv, Start
  PROVE  GInv'
<1>1. CASE LoadMatching \/ (\E r \in rules : RepairRule(r)) \/ RulesLoaded
  BY <1>1 DEF LoadMatching, RepairRule, RulesLoaded, GInv, Loading, rest
<1>2. CASE LayoutsSynced
  <2>1. ~Loading /\ ~Loading'
    BY <1>2 DEF LayoutsSynced, Loading
  <2>2. UNCHANGED <<entries, rules, layouts, resync>>
    BY <1>2 DEF LayoutsSynced, mem, rest
  <2>. QED  BY <2>1, <2>2, EntriesChange
<1>3. ASSUME NEW ws, Settle(ws)
      PROVE  GInv'
  <2>1. ~Loading /\ ~Loading'
    BY <1>3 DEF Settle, Loading
  <2>2. UNCHANGED <<rules, layouts, resync>> /\ entries' \in Rebindings(Collected(entries), ws)
    BY <1>3 DEF Settle, owners, rest
  <2>3. \A i \in DOMAIN Collected(entries) :
           i \in DOMAIN entries /\ Collected(entries)[i].pat = entries[i].pat
    BY DEF Collected
  <2>. QED  BY <2>1, <2>2, <2>3, RebindingInStep
<1>. QED  BY <1>1, <1>2, <1>3, LoadOwnersInStep DEF Start

-----------------------------------------------------------------------------
(* Every step keeps it: the handlers                                        *)

LEMMA WindowOpsInStep ==
  ASSUME IInv, GInv, WindowOps
  PROVE  GInv'
<1>1. ASSUME NEW ws, ClientList(ws)
      PROVE  GInv'
  <2>1. ~Loading /\ ~Loading'
    BY <1>1, IdleNotLoading DEF ClientList, Loading
  <2>2. UNCHANGED <<rules, layouts, resync>> /\ entries' \in Rebindings(entries, ws)
    BY <1>1 DEF ClientList, owners, rest
  <2>. QED  BY <2>1, <2>2, RebindingInStep
<1>2. ASSUME NEW w, NEW t, TitleChange(w, t)
      PROVE  GInv'
  <2>1. ~Loading /\ ~Loading'
    BY <1>2, IdleNotLoading DEF TitleChange, Loading
  <2>2. UNCHANGED <<entries, rules, layouts, resync>>
    BY <1>2 DEF TitleChange, mem, rest
  <2>. QED  BY <2>1, <2>2, EntriesChange
<1>3. ASSUME NEW i \in DOMAIN entries, NEW p, EditPattern(i, p)
      PROVE  GInv'
  <2>1. ~Loading /\ ~Loading' /\ resync = {}
    BY <1>3, IdleNotLoading DEF EditPattern, Loading, Idle
  <2>2. UNCHANGED <<rules, layouts>>
        /\ entries' = [entries EXCEPT ![i] = Entry(p, entries[i].bound)]
    BY <1>3 DEF EditPattern, owners
  <2>3. i \in DOMAIN layouts => i \in resync'
    <3>1. i \in DOMAIN entries' /\ entries'[i].pat = p
      BY <2>2 DEF Entry
    <3>2. CASE i \in DOMAIN layouts
      <4>1. resync' = SharePattern({entries[i].pat, p})
        BY <1>3, <3>2 DEF EditPattern
      <4>. QED  BY <3>1, <3>2, <4>1 DEF SharePattern
    <3>. QED  BY <3>2
  <2>4. \A j \in DOMAIN entries \ {i} : entries'[j] = entries[j]
    BY <2>2
  <2>5. \A j : GeomRules(rules, j)' = GeomRules(rules, j)
    BY <2>2 DEF GeomRules
  <2>. QED  BY <2>1, <2>2, <2>3, <2>4, <2>5, LayoutsStay
<1>. QED  BY <1>1, <1>2, <1>3 DEF WindowOps

LEMMA SlotOpsInStep ==
  ASSUME IInv, GInv, SlotOps
  PROVE  GInv'
<1>1. ASSUME NEW S, NEW e,
             \/ entries' = Drop(entries, S)
             \/ entries' = Put(Drop(entries, S), next, e)
      PROVE  \A i \in DOMAIN entries' \ {next} :
                i \in DOMAIN entries /\ entries'[i].pat = entries[i].pat
  BY <1>1 DEF Put, Drop
<1>2. ASSUME NEW s, HarpoonDelete(s) \/ \E w : HarpoonToggle(w, s) \/ HarpoonAssign(w, s)
      PROVE  GInv'
  <2>1. ~Loading /\ ~Loading'
    BY <1>2, IdleNotLoading DEF HarpoonDelete, HarpoonToggle, HarpoonAssign, Loading
  <2>2. UNCHANGED <<rules, layouts, resync>>
    BY <1>2 DEF HarpoonDelete, HarpoonToggle, HarpoonAssign, rest
  <2>3. \E S, e : entries' = Drop(entries, S) \/ entries' = Put(Drop(entries, S), next, e)
    BY <1>2 DEF HarpoonDelete, HarpoonToggle, HarpoonAssign
  <2>. QED  BY <1>1, <2>1, <2>2, <2>3, EntriesChange
<1>3. ASSUME NEW s, GetSlotWindow(s)
      PROVE  GInv'
  <2>1. ~Loading /\ ~Loading'
    BY <1>3, IdleNotLoading DEF GetSlotWindow, Loading
  <2>2. UNCHANGED <<rules, layouts, resync>> /\ entries' \in Rebindings(entries, wins)
    BY <1>3 DEF GetSlotWindow, owners, rest
  <2>. QED  BY <2>1, <2>2, RebindingInStep
<1>. QED  BY <1>2, <1>3 DEF SlotOps

LEMMA NameOpsInStep ==
  ASSUME IInv, GInv, NameOps
  PROVE  GInv'
<1>1. ASSUME NEW w, NEW i, RenameWindow(w, i) \/ NameWindow(w) \/ NameDelete(i)
      PROVE  ~Loading /\ ~Loading' /\ UNCHANGED <<rules, layouts, resync>>
  BY <1>1, IdleNotLoading DEF RenameWindow, NameWindow, NameDelete, Loading, owners, rest
<1>2. ASSUME NEW w, NEW i, RenameWindow(w, i) \/ NameWindow(w) \/ NameDelete(i)
      PROVE  \A j \in DOMAIN entries' \ {next} :
                j \in DOMAIN entries /\ entries'[j].pat = entries[j].pat
  <2>1. CASE RenameWindow(w, i)
    BY <2>1, BindingInStep DEF RenameWindow
  <2>2. CASE NameWindow(w)
    BY <2>2 DEF NameWindow, Put
  <2>3. CASE NameDelete(i)
    BY <2>3 DEF NameDelete
  <2>. QED  BY <1>2, <2>1, <2>2, <2>3
<1>3. \E w, i : RenameWindow(w, i) \/ NameWindow(w) \/ NameDelete(i)
  BY DEF NameOps
<1>. QED  BY <1>1, <1>2, <1>3, EntriesChange

LEMMA RuleOpsInStep ==
  ASSUME IInv, GInv, RuleOps
  PROVE  GInv'
<1>1. PICK p, r : AddRule(p) \/ RuleDelete(r)
  BY DEF RuleOps
<1>2. ~Loading /\ ~Loading' /\ UNCHANGED <<layouts, resync>>
  BY <1>1, IdleNotLoading DEF AddRule, RuleDelete, Loading, rest
<1>3. \A i : GeomRules(rules, i)' = GeomRules(rules, i)
  <2>1. CASE AddRule(p)
    <3> DEFINE new == [id |-> next, geom |-> FALSE, pat |-> p]
    <3>1. ~new.geom
      OBVIOUS
    <3>. HIDE DEF new
    <3>2. rules' = rules \/ rules' = rules \cup {new}
      BY <2>1 DEF AddRule, new
    <3>. QED  BY <3>1, <3>2 DEF GeomRules
  <2>2. CASE RuleDelete(r)
    BY <2>2 DEF RuleDelete, GeomRules
  <2>. QED  BY <1>1, <2>1, <2>2
<1>4. next \notin DOMAIN layouts
  BY DEF IInv, Shape, MemBelow, Below, MemRefs, Referenced
<1>5. \A i \in DOMAIN entries' \ {next} :
         i \in DOMAIN entries /\ entries'[i].pat = entries[i].pat
  BY <1>1 DEF AddRule, RuleDelete, Put
<1>. QED  BY <1>2, <1>3, <1>4, <1>5, LayoutsStay

(* One layout is stored, toggled or forgotten; the others stay.             *)
LEMMA OneLayoutChanges ==
  ASSUME GInv, ~Loading, ~Loading', NEW i, i \in resync' \/ InStep(i)',
         resync \subseteq resync',
         \A j \in Nat \ {i} :
            /\ Enabled(layouts, j)' <=> Enabled(layouts, j)
            /\ GeomRules(rules, j)' = GeomRules(rules, j)
            /\ Enabled(layouts, j) /\ j \in DOMAIN entries' =>
                 j \in DOMAIN entries /\ entries'[j].pat = entries[j].pat
  PROVE  GInv'
<1>1. ASSUME NEW j \in Nat \ resync', j # i
      PROVE  InStep(j)'
  <2>1. InStep(j)
    BY <1>1 DEF GInv
  <2>. QED  BY <1>1, <2>1, StaysInStep
<1>. QED  BY <1>1 DEF GInv

LEMMA StoreLayoutInStep ==
  ASSUME IInv, GInv, Idle, NEW i, StoreLayout(i, TRUE), UNCHANGED <<phase, rules>>,
         \A j \in DOMAIN entries' \ {next} :
            j \in DOMAIN entries /\ entries'[j].pat = entries[j].pat
  PROVE  GInv'
<1>1. ~Loading /\ ~Loading' /\ resync = {}
  BY IdleNotLoading DEF Loading, Idle
<1>2. next \notin DOMAIN layouts
  BY DEF IInv, Shape, MemBelow, Below, MemRefs, Referenced
<1>3. \A j : GeomRules(rules, j)' = GeomRules(rules, j)
  BY DEF GeomRules
<1>4. CASE UNCHANGED <<layouts, resync>>
  BY <1>1, <1>2, <1>3, <1>4, LayoutsStay
<1>5. CASE layouts' = Put(layouts, i, TRUE) /\ resync' = {i}
  <2>1. \A j \in Nat \ {i} : Enabled(layouts, j)' <=> Enabled(layouts, j)
    BY <1>5 DEF Enabled, Put
  <2>2. \A j : Enabled(layouts, j) => j \in DOMAIN layouts
    BY DEF Enabled
  <2>. QED  BY <1>1, <1>2, <1>3, <1>5, <2>1, <2>2, OneLayoutChanges
<1>. QED  BY <1>4, <1>5 DEF StoreLayout

LEMMA ForgetLayoutInStep ==
  ASSUME IInv, GInv, Idle, NEW i, NEW before, ForgetLayout(i, before, TRUE),
         UNCHANGED <<phase, resync>>, DOMAIN entries' = DOMAIN entries,
         \A j \in DOMAIN entries : entries'[j].pat = entries[j].pat
  PROVE  GInv'
<1>1. ~Loading /\ ~Loading'
  BY IdleNotLoading DEF Loading, Idle
<1>2. layouts' = Drop(layouts, {i}) /\ rules' = rules \ GeomRules(rules, i)
  BY DEF ForgetLayout
<1>3. InStep(i)'
  <2>1. ~Enabled(layouts, i)'
    BY <1>2 DEF Enabled, Drop
  <2>2. GeomRules(rules, i)' = {}
    BY <1>2 DEF GeomRules
  <2>. QED  BY <2>1, <2>2 DEF InStep
<1>4. \A j \in Nat \ {i} : Enabled(layouts, j)' <=> Enabled(layouts, j)
  BY <1>2 DEF Enabled, Drop
<1>5. \A j \in Nat \ {i} : GeomRules(rules, j)' = GeomRules(rules, j)
  BY <1>2 DEF GeomRules
<1>. QED  BY <1>1, <1>3, <1>4, <1>5, OneLayoutChanges

LEMMA LayoutOpsInStep ==
  ASSUME LayoutsReliable, IInv, GInv, LayoutOps
  PROVE  GInv'
<1>1. LayoutSaves = {TRUE}
  BY DEF LayoutSaves, LayoutsReliable
<1>2. ASSUME NEW w, NEW i, SaveAdoptedLayout(w, i, TRUE)
      PROVE  GInv'
  <2>1. Idle /\ StoreLayout(i, TRUE) /\ UNCHANGED <<phase, rules>>
        /\ entries' = Bind(entries, i, w)
    BY <1>2 DEF SaveAdoptedLayout
  <2>. QED  BY <2>1, BindingInStep, StoreLayoutInStep
<1>3. ASSUME NEW w, SaveNewLayout(w, TRUE)
      PROVE  GInv'
  <2>1. Idle /\ StoreLayout(next, TRUE) /\ UNCHANGED <<phase, rules>>
        /\ entries' = Put(entries, next, Entry(wins[w], w))
    BY <1>3 DEF SaveNewLayout
  <2>2. \A j \in DOMAIN entries' \ {next} :
            j \in DOMAIN entries /\ entries'[j].pat = entries[j].pat
    BY <2>1 DEF Put
  <2>. QED  BY <2>1, <2>2, StoreLayoutInStep
<1>4. ASSUME NEW w, ClearLayout(w, TRUE)
      PROVE  GInv'
  <2>1. Idle /\ UNCHANGED <<phase, resync>> /\ ~Loading /\ ~Loading'
    BY <1>4, IdleNotLoading DEF ClearLayout, Loading
  <2>2. DOMAIN entries' = DOMAIN entries
        /\ \A j \in DOMAIN entries : entries'[j].pat = entries[j].pat
    <3>1. entries' = entries \/ entries' \in Rebindings(entries, wins)
      BY <1>4 DEF ClearLayout
    <3>. QED  BY <3>1, RebindingsKeepPatterns
  <2>3. CASE \E i, before : ForgetLayout(i, before, TRUE)
    BY <2>1, <2>2, <2>3, ForgetLayoutInStep
  <2>4. CASE UNCHANGED <<layouts, rules>>
    BY <2>1, <2>2, <2>4, EntriesChange
  <2>. QED  BY <1>4, <2>3, <2>4 DEF ClearLayout
<1>5. ASSUME NEW i, DeleteLayout(i, TRUE)
      PROVE  GInv'
  <2>1. Idle /\ ForgetLayout(i, <<>>, TRUE) /\ UNCHANGED <<phase, entries, resync>>
    BY <1>5 DEF DeleteLayout
  <2>. QED  BY <2>1, ForgetLayoutInStep
<1>6. ASSUME NEW i, ToggleDisabled(i, TRUE)
      PROVE  GInv'
  <2>1. Idle /\ UNCHANGED <<phase, entries, rules>> /\ resync' = {i}
        /\ layouts' = [layouts EXCEPT ![i] = ~layouts[i]]
    BY <1>6 DEF ToggleDisabled
  <2>2. ~Loading /\ ~Loading' /\ resync = {}
    BY <2>1, IdleNotLoading DEF Loading, Idle
  <2>3. \A j \in Nat \ {i} : Enabled(layouts, j)' <=> Enabled(layouts, j)
    BY <2>1 DEF Enabled
  <2>4. \A j : GeomRules(rules, j)' = GeomRules(rules, j)
    BY <2>1 DEF GeomRules
  <2>. QED  BY <2>1, <2>2, <2>3, <2>4, OneLayoutChanges
<1>7. ASSUME NEW w, RestoreLayout(w)
      PROVE  GInv'
  <2>1. ~Loading /\ ~Loading' /\ UNCHANGED <<rules, layouts, resync>>
    BY <1>7, IdleNotLoading DEF RestoreLayout, Loading, owners, rest
  <2>2. (\E i : entries' = Bind(entries, i, w)) \/ entries' \in Rebindings(entries, wins)
    BY <1>7 DEF RestoreLayout
  <2>3. \A j \in DOMAIN entries' : j \in DOMAIN entries /\ entries'[j].pat = entries[j].pat
    BY <2>2, BindingInStep, RebindingsKeepPatterns
  <2>. QED  BY <2>1, <2>3, EntriesChange
<1>. QED  BY <1>1, <1>2, <1>3, <1>4, <1>5, <1>6, <1>7 DEF LayoutOps

-----------------------------------------------------------------------------
(* Every step keeps it: the saves and the faults                            *)

LEMMA NextInStep ==
  ASSUME LayoutsReliable, IInv, GInv, RoomForRules, [Next]_vars
  PROVE  GInv'
<1>1. ASSUME UNCHANGED <<phase, entries, rules, layouts, resync>>
      PROVE  GInv'
  BY <1>1 DEF GInv, Loading, InStep, Enabled, GeomRules
<1>2. CASE Start
  BY <1>2, StartInStep
<1>3. CASE WindowOps \/ SlotOps \/ NameOps \/ RuleOps \/ LayoutOps
  BY <1>3, WindowOpsInStep, SlotOpsInStep, NameOpsInStep, RuleOpsInStep, LayoutOpsInStep
<1>4. CASE Save \/ SaveFails
  BY <1>1, <1>4 DEF Save, SaveFails, mem, rest
<1>5. CASE \E i \in resync : SyncLayout(i)
  BY <1>5, SyncLayoutInStep
<1>6. CASE DeleteVictim
  <2>1. UNCHANGED <<phase, rules, layouts, resync>>
    BY <1>6 DEF DeleteVictim, owners
  <2>2. \A i \in DOMAIN entries' : i \in DOMAIN entries /\ entries'[i].pat = entries[i].pat
    BY <1>6 DEF DeleteVictim, Drop
  <2>3. CASE Loading
    BY <2>1, <2>3 DEF GInv, Loading
  <2>4. CASE ~Loading
    <3>1. ~Loading'
      BY <2>1, <2>4 DEF Loading
    <3>. QED  BY <2>1, <2>2, <2>4, <3>1, EntriesChange
  <2>. QED  BY <2>3, <2>4
<1>7. CASE Stop
  BY <1>7 DEF Stop, Forgotten, GInv, Loading
<1>8. ASSUME NEW s, Unreadable(s)
      PROVE  GInv'
  BY <1>1, <1>8 DEF Unreadable, mem, rest
<1>9. CASE UNCHANGED vars
  BY <1>1, <1>9 DEF vars
<1>. QED
  BY <1>2, <1>3, <1>4, <1>5, <1>6, <1>7, <1>8, <1>9 DEF Next, Faults

(* Between two handlers an enabled layout has exactly one geom rule, with   *)
(* the pattern of its entry, and a geom rule an enabled layout: while       *)
(* layouts.json can be written and the rule table has room.                 *)
THEOREM GeomRulesFollowLayouts ==
  LayoutsReliable /\ Spec /\ []RoomForRules => []GeomRulesInStep
<1>1. Init => GInv
  BY DEF Init, GInv, Loading
<1>2. ASSUME IInv, GInv
      PROVE  GeomRulesInStep
  <2>. SUFFICES ASSUME Idle
                PROVE  /\ \A i \in DOMAIN layouts : layouts[i] /\ i \in DOMAIN entries =>
                             \E r \in rules : GeomRules(rules, i) = {r} /\ r.pat = entries[i].pat
                       /\ \A r \in rules : r.geom => Enabled(layouts, r.id)
    BY DEF GeomRulesInStep
  <2>1. \A i \in Nat : InStep(i)
    BY <1>2, IdleNotLoading DEF Idle, GInv
  <2>2. DOMAIN layouts \subseteq Nat
    BY <1>2 DEF IInv, Shape, MemBelow, Below, MemRefs, Referenced
  <2>3. \A i \in DOMAIN layouts : layouts[i] => Enabled(layouts, i)
    BY DEF Enabled
  <2>4. ASSUME NEW r \in rules, r.geom
        PROVE  Enabled(layouts, r.id)
    <3>1. r.id \in Nat /\ r \in GeomRules(rules, r.id)
      BY <1>2, <2>4 DEF IInv, Shape, Rule, GeomRules
    <3>. QED  BY <2>1, <3>1 DEF InStep
  <2>. QED  BY <2>1, <2>2, <2>3, <2>4 DEF InStep
<1>3. CASE LayoutsReliable
  <2>1. IInv /\ GInv /\ RoomForRules /\ [Next]_vars => GInv'
    BY <1>3, NextInStep
  <2>2. MatchingReliable
    BY <1>3 DEF LayoutsReliable
  <2>. QED  BY <1>1, <1>2, <2>1, <2>2, InductiveInvariant, PTL DEF Spec
<1>. QED  BY <1>3
=============================================================================
