----------------------------- MODULE MatchStores -----------------------------
(***************************************************************************)
(* The persistent window identities of cofi and the stores that own them.  *)
(*                                                                         *)
(* matching.json holds the match entries (an id, a title pattern, the live *)
(* window it is bound to) and the id the next entry will get.  Four other  *)
(* files refer to entries by id: harpoon.json (slots), names.json,         *)
(* layouts.json and rules.json.  Every file is replaced as a whole (tmp +  *)
(* rename), one after the other, and the process may die between two of    *)
(* them.  A handler of the GTK main loop changes the memory and saves some *)
(* of the files in a fixed order; no other handler runs before it returns. *)
(*                                                                         *)
(* Abstractions.  A title is a value, a pattern is a title or Star (the     *)
(* pattern "*"); windows differ in nothing but their title, so the class,  *)
(* instance and type anchors are left out.  The text of a name and the     *)
(* geometry of a layout are left out.  Where the code takes the first      *)
(* record that matches, the model takes any of them.                       *)
(***************************************************************************)
EXTENDS Naturals, Sequences, FiniteSets

CONSTANTS
    Window,         \* X11 windows
    NoWindow,       \* bound_x11_id = 0
    Title,          \* window titles
    Star,            \* the pattern that matches every title
    Slot,           \* harpoon slots
    Features,       \* the owners the user works with, a subset of Owners
    MaxEntries,     \* MAX_WINDOWS, the capacity of the entry table
    MaxRules,       \* MAX_RULES, the capacity of the rule table
    MaxId,          \* bound of the model: the largest id ever allocated
    FailableStores, \* files whose save may fail (disk full, permissions)
    LossyStores     \* files that may be unreadable at the next start

Owners == {"slots", "names", "rules", "layouts"}
Stores == Owners \cup {"matching"}
Pattern == Title \cup {Star}

ASSUME ConstantsAssumption ==
    /\ NoWindow \notin Window
    /\ Star \notin Title
    /\ Features \subseteq Owners
    /\ MaxEntries \in Nat \ {0}
    /\ MaxRules \in Nat
    /\ MaxId \in Nat
    /\ FailableStores \subseteq Stores
    /\ LossyStores \subseteq Stores
    \* A rule is told from another by its id and its pattern, which is enough
    \* as long as matching.json keeps up with rules.json.
    /\ "rules" \in Features => "matching" \notin FailableStores \cup LossyStores

VARIABLES
    wins,     \* app->windows: the known windows and their titles
    phase,    \* where the process is: down, starting, or up
    entries,  \* app->matching: id -> [pat, bound]
    next,     \* app->matching.next_match_id
    slots,    \* app->harpoon: slot -> id, 0 when unassigned
    names,    \* app->names: the ids that have a name
    layouts,  \* app->layouts: id -> is the layout enabled
    rules,    \* app->rules_config: a set of [id, geom, pat]
    disk,     \* the five files
    todo,     \* saves the current handler still has to do, in order
    resync,   \* layouts the current handler still has to sync with the rules
    victim    \* entry the current handler deletes once todo is done, or 0

owners == <<slots, names, layouts, rules>>
mem    == <<entries, next, slots, names, layouts, rules>>
rest   == <<resync, victim>>
vars   == <<wins, phase, entries, next, slots, names, layouts, rules, disk,
            todo, resync, victim>>

Rule == [id : Nat, geom : BOOLEAN, pat : Pattern]
Phases == {"down", "repair", "loaded", "clean", "dirty", "synced", "up"}

-----------------------------------------------------------------------------
(* Functions on a finite set of ids                                        *)

Nothing == [i \in {} |-> 0]
Put(f, i, v) == [j \in DOMAIN f \cup {i} |-> IF j = i THEN v ELSE f[j]]
Drop(f, S) == [j \in DOMAIN f \ S |-> f[j]]

(* What refers to an entry.  A rule tagged "geom" belongs to its layout.   *)
SlotIds(sl) == {sl[s] : s \in Slot} \ {0}
RuleIds(rs) == {r.id : r \in rs}
OwnRuleIds(rs) == {r.id : r \in {q \in rs : ~q.geom}}
Referenced(sl, ns, ls, rs) ==
    SlotIds(sl) \cup ns \cup DOMAIN ls \cup RuleIds(rs)
MemRefs == Referenced(slots, names, layouts, rules)
DiskRefs == Referenced(disk.slots, disk.names, disk.layouts, disk.rules)

-----------------------------------------------------------------------------
(* The entry registry                                                       *)

(* match_entry_matches_window, wildcard_match                              *)
Matches(e, t) == e.pat = Star \/ e.pat = t
MatchingIds(w) == {i \in DOMAIN entries : Matches(entries[i], wins[w])}
BoundIds(es, w) == {i \in DOMAIN es : es[i].bound = w}
Bind(es, i, w) == [es EXCEPT ![i].bound = w]

(* allocate_match_id: ids are handed out in order and never taken back.    *)
\* Mutant: the counter is not advanced.
AfterAllocationStuck(n) == n
AfterAllocation(n) == n + 1

CanAllocate(es) == Cardinality(DOMAIN es) < MaxEntries
Allocatable(es) == CanAllocate(es) /\ next <= MaxId
Entry(p, w) == [pat |-> p, bound |-> w]

(* A bound window that is alive keeps its entry; every other entry is      *)
(* bound to some live window it matches, or to none.                       *)
Rebound(e, ws) ==
    LET fits == {w \in DOMAIN ws : Matches(e, ws[w])}
    IN  IF e.bound \in DOMAIN ws THEN {e.bound}
        ELSE IF fits # {} THEN fits
        ELSE {NoWindow}
Rebindings(es, ws) ==
    {[i \in DOMAIN es |-> Entry(es[i].pat, b[i])] :
        b \in {f \in [DOMAIN es -> Window \cup {NoWindow}] :
                 \A i \in DOMAIN es : f[i] \in Rebound(es[i], ws)}}
SaveIfChanged(es, fs) == IF fs = es THEN <<>> ELSE <<"matching">>

-----------------------------------------------------------------------------
(* The rules                                                                *)

GeomRules(rs, i) == {r \in rs : r.geom /\ r.id = i}
Enabled(ls, i) == i \in DOMAIN ls /\ ls[i]

(* geom_rule_sync_for_layout: an enabled layout whose entry exists has one  *)
(* geom rule, which carries the pattern of the entry; no other has one.     *)
\* Mutant: the pattern of a rule that exists is not refreshed.
SyncedRulesStale(i) ==
    LET old == GeomRules(rules, i)
        new == [id |-> i, geom |-> TRUE, pat |-> entries[i].pat]
    IN  IF ~(Enabled(layouts, i) /\ i \in DOMAIN entries) THEN rules \ old
        ELSE IF old = {} /\ Cardinality(rules) < MaxRules THEN rules \cup {new}
        ELSE rules
SyncedRules(i) ==
    LET old == GeomRules(rules, i)
        new == [id |-> i, geom |-> TRUE, pat |-> entries[i].pat]
    IN  IF ~(Enabled(layouts, i) /\ i \in DOMAIN entries) THEN rules \ old
        ELSE IF old # {} THEN (rules \ old) \cup {new}
        ELSE IF Cardinality(rules) < MaxRules THEN rules \cup {new}
        ELSE rules

(* What a save of rules.json writes: the pattern of the entry, or the       *)
(* cached pattern when the entry is gone.                                   *)
WithPatterns(rs, es) ==
    {[r EXCEPT !.pat = IF r.id \in DOMAIN es THEN es[r.id].pat ELSE r.pat] :
        r \in rs}

-----------------------------------------------------------------------------
(* The files                                                                *)

EmptySlots == [s \in Slot |-> 0]
Patterns(es) == [i \in DOMAIN es |-> es[i].pat]

WithFile(s) ==
    CASE s = "matching" -> [disk EXCEPT !.pats = Patterns(entries), !.next = next]
      [] s = "slots"    -> [disk EXCEPT !.slots = slots]
      [] s = "names"    -> [disk EXCEPT !.names = names]
      [] s = "layouts"  -> [disk EXCEPT !.layouts = layouts]
      [] s = "rules"    -> [disk EXCEPT !.rules = WithPatterns(rules, entries)]

WithoutFile(s) ==
    CASE s = "matching" -> [disk EXCEPT !.pats = Nothing, !.next = 1]
      [] s = "slots"    -> [disk EXCEPT !.slots = EmptySlots]
      [] s = "names"    -> [disk EXCEPT !.names = {}]
      [] s = "layouts"  -> [disk EXCEPT !.layouts = Nothing]
      [] s = "rules"    -> [disk EXCEPT !.rules = {}]

(* The order in which a handler saves what it gave a new entry, and what it *)
(* took one from.  A slot is taken away with its entry, in the first order. *)
\* Mutants: the owner is saved before its entry; its removal is not saved.
EntryLast(owner) == <<owner, "matching">>
OwnerNever(owner) == <<>>
EntryFirst(owner) == <<"matching", owner>>
OwnerFirst(owner) == <<owner>>

(* The saves of layouts.json are the ones whose failure stops the handler.  *)
LayoutSaves == IF "layouts" \in FailableStores THEN BOOLEAN ELSE {TRUE}

Idle == phase = "up" /\ todo = <<>> /\ resync = {} /\ victim = 0

-----------------------------------------------------------------------------
(* Start: init_app_data loads matching.json, names.json and rules.json;     *)
(* cofi_main loads the slots and the layouts, brings the geom rules in step *)
(* with the layouts and collects unreferenced entries; init_window_list     *)
(* binds the entries to the windows that are there.                         *)

Forgotten ==
    /\ entries' = Nothing /\ next' = 1
    /\ slots' = EmptySlots /\ names' = {} /\ layouts' = Nothing /\ rules' = {}
    /\ todo' = <<>> /\ resync' = {} /\ victim' = 0
    /\ wins' = Nothing

(* normalize_loaded_match_entries: the counter is above every id.           *)
\* Mutant: next_match_id of the file is not used.
LoadedNextFromIds(d) ==
    IF DOMAIN d.pats = {} THEN 1
    ELSE 1 + (CHOOSE i \in DOMAIN d.pats : \A j \in DOMAIN d.pats : j <= i)
LoadedNext(d) ==
    IF \A i \in DOMAIN d.pats : i < d.next THEN d.next
    ELSE 1 + (CHOOSE i \in DOMAIN d.pats : \A j \in DOMAIN d.pats : j <= i)

LoadMatching ==
    /\ phase = "down"
    /\ phase' = "repair"
    /\ entries' = [i \in DOMAIN disk.pats |-> Entry(disk.pats[i], NoWindow)]
    /\ next' = LoadedNext(disk)
    /\ names' = disk.names
    /\ rules' = disk.rules
    /\ UNCHANGED <<wins, slots, layouts, disk, todo, rest>>

(* load_rules_config: a rule whose entry is gone gets a new one for its     *)
(* cached pattern, or is dropped when the table is full.                    *)
Orphans == {r \in rules : r.id \notin DOMAIN entries}

RepairRule(r) ==
    /\ phase = "repair"
    /\ r \in Orphans
    /\ \/ /\ Allocatable(entries)
          /\ entries' = Put(entries, next, Entry(r.pat, NoWindow))
          /\ next' = AfterAllocation(next)
          /\ rules' = (rules \ {r}) \cup {[r EXCEPT !.id = next]}
       \/ /\ ~CanAllocate(entries)
          /\ rules' = rules \ {r}
          /\ UNCHANGED <<entries, next>>
    /\ UNCHANGED <<wins, phase, slots, names, layouts, disk, todo, rest>>

RulesLoaded ==
    /\ phase = "repair"
    /\ Orphans = {}
    /\ phase' = "loaded"
    /\ rules' = WithPatterns(rules, entries)
    /\ todo' = <<"matching", "rules">>
    /\ UNCHANGED <<wins, entries, next, slots, names, layouts, disk, rest>>

LoadOwners ==
    /\ phase = "loaded"
    /\ todo = <<>>
    /\ slots' = disk.slots
    /\ layouts' = disk.layouts
    /\ LET stale == {r \in rules : r.geom /\ ~Enabled(disk.layouts, r.id)}
       IN  /\ rules' = rules \ stale
           /\ phase' = IF stale = {} THEN "clean" ELSE "dirty"
    /\ resync' = DOMAIN disk.layouts
    /\ UNCHANGED <<wins, entries, next, names, disk, todo, victim>>

(* geom_rule_sync_for_layout, at the start and after a change of a layout   *)
SyncLayout(i) ==
    /\ todo = <<>>
    /\ i \in resync
    /\ resync' = resync \ {i}
    /\ rules' = SyncedRules(i)
    /\ IF rules' = rules THEN UNCHANGED <<todo, phase>>
       ELSE /\ todo' = <<"matching", "rules">>
            /\ phase' = IF phase = "clean" THEN "dirty" ELSE phase
    /\ UNCHANGED <<wins, entries, next, slots, names, layouts, disk, victim>>

LayoutsSynced ==
    /\ phase \in {"clean", "dirty"}
    /\ todo = <<>> /\ resync = {}
    /\ phase' = "synced"
    /\ todo' = IF phase = "dirty" THEN <<"matching", "rules">> ELSE <<>>
    /\ UNCHANGED <<wins, mem, disk, rest>>

(* matching_run_gc, then init_window_list                                   *)
Collected(es) == [i \in DOMAIN es \cap MemRefs |-> es[i]]

Settle(ws) ==
    /\ phase = "synced"
    /\ todo = <<>>
    /\ phase' = "up"
    /\ wins' = ws
    /\ entries' \in Rebindings(Collected(entries), ws)
    /\ todo' = SaveIfChanged(entries, entries')
    /\ UNCHANGED <<next, owners, disk, rest>>

-----------------------------------------------------------------------------
(* Windows: _NET_CLIENT_LIST and show_window, a title, a slot activated     *)

WindowLists == UNION {[S -> Title] : S \in SUBSET Window}

ClientList(ws) ==
    /\ Idle
    /\ wins' = ws
    /\ entries' \in Rebindings(entries, ws)
    /\ todo' = SaveIfChanged(entries, entries')
    /\ UNCHANGED <<phase, next, owners, disk, rest>>

TitleChange(w, t) ==
    /\ Idle
    /\ w \in DOMAIN wins
    /\ wins' = [wins EXCEPT ![w] = t]
    /\ UNCHANGED <<phase, mem, disk, todo, rest>>

(* get_slot_window rebinds and does not save                                *)
GetSlotWindow(s) ==
    /\ Idle
    /\ slots[s] \in DOMAIN entries
    /\ entries[slots[s]].bound = NoWindow
    /\ entries' \in Rebindings(entries, wins)
    /\ UNCHANGED <<wins, phase, next, owners, disk, todo, rest>>

-----------------------------------------------------------------------------
(* Harpoon slots                                                            *)

(* harpoon_assign_or_toggle_window: a slot that shows the window is cleared;*)
(* otherwise the window leaves its other slots and gets this one, with a    *)
(* new entry.                                                               *)
HarpoonToggle(w, s) ==
    /\ Idle
    /\ w \in DOMAIN wins
    /\ slots[s] \in MatchingIds(w)
    /\ slots' = [slots EXCEPT ![s] = 0]
    /\ entries' = Drop(entries, {slots[s]})
    /\ todo' = EntryFirst("slots")
    /\ UNCHANGED <<wins, phase, next, names, layouts, rules, disk, rest>>

HarpoonAssign(w, s) ==
    /\ Idle
    /\ w \in DOMAIN wins
    /\ slots[s] \notin MatchingIds(w)
    /\ LET left == {q \in Slot \ {s} : slots[q] \in MatchingIds(w)}
           kept == Drop(entries, {slots[q] : q \in left \cup {s}})
           rest_of == [q \in Slot |-> IF q \in left THEN 0 ELSE slots[q]]
       IN  \/ /\ Allocatable(kept)
              /\ entries' = Put(kept, next, Entry(wins[w], w))
              /\ next' = AfterAllocation(next)
              /\ slots' = [rest_of EXCEPT ![s] = next]
           \/ /\ ~CanAllocate(kept)
              /\ entries' = kept
              /\ slots' = rest_of
              /\ next' = next
    /\ todo' = EntryFirst("slots")
    /\ UNCHANGED <<wins, phase, names, layouts, rules, disk, rest>>

(* perform_harpoon_delete                                                   *)
HarpoonDelete(s) ==
    /\ Idle
    /\ slots[s] # 0
    /\ slots' = [slots EXCEPT ![s] = 0]
    /\ entries' = Drop(entries, {slots[s]})
    /\ todo' = EntryFirst("slots")
    /\ UNCHANGED <<wins, phase, next, names, layouts, rules, disk, rest>>

-----------------------------------------------------------------------------
(* Names                                                                    *)

(* names_assign_window: the name of a window it already fits is changed in  *)
(* place, otherwise a new entry gets it.                                    *)
RenameWindow(w, i) ==
    /\ Idle
    /\ w \in DOMAIN wins
    /\ i \in names \cap MatchingIds(w)
    /\ entries' = Bind(entries, i, w)
    /\ todo' = EntryFirst("names")
    /\ UNCHANGED <<wins, phase, next, owners, disk, rest>>

\* Mutant: any entry that fits the window gets the name.
NameWindowAdopting(w) ==
    /\ Idle
    /\ w \in DOMAIN wins
    /\ names \cap MatchingIds(w) = {}
    /\ \E i \in MatchingIds(w) : names' = names \cup {i} /\ entries' = Bind(entries, i, w)
    /\ todo' = EntryFirst("names")
    /\ UNCHANGED <<wins, phase, next, slots, layouts, rules, disk, rest>>

(* A name table that is full leaves the new entry without an owner.         *)
NameWindow(w) ==
    /\ Idle
    /\ w \in DOMAIN wins
    /\ names \cap MatchingIds(w) = {}
    /\ Allocatable(entries)
    /\ entries' = Put(entries, next, Entry(wins[w], w))
    /\ next' = AfterAllocation(next)
    /\ IF Cardinality(names) < MaxEntries
       THEN names' = names \cup {next} /\ todo' = EntryFirst("names")
       ELSE UNCHANGED <<names, todo>>
    /\ UNCHANGED <<wins, phase, slots, layouts, rules, disk, rest>>

(* perform_name_delete: the name goes first, its entry follows.             *)
NameDelete(i) ==
    /\ Idle
    /\ i \in names
    /\ names' = names \ {i}
    /\ todo' = OwnerFirst("names")
    /\ victim' = i
    /\ UNCHANGED <<wins, phase, entries, next, slots, layouts, rules, disk, resync>>

-----------------------------------------------------------------------------
(* Rules of the user                                                        *)

(* save_rule_values: the entry comes first; a rule table that is full       *)
(* leaves it without an owner, and nothing is saved.                        *)
AddRule(p) ==
    /\ Idle
    /\ Allocatable(entries)
    /\ entries' = Put(entries, next, Entry(p, NoWindow))
    /\ next' = AfterAllocation(next)
    /\ IF Cardinality(rules) < MaxRules
       THEN /\ rules' = rules \cup {[id |-> next, geom |-> FALSE, pat |-> p]}
            /\ todo' = EntryFirst("rules")
       ELSE UNCHANGED <<rules, todo>>
    /\ UNCHANGED <<wins, phase, slots, names, layouts, disk, rest>>

(* perform_rule_delete refuses the rules that carry a tag.                  *)
RuleDelete(r) ==
    /\ Idle
    /\ r \in rules /\ ~r.geom
    /\ rules' = rules \ {r}
    /\ todo' = OwnerFirst("rules")
    /\ victim' = r.id
    /\ UNCHANGED <<wins, phase, entries, next, slots, names, layouts, disk, resync>>

-----------------------------------------------------------------------------
(* Layouts                                                                  *)

(* save_window_geometry_for_window takes the entry of a layout that fits    *)
(* the window, else any entry that fits it, else a new one.                 *)
Adoptable(w) ==
    IF DOMAIN layouts \cap MatchingIds(w) # {} THEN DOMAIN layouts \cap MatchingIds(w)
    ELSE MatchingIds(w)

StoreLayout(i, ok) ==
    IF i \in DOMAIN layouts \/ Cardinality(DOMAIN layouts) < MaxEntries
    THEN /\ layouts' = Put(layouts, i, TRUE)
         /\ todo' = IF ok THEN EntryFirst("layouts") ELSE <<"matching">>
         /\ resync' = IF ok THEN {i} ELSE {}
    ELSE UNCHANGED <<layouts, todo, resync>>

SaveAdoptedLayout(w, i, ok) ==
    /\ Idle
    /\ w \in DOMAIN wins
    /\ i \in Adoptable(w)
    /\ entries' = Bind(entries, i, w)
    /\ StoreLayout(i, ok)
    /\ UNCHANGED <<wins, phase, next, slots, names, rules, disk, victim>>

SaveNewLayout(w, ok) ==
    /\ Idle
    /\ w \in DOMAIN wins
    /\ MatchingIds(w) = {}
    /\ Allocatable(entries)
    /\ entries' = Put(entries, next, Entry(wins[w], w))
    /\ next' = AfterAllocation(next)
    /\ StoreLayout(next, ok)
    /\ UNCHANGED <<wins, phase, slots, names, rules, disk, victim>>

(* restore_window_geometry_for_window: an enabled layout that fits binds    *)
(* its entry; without one, a window no entry is bound to has them rebound.  *)
RestoreLayout(w) ==
    /\ Idle
    /\ w \in DOMAIN wins
    /\ LET fits == {i \in MatchingIds(w) : Enabled(layouts, i)}
       IN  \/ /\ \E i \in fits : entries' = Bind(entries, i, w)
              /\ todo' = <<"matching">>
           \/ /\ fits = {} /\ BoundIds(entries, w) = {}
              /\ entries' \in Rebindings(entries, wins)
              /\ todo' = SaveIfChanged(entries, entries')
    /\ UNCHANGED <<wins, phase, next, owners, disk, rest>>

(* The tail of every deletion of a layout: layouts.json, the geom rule,     *)
(* rules.json, the entry, matching.json.  When layouts.json cannot be       *)
(* written the layout is gone from memory and the rest is left alone.       *)
ForgetLayout(i, before, ok) ==
    /\ layouts' = Drop(layouts, {i})
    /\ IF ok
       THEN /\ rules' = rules \ GeomRules(rules, i)
            /\ todo' = before \o OwnerFirst("layouts")
                         \o (IF rules' = rules THEN <<>> ELSE <<"rules">>)
            /\ victim' = i
       ELSE /\ todo' = before
            /\ UNCHANGED <<rules, victim>>

(* clear_window_geometry_for_window                                         *)
ClearLayout(w, ok) ==
    /\ Idle
    /\ w \in DOMAIN wins
    /\ entries' \in IF BoundIds(entries, w) # {} THEN {entries}
                    ELSE Rebindings(entries, wins)
    /\ LET saves == SaveIfChanged(entries, entries')
           bound == BoundIds(entries', w)
       IN  \/ \E i \in bound \cap DOMAIN layouts : ForgetLayout(i, saves, ok)
           \/ /\ bound = {} \/ ~(bound \subseteq DOMAIN layouts)
              /\ todo' = saves
              /\ UNCHANGED <<layouts, rules, victim>>
    /\ UNCHANGED <<wins, phase, next, slots, names, disk, resync>>

(* geom_delete_confirmed                                                    *)
DeleteLayout(i, ok) ==
    /\ Idle
    /\ i \in DOMAIN layouts
    /\ ForgetLayout(i, <<>>, ok)
    /\ UNCHANGED <<wins, phase, entries, next, slots, names, disk, resync>>

(* geom_toggle_disabled                                                     *)
ToggleDisabled(i, ok) ==
    /\ Idle
    /\ i \in DOMAIN layouts
    /\ layouts' = [layouts EXCEPT ![i] = ~layouts[i]]
    /\ todo' = IF ok THEN <<"layouts">> ELSE <<>>
    /\ resync' = IF ok THEN {i} ELSE {}
    /\ UNCHANGED <<wins, phase, entries, next, slots, names, rules, disk, victim>>

-----------------------------------------------------------------------------
(* handle_pattern_edit_key_press: every entry can be edited.  The layouts   *)
(* and geom rules that carry the old or the new pattern are synced.         *)
SharePattern(P) ==
    {j \in DOMAIN layouts \cap DOMAIN entries' : entries'[j].pat \in P}
        \cup {r.id : r \in {q \in rules : q.geom /\ q.pat \in P}}

EditPattern(i, p) ==
    /\ Idle
    /\ i \in DOMAIN entries
    /\ entries' = [entries EXCEPT ![i] = Entry(p, entries[i].bound)]
    /\ todo' = IF i \in RuleIds(rules) THEN <<"matching", "rules">> ELSE <<"matching">>
    /\ resync' = IF i \in DOMAIN layouts THEN SharePattern({entries[i].pat, p}) ELSE {}
    /\ UNCHANGED <<wins, phase, next, owners, disk, victim>>

-----------------------------------------------------------------------------
(* The rest of a handler, and what can go wrong                             *)

(* cofi_json_save_root replaces the file as a whole.                        *)
Save ==
    /\ todo # <<>>
    /\ disk' = WithFile(Head(todo))
    /\ todo' = Tail(todo)
    /\ UNCHANGED <<wins, phase, mem, rest>>

(* It fails: the callers log and go on.                                     *)
SaveFails ==
    /\ todo # <<>>
    /\ Head(todo) \in FailableStores \ {"layouts"}
    /\ todo' = Tail(todo)
    /\ UNCHANGED <<wins, phase, mem, disk, rest>>

(* match_entry_delete_by_match_id, save_match_entries                       *)
DeleteVictim ==
    /\ todo = <<>>
    /\ victim # 0
    /\ entries' = Drop(entries, {victim})
    /\ victim' = 0
    /\ todo' = <<"matching">>
    /\ UNCHANGED <<wins, phase, next, owners, disk, resync>>

(* The daemon ends, between two handlers or in the middle of one.           *)
Stop ==
    /\ phase # "down"
    /\ phase' = "down"
    /\ Forgotten
    /\ UNCHANGED disk

(* A file is missing or does not parse at the next start.                   *)
Unreadable(s) ==
    /\ phase = "down"
    /\ disk' = WithoutFile(s)
    /\ UNCHANGED <<wins, phase, mem, todo, rest>>

-----------------------------------------------------------------------------
Init ==
    /\ phase = "down"
    /\ wins = Nothing
    /\ entries = Nothing /\ next = 1
    /\ slots = EmptySlots /\ names = {} /\ layouts = Nothing /\ rules = {}
    /\ todo = <<>> /\ resync = {} /\ victim = 0
    /\ disk = [pats |-> Nothing, next |-> 1, slots |-> EmptySlots,
               names |-> {}, layouts |-> Nothing, rules |-> {}]

Start ==
    \/ LoadMatching
    \/ \E r \in rules : RepairRule(r)
    \/ RulesLoaded
    \/ LoadOwners
    \/ LayoutsSynced
    \/ \E ws \in WindowLists : Settle(ws)

WindowOps ==
    \/ \E ws \in WindowLists : ClientList(ws)
    \/ \E w \in Window, t \in Title : TitleChange(w, t)
    \/ \E i \in DOMAIN entries, p \in Pattern : EditPattern(i, p)

SlotOps ==
    /\ "slots" \in Features
    /\ \/ \E w \in Window, s \in Slot : HarpoonToggle(w, s) \/ HarpoonAssign(w, s)
       \/ \E s \in Slot : HarpoonDelete(s) \/ GetSlotWindow(s)

NameOps ==
    /\ "names" \in Features
    /\ \/ \E w \in Window, i \in names : RenameWindow(w, i)
       \/ \E w \in Window : NameWindow(w)
       \/ \E i \in names : NameDelete(i)

RuleOps ==
    /\ "rules" \in Features
    /\ \/ \E p \in Pattern : AddRule(p)
       \/ \E r \in rules : RuleDelete(r)

LayoutOps ==
    /\ "layouts" \in Features
    /\ \E ok \in LayoutSaves :
         \/ \E w \in Window, i \in DOMAIN entries : SaveAdoptedLayout(w, i, ok)
         \/ \E w \in Window : SaveNewLayout(w, ok) \/ ClearLayout(w, ok)
         \/ \E i \in DOMAIN layouts : DeleteLayout(i, ok) \/ ToggleDisabled(i, ok)
         \/ \E w \in Window : RestoreLayout(w)

Faults ==
    \/ SaveFails
    \/ Stop
    \/ \E s \in LossyStores : Unreadable(s)

Next ==
    \/ Start
    \/ WindowOps \/ SlotOps \/ NameOps \/ RuleOps \/ LayoutOps
    \/ Save
    \/ \E i \in resync : SyncLayout(i)
    \/ DeleteVictim
    \/ Faults

Spec == Init /\ [][Next]_vars

-----------------------------------------------------------------------------
(* Properties                                                               *)

(* No two owners of one kind, and no two of slot, name and user rule, have *)
(* the same entry, in memory and whenever the process dies on disk.        *)
OneSlotEach(sl) == \A s, q \in Slot : sl[s] = sl[q] /\ sl[s] # 0 => s = q
OneRuleEach(rs) == \A r, q \in rs : r.id = q.id /\ r.geom = q.geom => r = q
Apart(A, B, C) == A \cap B = {} /\ A \cap C = {} /\ B \cap C = {}
Distinct(sl, ns, rs) ==
    /\ OneSlotEach(sl)
    /\ OneRuleEach(rs)
    /\ Apart(SlotIds(sl), ns, OwnRuleIds(rs))
Exclusive ==
    /\ Distinct(slots, names, rules)
    /\ Distinct(disk.slots, disk.names, disk.rules)

(* A new entry gets an id that nothing refers to, in memory or in a file.  *)
FreshIds ==
    [][\A i \in DOMAIN entries' \ DOMAIN entries :
          phase # "down" => i \notin MemRefs \cup DiskRefs \cup DOMAIN disk.pats]_vars

(* The counter in matching.json never goes back and a new id is at or above*)
(* it: an id that was ever saved is never given to another entry.          *)
NeverReused ==
    [][/\ disk'.next >= disk.next
       /\ \A i \in DOMAIN entries' \ DOMAIN entries :
             phase # "down" => i >= disk.next]_vars

(* Names and rules refer to entries that exist, wherever the process dies: *)
(* an entry is saved before its name or rule, and deleted after it.        *)
NamesRulesResolve ==
    /\ disk.names \subseteq DOMAIN disk.pats
    /\ RuleIds(disk.rules) \subseteq DOMAIN disk.pats

(* Between two handlers the files hold what the memory holds, but for an   *)
(* entry that no owner got.                                                *)
Durable ==
    Idle =>
        /\ disk.slots = slots /\ disk.names = names /\ disk.layouts = layouts
        /\ disk.rules = WithPatterns(rules, entries)
        /\ DOMAIN disk.pats \subseteq DOMAIN entries
        /\ DOMAIN entries \cap MemRefs \subseteq DOMAIN disk.pats
        /\ \A i \in DOMAIN disk.pats : disk.pats[i] = entries[i].pat

(* Between two handlers an enabled layout has exactly one geom rule, with  *)
(* the pattern of its entry, and a geom rule has an enabled layout.        *)
GeomRulesInStep ==
    Idle =>
        /\ \A i \in DOMAIN layouts : layouts[i] /\ i \in DOMAIN entries =>
              \E r \in rules : GeomRules(rules, i) = {r} /\ r.pat = entries[i].pat
        /\ \A r \in rules : r.geom => Enabled(layouts, r.id)
=============================================================================
