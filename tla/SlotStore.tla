----------------------------- MODULE SlotStore -----------------------------
(* The shared store of slots, ~/.config/cofi/harpoon.json                  *)
(* (src/src/core/slot_store/slot_store.c), as the provider tabs use it     *)
(* with Ctrl+key and Alt+key (src/src/harpoon/key_handler_harpoon.c) and   *)
(* as the window slots are copied into it at every save                    *)
(* (src/src/harpoon/harpoon_config.c).  MatchStores has the entries the    *)
(* window slots refer to; here they are ids, and the file is the subject.  *)
EXTENDS Naturals, Sequences, FiniteSets, Places

CONSTANTS Tabs,        \* ids of provider tabs with slots
          Payloads,    \* what their rows hand out
          Keys,        \* indexes of slots, 0..MAX_HARPOON_SLOTS-1
          MatchIds,    \* ids of match entries, as text, not "0"
          Files        \* harpoon.json as the program may find it

VARIABLE sl

Windows == "windows"         \* harpoon_tab_id
NoPayload == "none"          \* no row, or one that has no payload
NoSlot == "0"                \* an id that deserializes to a free slot

-----------------------------------------------------------------------------
(* SlotEntry; in a file the key is a character, a letter of either case.   *)
Entry(tab, key, payload) == [tab |-> tab, key |-> key, payload |-> payload]

(* find_entry: the place of the first entry of a slot, or 0. *)
First(at) == IF at = {} THEN 0 ELSE Nth(at, 1)
Find(store, tab, key) == First({n \in DOMAIN store : store[n].tab = tab /\ store[n].key = key})
SlotLookup(store, tab, key) ==
    LET n == Find(store, tab, key) IN IF n = 0 THEN NoPayload ELSE store[n].payload

SlotAssign(store, tab, key, payload) ==
    LET n == Find(store, tab, key) IN
    IF n = 0 THEN Append(store, Entry(tab, key, payload))
    ELSE [store EXCEPT ![n] = Entry(tab, key, payload)]

(* slot_clear, of each of some keys. *)
SlotsClear(store, tab, keys) == Picked(store, DOMAIN store \ {Find(store, tab, k) : k \in keys})
SlotClear(store, tab, key) == SlotsClear(store, tab, {key})

(* slot_for_payload: the first one. *)
SlotForPayload(store, tab, payload) ==
    First({n \in DOMAIN store : store[n].tab = tab /\ store[n].payload = payload})

-----------------------------------------------------------------------------
(* save_harpoon_slots: the window slots first, one key after the other,    *)
(* which assigns or clears the entry of each; then the file as a whole,    *)
(* with canonical keys.                                                    *)
SyncWindowSlots(s) ==
    LET free == {k \in Keys : s.slots[k] = NoSlot}
        slot == [k \in Keys |-> Entry(Windows, k, s.slots[k])]
        set == [n \in DOMAIN s.store |->
                   LET k == s.store[n].key IN
                   IF k \in Keys \ free /\ n = Find(s.store, Windows, k) THEN slot[k] ELSE s.store[n]]
        new == {k \in Keys \ free : Find(s.store, Windows, k) = 0}
    IN  SlotsClear(set, Windows, free) \o Picked(slot, new)

AsWritten(store) ==
    [n \in DOMAIN store |-> [tab |-> store[n].tab, key |-> store[n].key,
                             upper |-> FALSE, payload |-> store[n].payload]]

(* The file may be one that cannot be written. *)
Saved(s) ==
    LET t == [s EXCEPT !.store = SyncWindowSlots(s)] IN
    {[t EXCEPT !.file = AsWritten(t.store), !.behind = FALSE],
     [t EXCEPT !.behind = TRUE]}

(* slot_load: an entry whose key is a small letter takes the place of the  *)
(* first one of its slot.  find_entry compares characters, so that one     *)
(* with a capital is found nowhere and gets a place of its own, but its    *)
(* key is stored in canonical form.                                        *)
SlotLoad(file) ==
    LET same(n) == {m \in DOMAIN file : file[m].tab = file[n].tab /\ file[m].key = file[n].key}
        first(n) == \A m \in same(n) : n <= m
        over(n) == {n} \cup {m \in same(n) : first(n) /\ ~file[m].upper}
        last(n) == CHOOSE m \in over(n) : \A j \in over(n) : j <= m
        entries == [n \in DOMAIN file |-> Entry(file[n].tab, file[n].key, file[last(n)].payload)]
    IN  Picked(entries, {n \in DOMAIN file : file[n].upper \/ first(n)})

(* hydrate_window_slots_from_store.  The payload of a window slot is a     *)
(* number; anything else leaves the slot free, and the next save drops it. *)
Hydrated(store) ==
    [k \in Keys |-> LET p == SlotLookup(store, Windows, k) IN
                    IF p \in MatchIds THEN p ELSE NoSlot]
Loaded(s, read) ==
    [s EXCEPT !.store = read, !.slots = Hydrated(read), !.behind = s.file # AsWritten(read)]

-----------------------------------------------------------------------------
\* Mutant: the payload keeps the slot it had.
CtrlKeyTwice(tab, key, payload) ==
    /\ payload # NoPayload
    /\ sl' \in Saved([sl EXCEPT !.store =
                  IF SlotLookup(sl.store, tab, key) = payload THEN SlotClear(sl.store, tab, key)
                  ELSE SlotAssign(sl.store, tab, key, payload)])

(* handle_harpoon_assignment on a provider tab: the same payload again     *)
(* clears the slot, a payload leaves the slot it had.                      *)
CtrlKey(tab, key, payload) ==
    /\ payload # NoPayload
    /\ LET had == SlotForPayload(sl.store, tab, payload)
           store == IF SlotLookup(sl.store, tab, key) = payload THEN SlotClear(sl.store, tab, key)
                    ELSE LET free == IF had = 0 THEN sl.store
                                     ELSE SlotClear(sl.store, tab, sl.store[had].key)
                         IN  SlotAssign(free, tab, key, payload)
       IN  sl' \in Saved([sl EXCEPT !.store = store])

(* harpoon_assign_or_toggle_window, of which only the slots are kept here: *)
(* the slot is given up, or the window leaves the slots whose entries fit  *)
(* it and gets this one with a new id, if one is to be had.                *)
Unassigned(s, keys) ==
    [s EXCEPT !.slots = [k \in Keys |-> IF k \in keys THEN NoSlot ELSE @[k]],
              !.store = SlotsClear(@, Windows, keys)]
AssignWindowToSlot(s, k, id) ==
    [s EXCEPT !.slots[k] = id, !.store = SlotAssign(@, Windows, k, id)]

ToggleOff(k) == sl.slots[k] # NoSlot /\ sl' \in Saved(Unassigned(sl, {k}))
MoveWindowHere(k) ==
    \E left \in SUBSET {q \in Keys \ {k} : sl.slots[q] # NoSlot},
       id \in {i \in MatchIds : \A n \in DOMAIN sl.store : sl.store[n].payload # i} :
        sl' \in Saved(AssignWindowToSlot(Unassigned(sl, left), k, id))

(* Ctrl+D on the harpoon tab: the slot is kept in s_pending_delete_slot    *)
(* while the overlay asks.  Nothing else changes the slots meanwhile, the  *)
(* overlay has the keys.                                                   *)
AskDelete(k) == sl.slots[k] # NoSlot /\ sl' = [sl EXCEPT !.asked = {k}]
AnswerDelete ==
    \E k \in sl.asked :
        \/ sl' = [sl EXCEPT !.asked = {}]
        \/ sl' \in Saved([Unassigned(sl, {k}) EXCEPT !.asked = {}])

(* Alt+key, or "@key" after the command of the tab: the payload is handed  *)
(* to the tab, and when that opens it, cofi hides; hide_window and         *)
(* close_window save.                                                      *)
Recall(tab, key) ==
    /\ SlotLookup(sl.store, tab, key) # NoPayload
    /\ sl' \in Saved(sl)
HideWindow == sl' \in Saved([sl EXCEPT !.asked = {}])

(* The process ends at any time; the next one reads the file, or fails to. *)
Restart ==
    \/ sl' = [Loaded(sl, SlotLoad(sl.file)) EXCEPT !.asked = {}]
    \/ sl' = [Loaded(sl, <<>>) EXCEPT !.asked = {}]

Init == \E f \in Files :
    sl = Loaded([store |-> <<>>, slots |-> [k \in Keys |-> NoSlot], file |-> f,
                 behind |-> FALSE, asked |-> {}], SlotLoad(f))

Next ==
    \/ sl.asked = {} /\ \E k \in Keys :
        \/ \E t \in Tabs, p \in Payloads \cup {NoPayload} : CtrlKey(t, k, p)
        \/ \E t \in Tabs : Recall(t, k)
        \/ ToggleOff(k) \/ MoveWindowHere(k) \/ AskDelete(k)
    \/ AnswerDelete \/ HideWindow \/ Restart

Spec == Init /\ [][Next]_sl

-----------------------------------------------------------------------------
(* A key of a tab stands for one payload and a payload of a provider tab   *)
(* has one key, in whatever order keys are pressed, saves fail and the     *)
(* process ends, so that the key a row shows is the one that recalls it.   *)
Unique(store) ==
    \A m, n \in DOMAIN store :
        LET a == store[m] b == store[n] IN
        a.tab = b.tab /\ (a.key = b.key \/ (a.tab \in Tabs /\ a.payload = b.payload)) => m = n
OneToOne == Unique(sl.store)

(* Unless the last save failed or the file was read by nobody yet, the     *)
(* next start finds what is in memory, window slots and provider slots.    *)
FileHasAll ==
    ~sl.behind =>
        /\ SlotLoad(sl.file) = sl.store
        /\ Hydrated(SlotLoad(sl.file)) = sl.slots
SlotsAgree == OneToOne /\ FileHasAll
=============================================================================
