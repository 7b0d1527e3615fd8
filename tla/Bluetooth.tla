------------------------------ MODULE Bluetooth ------------------------------
(* The Bluetooth tab: the model of the devices that outlives the window    *)
(* (src/src/bluetooth/bluetooth_model.c), the asynchronous calls to BlueZ  *)
(* (bluetooth_bluez.c) and the tab itself (bluetooth_provider.c).  What    *)
(* BlueZ answers, and when, is open.                                       *)
EXTENDS Naturals, Sequences, SequencesExt, Places

CONSTANTS Devices,      \* paired devices, numbers after None
          Typed,        \* texts of the entry that filter
          Matching,     \* the devices a text matches, best first; all by name and path for none
          MaxCalls      \* bound: device operations in a behaviour

VARIABLE bt

Empty == "empty"
None == 0
Connect == "Connect"
Disconnect == "Disconnect"
NotListed == [listed |-> FALSE, gen |-> 0, op |-> None, state |-> "none", linked |-> FALSE]

Listed(s) == {d \in Devices : s.devs[d].listed}
OnTab == bt.tab = "bluetooth"

-----------------------------------------------------------------------------
(* bt_prune_expired_states: some of the states that were shown are over. *)
Pruned(s, old) ==
    [s EXCEPT !.devs = [d \in Devices |-> IF d \in old /\ @[d].op = None
                                          THEN [@[d] EXCEPT !.state = "none"] ELSE @[d]]]

(* bt_refilter goes by the query, and the entry tells of changes only. *)
Refiltered(s) ==
    LET all == Matching[s.query]
    IN  [s EXCEPT !.rows = Picked(all, {n \in DOMAIN all : s.devs[all[n]].listed})]

(* restore_selection by the path that preserve_selection noted. *)
SelectedOf(s) == IF s.row \in DOMAIN s.rows THEN s.rows[s.row] ELSE None
Restored(s, d) ==
    LET n == SelectInSeq(s.rows, LAMBDA e : e = d) IN [s EXCEPT !.row = IF n = 0 THEN 1 ELSE n]

-----------------------------------------------------------------------------
(* bluetooth_model_refresh: the bus is asked for once, and so is the list  *)
(* of devices while there is no answer, be the question cancelled or not.  *)
Refresh(s) ==
    CASE s.bus = "failed"    -> [s EXCEPT !.loading = FALSE]
      [] s.bus = "unasked"   -> [s EXCEPT !.loading = TRUE, !.bus = "acquiring"]
      [] s.bus = "acquiring" -> [s EXCEPT !.loading = TRUE]
      [] s.bus = "ready"     -> IF s.question # "none" THEN s
                                ELSE [s EXCEPT !.question = "asked", !.loading = TRUE]

OnBusReady == bt.bus = "acquiring" /\ bt' = Refresh([bt EXCEPT !.bus = "ready"])
OnBusFailed == bt.bus = "acquiring" /\ bt' = [bt EXCEPT !.bus = "failed", !.loading = FALSE]

(* bluetooth_model_complete_refresh: the answers of a question that was    *)
(* cancelled is that it was, whatever BlueZ said.                          *)
CompleteRefresh(s) == [s EXCEPT !.loading = FALSE, !.question = "none"]
OnRefreshRefused == bt.question # "none" /\ bt' = CompleteRefresh(bt)

(* bluetooth_model_apply_snapshot: a device that was not listed before     *)
(* starts afresh, also one that has been.                                  *)
ApplySnapshot(s, there, linked) ==
    LET t == Refiltered([s EXCEPT !.devs =
                 [d \in Devices |-> IF d \in there
                                    THEN [@[d] EXCEPT !.listed = TRUE, !.linked = d \in linked]
                                    ELSE NotListed]])
    IN  IF s.tab = "bluetooth" THEN Restored(t, SelectedOf(s)) ELSE t
Gone(s, there) == [s EXCEPT !.calls = {[c EXCEPT !.lost = @ \/ c.path \notin there] : c \in @}]

OnRefreshComplete ==
    /\ bt.question = "asked"
    /\ \E there \in SUBSET Devices : \E linked \in SUBSET there, old \in SUBSET Listed(bt) :
           bt' = ApplySnapshot(Gone(Pruned(CompleteRefresh(bt), old), there), there, linked)

-----------------------------------------------------------------------------
(* bt_prepare_device_operation.  Where there is a device the bus is ready. *)
Cancelled(calls, id) == {[c EXCEPT !.cancelled = @ \/ c.id = id] : c \in calls}
Operation(s, d, kind) ==
    LET gen == s.devs[d].gen + 1
        id == s.last + 1
        asked == [id |-> id, path |-> d, kind |-> kind, gen |-> gen,
                  cancelled |-> FALSE, lost |-> FALSE]
    IN  [s EXCEPT !.devs[d] = [@ EXCEPT !.gen = gen, !.op = id, !.state = "none"],
                  !.calls = Cancelled(@, s.devs[d].op) \cup {asked}, !.last = id]

OnRow == OnTab /\ bt.row \in DOMAIN bt.rows /\ bt.last < MaxCalls
Ask(kind) == OnRow /\ bt' = Operation(bt, bt.rows[bt.row], kind)
Toggle == OnRow /\ Ask(IF bt.devs[bt.rows[bt.row]].linked THEN Disconnect ELSE Connect)

\* Mutant: an answer is taken for any device that is listed.
CountsLast(c) == bt.devs[c.path].listed

(* bluetooth_model_complete_operation. *)
Counts(c) == bt.devs[c.path].listed /\ bt.devs[c.path].gen = c.gen
Completed(s, c) ==
    [s EXCEPT !.calls = @ \ {c}, !.devs[c.path].op = IF @ = c.id THEN None ELSE @]
Dropped(s, c) == [s EXCEPT !.calls = @ \ {c}]

OnDeviceOpComplete(c) ==
    bt' = CASE ~Counts(c)               -> Dropped(bt, c)
            [] Counts(c) /\ c.cancelled -> Completed(bt, c)
            [] OTHER -> [Completed(bt, c) EXCEPT
                            !.devs[c.path].linked = c.kind = Connect,
                            !.devs[c.path].state = IF c.kind = Connect THEN "connected"
                                                   ELSE "disconnected"]
OnDeviceOpFailed(c) ==
    bt' = CASE ~Counts(c)               -> Dropped(bt, c)
            [] Counts(c) /\ c.cancelled -> Completed(bt, c)
            [] OTHER -> [Completed(bt, c) EXCEPT !.devs[c.path].state = "failed"]

-----------------------------------------------------------------------------
(* The tab.  switch_to_tab empties the entry when the tab is another one   *)
(* already, so that the query stays what it was.                           *)
EnterTab(old) ==
    /\ ~OnTab
    /\ bt' = Refresh(Pruned([bt EXCEPT !.tab = "bluetooth", !.text = Empty, !.row = 1], old))
LeaveTab ==
    /\ OnTab
    /\ bt' = [bt EXCEPT !.tab = "other", !.text = Empty,
                        !.question = IF @ = "asked" THEN "cancelled" ELSE @]

(* hide_window empties the entry while the tab is still there. *)
OnQueryChanged(text, old) ==
    IF bt.text = text THEN bt
    ELSE Restored(Refiltered([Pruned(bt, old) EXCEPT !.text = text, !.query = text]),
                  SelectedOf(bt))
HideWindow(old) ==
    /\ OnTab
    /\ bt' = [OnQueryChanged(Empty, old) EXCEPT
                 !.tab = "other", !.question = IF @ = "asked" THEN "cancelled" ELSE @]
TypeText(text, old) == OnTab /\ text # bt.text /\ bt' = OnQueryChanged(text, old)
CommandAndBack == OnTab /\ bt' = [bt EXCEPT !.text = Empty]
Select(n) == OnTab /\ n \in DOMAIN bt.rows /\ n # bt.row /\ bt' = [bt EXCEPT !.row = n]
Tick(old) == OnTab /\ bt' = Refresh(Pruned(bt, old))
RefreshKey == OnTab /\ bt' = Refresh(bt)

Init == bt = [bus |-> "unasked", question |-> "none", loading |-> FALSE,
              devs |-> [d \in Devices |-> NotListed], rows |-> <<>>, row |-> 1,
              calls |-> {}, last |-> 0, tab |-> "other", text |-> Empty, query |-> Empty]

Next ==
    \/ OnBusReady \/ OnBusFailed \/ OnRefreshRefused \/ OnRefreshComplete
    \/ \E c \in bt.calls : OnDeviceOpComplete(c) \/ OnDeviceOpFailed(c)
    \/ Toggle \/ Ask(Connect) \/ Ask(Disconnect)
    \/ \E old \in SUBSET Listed(bt) :
        \/ EnterTab(old) \/ Tick(old) \/ HideWindow(old)
        \/ \E text \in Typed \cup {Empty} : TypeText(text, old)
    \/ LeaveTab \/ CommandAndBack \/ RefreshKey
    \/ \E d \in Devices : Select(d)

Spec == Init /\ [][Next]_bt

-----------------------------------------------------------------------------
(* A late answer changes a device only when nothing was asked of it since, *)
(* as long as the device was not off the list meanwhile: then it is a new  *)
(* one, whose count of operations starts again.  A device that shows it is *)
(* being connected has a call under way, and a tab that shows it is        *)
(* loading has a question: neither can be left for ever.  Rows are listed  *)
(* devices.                                                                *)
AnswersCount ==
    /\ \A c \in bt.calls : Counts(c) /\ ~c.lost => bt.devs[c.path].op = c.id /\ ~c.cancelled
    /\ \A d \in Listed(bt) : bt.devs[d].op # None =>
           \E c \in bt.calls : c.id = bt.devs[d].op /\ c.path = d
    /\ bt.loading => bt.bus = "acquiring" \/ bt.question # "none"
    /\ \A n \in DOMAIN bt.rows : bt.rows[n] \in Listed(bt)
=============================================================================
