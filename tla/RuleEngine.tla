----------------------------- MODULE RuleEngine -----------------------------
(***************************************************************************)
(* Automatic rules of cofi, and the X11 events that trigger them           *)
(* (rules.c, rules_dispatch.c, rules_replay.c, x11_events.c and            *)
(* window_list.c).                                                         *)
(*                                                                         *)
(* The X server, with the window manager and the clients, opens, hides,    *)
(* retitles and closes windows and queues property events.  A title event  *)
(* is sent only for a window cofi has selected events on.  The main loop   *)
(* takes the events in order, but reads the list and the titles when it    *)
(* handles an event, from a server that has moved on.                      *)
(*                                                                         *)
(* Handling a change of the list is two steps: the list and the titles of  *)
(* the new windows are read, then events are selected and the rules are    *)
(* applied.  A pattern is the set of titles it matches.  The commands of a *)
(* rule act on the X server, which may do anything at any time anyway.     *)
(* The circuit breaker, which may still suppress a fire, is left out.       *)
(***************************************************************************)
EXTENDS Naturals, Sequences

CONSTANTS
    Window,     \* X11 windows; an id is not used again
    Root,       \* the root window: its event is _NET_CLIENT_LIST; also "none"
    Title,      \* window titles
    Patterns,   \* the patterns rules have, sets of titles
    MaxRules,   \* MAX_RULES
    MaxUid,     \* bound of the model: rules that ever exist
    MaxQueue,   \* bound of the model: events waiting
    Quirks      \* what may happen in a session, a subset of AllQuirks

AllQuirks == {"race", "refresh", "edit"}

ASSUME ConstantsAssumption ==
    /\ Root \notin Window
    /\ Patterns \subseteq SUBSET Title
    /\ MaxRules \in Nat \ {0}
    /\ MaxUid \in Nat \ {0}
    /\ MaxQueue \in Nat \ {0}
    /\ Quirks \subseteq AllQuirks

VARIABLES
    session,  \* "race": windows change while the list is being handled;
              \* "refresh": show_window and others read the list on their own;
              \* "edit": the user changes the rules
    old,      \* windows that were there when the daemon started
    real,     \* the windows that exist and their titles
    listed,   \* _NET_CLIENT_LIST
    born,     \* every window that ever existed
    selected, \* windows whose property events are sent to cofi
    queue,    \* events on the X11 connection
    wins,     \* app->windows: known windows and their cached titles
    added,    \* added_ids of the list change being handled
    handling, \* a list change is being handled
    rules,    \* app->rules_config
    lastUid,  \* the uid of the newest rule
    matched,  \* app->rule_state: the <<rule_index, id>> that are matched
    held,     \* history: <<uid, id>> fired, and the title matched ever since
    again     \* history: <<uid, id>> that fired while they were held

server == <<old, real, listed, born, selected>>
vars == <<session, old, real, listed, born, selected, queue, wins, added,
          handling, rules, lastUid, matched, held, again>>

(* A rule: uid tells it from the others in the properties, the code knows   *)
(* it by its place in the sequence.                                         *)
Rule == [uid : 1..MaxUid, pat : Patterns, once : BOOLEAN, newOnly : BOOLEAN,
         applied : Window \cup {Root}]

\* add_rule: once is on, new_only off, nothing is applied.
NewRule(u, p) ==
    [uid |-> u, pat |-> p, once |-> TRUE, newOnly |-> FALSE, applied |-> Root]

Ready == ~handling
Quiet == queue = <<>> /\ ~handling
Put(f, w, t) == [v \in DOMAIN f \cup {w} |-> IF v = w THEN t ELSE f[v]]
Only(f, S) == [w \in DOMAIN f \cap S |-> f[w]]

-----------------------------------------------------------------------------
(* check_rule_match, for the rule at index i and the windows W it is        *)
(* allowed to fire for: the windows it fires for, in a set of choices as a  *)
(* rule that fires once takes the first one.                                *)

\* Mutant: the matched flag is not looked at.
HitsAgain(i, W, titles) == {w \in W : titles[w] \in rules[i].pat}
Hits(i, W, titles) ==
    {w \in W : titles[w] \in rules[i].pat /\ <<i, w>> \notin matched}

FireChoices(i, W, titles) ==
    IF ~rules[i].once THEN {Hits(i, W, titles)}
    ELSE IF rules[i].applied # Root \/ Hits(i, W, titles) = {} THEN {{}}
    ELSE {{w} : w \in Hits(i, W, titles)}

(* rule_trigger_allows                                                      *)
TriggerAllows(i, trigger) == rules[i].newOnly => trigger = "client list"

(* The passes of rules_apply and rules_apply_for_title_change: fires[i] is  *)
(* the set of windows rule i fires for.                                     *)
Fires(trigger, W, titles) ==
    {f \in [DOMAIN rules -> SUBSET W] : \A i \in DOMAIN rules :
        IF TriggerAllows(i, trigger) THEN f[i] \in FireChoices(i, W, titles)
        ELSE f[i] = {}}

StillMatched(trigger, W, titles) ==
    {p \in matched : ~(/\ p[1] \in DOMAIN rules /\ TriggerAllows(p[1], trigger)
                       /\ p[2] \in W /\ titles[p[2]] \notin rules[p[1]].pat)}

MatchedAfter(f, trigger, W, titles) ==
    StillMatched(trigger, W, titles)
        \cup UNION {{<<i, w>> : w \in f[i]} : i \in DOMAIN rules}

AppliedAfter(f) ==
    [i \in DOMAIN rules |->
        IF rules[i].once /\ f[i] # {}
        THEN [rules[i] EXCEPT !.applied = CHOOSE w \in f[i] : TRUE]
        ELSE rules[i]]

(* rule_state_prune_absent, rules_clear_applied_for_dead_windows            *)
\* Mutants: the state outlives one absence of its window; applied is kept.
PrunedNever(ms) == ms
Pruned(ms) == {p \in ms : p[2] \in DOMAIN wins}
ClearedNever(rs) == rs
Cleared(rs) ==
    [i \in DOMAIN rs |->
        IF rs[i].applied \in DOMAIN wins THEN rs[i] ELSE [rs[i] EXCEPT !.applied = Root]]

-----------------------------------------------------------------------------
(* What the properties look at: the fires of a step, and which of them the  *)
(* window has matched ever since.                                           *)

FiredBy(f) == UNION {{<<rules[i].uid, w>> : w \in f[i]} : i \in DOMAIN rules}
Observe(fired) ==
    /\ held' = {p \in held \cup fired :
                  /\ p[2] \in DOMAIN wins'
                  /\ \E i \in DOMAIN rules' :
                        rules'[i].uid = p[1] /\ wins'[p[2]] \in rules'[i].pat}
    /\ again' = again \cup (held \cap fired)

-----------------------------------------------------------------------------
(* The X server                                                             *)

ServerMoves == Len(queue) < MaxQueue /\ (handling => "race" \in session)
ListEvent == queue' = Append(queue, Root)
TitleEvent(w) ==
    queue' = IF w \in selected THEN Append(queue, w) ELSE queue

Open(w, t) ==
    /\ ServerMoves
    /\ w \in Window \ born
    /\ born' = born \cup {w}
    /\ real' = Put(real, w, t)
    /\ listed' = listed \cup {w}
    /\ ListEvent
    /\ UNCHANGED <<session, old, selected, wins, added, handling, rules, lastUid, matched>>
    /\ Observe({})

Close(w) ==
    /\ ServerMoves
    /\ w \in DOMAIN real
    /\ real' = Only(real, Window \ {w})
    /\ listed' = listed \ {w}
    /\ selected' = selected \ {w}
    /\ ListEvent
    /\ UNCHANGED <<session, old, born, wins, added, handling, rules, lastUid, matched>>
    /\ Observe({})

(* The window manager takes a window off the list, or puts it back.         *)
Relist(w) ==
    /\ ServerMoves
    /\ w \in DOMAIN real
    /\ listed' = IF w \in listed THEN listed \ {w} ELSE listed \cup {w}
    /\ ListEvent
    /\ UNCHANGED <<session, old, real, born, selected, wins, added, handling,
                   rules, lastUid, matched>>
    /\ Observe({})

Retitle(w, t) ==
    /\ ServerMoves
    /\ w \in DOMAIN real
    /\ t # real[w]
    /\ real' = [real EXCEPT ![w] = t]
    /\ TitleEvent(w)
    /\ UNCHANGED <<session, old, listed, born, selected, wins, added, handling,
                   rules, lastUid, matched>>
    /\ Observe({})

-----------------------------------------------------------------------------
(* The events                                                               *)

(* get_window_list: a title is read only for a window that was not known.   *)
\* Mutant: the titles of the known windows are read as well.
WindowListRereading == [w \in listed |-> real[w]]
WindowList == [w \in listed |-> IF w \in DOMAIN wins THEN wins[w] ELSE real[w]]

(* window_id_in_list tells the windows that were not known before.          *)
\* Mutant: the two lists are swapped.
NewIdsSwapped(ids, previous) == previous \ ids
NewIds(ids, previous) == ids \ previous

HandleList ==
    /\ Ready
    /\ queue # <<>> /\ Head(queue) = Root
    /\ wins' = WindowList
    /\ added' = NewIds(DOMAIN wins', DOMAIN wins)
    /\ handling' = TRUE
    /\ queue' = Tail(queue)
    /\ UNCHANGED <<session, server, rules, lastUid, matched>>
    /\ Observe({})

ApplyRules ==
    /\ handling
    /\ selected' = selected \cup (DOMAIN wins \cap DOMAIN real)
    /\ UNCHANGED <<session, old, real, listed, born, queue, wins, lastUid>>
    /\ \E f \in Fires("client list", added, wins) :
         /\ matched' = Pruned(MatchedAfter(f, "client list", added, wins))
         /\ rules' = Cleared(AppliedAfter(f))
         /\ Observe(FiredBy(f))
    /\ handling' = FALSE
    /\ added' = {}

(* handle_window_title_change: the title is the one of now; a window that   *)
(* is not known or gone, and a title that is the cached one, are ignored.   *)
TitleIsNews(w) == w \in DOMAIN wins \cap DOMAIN real /\ wins[w] # real[w]

HandleTitle ==
    /\ Ready
    /\ queue # <<>> /\ Head(queue) # Root
    /\ queue' = Tail(queue)
    /\ LET w == Head(queue)
       IN  IF TitleIsNews(w)
           THEN /\ wins' = [wins EXCEPT ![w] = real[w]]
                /\ \E f \in Fires("title", {w}, wins') :
                     /\ matched' = MatchedAfter(f, "title", {w}, wins')
                     /\ rules' = AppliedAfter(f)
                     /\ Observe(FiredBy(f))
           ELSE UNCHANGED <<wins, matched, rules>> /\ Observe({})
    /\ UNCHANGED <<session, server, added, handling, lastUid>>

(* show_window and the commands that list windows refresh the list without  *)
(* a pass over the rules.                                                   *)
Refresh ==
    /\ Ready
    /\ "refresh" \in session
    /\ wins' = WindowList
    /\ UNCHANGED <<session, server, queue, added, handling, rules, lastUid, matched>>
    /\ Observe({})

-----------------------------------------------------------------------------
(* The user: the Rules tab                                                  *)

(* replay_rule_against_open_windows: it leaves the matched flags alone, and *)
(* it sets applied for every rule.                                          *)
Replay(i) ==
    /\ Ready
    /\ i \in DOMAIN rules
    /\ rules[i].once => rules[i].applied = Root
    /\ \E w \in DOMAIN wins :
         /\ wins[w] \in rules[i].pat
         /\ rules' = [rules EXCEPT ![i].applied = w]
    /\ UNCHANGED <<session, server, queue, wins, added, handling, lastUid, matched>>
    /\ Observe({})

Edit == Ready /\ "edit" \in session
Unedited ==
    /\ UNCHANGED <<session, server, queue, wins, added, handling, matched>>
    /\ Observe({})

AddRule(p) ==
    /\ Edit
    /\ Len(rules) < MaxRules /\ lastUid < MaxUid
    /\ lastUid' = lastUid + 1
    /\ rules' = Append(rules, NewRule(lastUid', p))
    /\ Unedited

(* remove_rule moves the later rules down; the flags stay where they are.   *)
RemoveRule(i) ==
    /\ Edit
    /\ i \in DOMAIN rules
    /\ rules' = [j \in 1..(Len(rules) - 1) |-> IF j < i THEN rules[j] ELSE rules[j + 1]]
    /\ UNCHANGED lastUid
    /\ Unedited

EditPattern(i, p) ==
    /\ Edit
    /\ i \in DOMAIN rules
    /\ rules' = [rules EXCEPT ![i].pat = p]
    /\ UNCHANGED lastUid
    /\ Unedited

(* rule_toggle_once re-arms the rule.                                       *)
ToggleOnce(i) ==
    /\ Edit
    /\ i \in DOMAIN rules
    /\ rules' = [rules EXCEPT ![i].once = ~@, ![i].applied = Root]
    /\ UNCHANGED lastUid
    /\ Unedited

ToggleNewOnly(i) ==
    /\ Edit
    /\ i \in DOMAIN rules
    /\ rules' = [rules EXCEPT ![i].newOnly = ~@]
    /\ UNCHANGED lastUid
    /\ Unedited

-----------------------------------------------------------------------------
(* The daemon starts: the windows that are there are known and selected.    *)
LoadedRules == {<<>>} \cup {<<r>> : r \in {q \in Rule : q.uid = 1 /\ q.applied = Root}}

Init ==
    /\ session \in SUBSET Quirks
    /\ old \in SUBSET Window
    /\ born = old /\ listed = old /\ selected = old
    /\ real \in [old -> Title]
    /\ wins = real
    /\ queue = <<>> /\ added = {} /\ handling = FALSE
    /\ rules \in LoadedRules
    /\ lastUid = Len(rules)
    /\ matched = {} /\ held = {} /\ again = {}

Server ==
    \/ \E w \in Window, t \in Title : Open(w, t) \/ Retitle(w, t)
    \/ \E w \in Window : Close(w) \/ Relist(w)

Daemon == HandleList \/ ApplyRules \/ HandleTitle

User ==
    \/ Refresh
    \/ \E i \in 1..MaxRules : Replay(i) \/ RemoveRule(i) \/ ToggleOnce(i) \/ ToggleNewOnly(i)
    \/ \E p \in Patterns : AddRule(p)
    \/ \E i \in 1..MaxRules, p \in Patterns : EditPattern(i, p)

Next == Server \/ Daemon \/ User

Spec == Init /\ [][Next]_vars

-----------------------------------------------------------------------------
(* Properties                                                               *)

(* Every variable has the values the code allows.                          *)
TypeOK ==
    /\ session \subseteq AllQuirks
    /\ old \subseteq born /\ DOMAIN real \subseteq born /\ born \subseteq Window
    /\ \A w \in DOMAIN real : real[w] \in Title
    /\ listed \subseteq DOMAIN real /\ selected \subseteq DOMAIN real
    /\ queue \in Seq(Window \cup {Root})
    /\ DOMAIN wins \subseteq born /\ \A w \in DOMAIN wins : wins[w] \in Title
    /\ added \subseteq DOMAIN wins
    /\ handling \in BOOLEAN
    /\ rules \in Seq(Rule) /\ Len(rules) <= MaxRules
    /\ lastUid \in 0..MaxUid
    /\ matched \subseteq (1..MaxRules) \X Window
    /\ held \subseteq (1..MaxUid) \X Window /\ again \subseteq (1..MaxUid) \X Window

(* When nothing but events changes the list, and nothing happens between    *)
(* the read of a list and the end of its handling, then once every event is *)
(* handled cofi knows the listed windows by their titles, and a plain rule  *)
(* is matched for exactly the windows opened since the start that it fits:  *)
(* it fired for each of them.                                               *)
UpToDate ==
    /\ wins = [w \in listed |-> real[w]]
    /\ \A i \in DOMAIN rules, w \in listed \ old :
          ~rules[i].once /\ ~rules[i].newOnly =>
              (<<i, w>> \in matched <=> real[w] \in rules[i].pat)
Settled == session = {} /\ Quiet => UpToDate

(* The same where cofi may be shown while events wait: every window that    *)
(* opens has the rules applied to it.                                       *)
OpenedWindowsFire == session \subseteq {"refresh"} /\ Quiet => UpToDate

(* A rule does not fire for a window again while the window goes on to      *)
(* match it.                                                                *)
NeverRefires == again = {}

(* The same as long as the user does not change the rules.                  *)
RefiresOnlyByEdits == "edit" \notin session => again = {}

(* A rule that fires once is matched for one window at most, whatever comes *)
(* and goes in between.                                                     *)
OnceForOne ==
    "edit" \notin session =>
        \A i \in DOMAIN rules, w, v \in Window :
            rules[i].once /\ {<<i, w>>, <<i, v>>} \subseteq matched => w = v

(* Once every event is handled, the window a rule is applied to is one that *)
(* is there: a rule is armed again when its window is gone.                 *)
AppliedIsLive ==
    Quiet => \A i \in DOMAIN rules : rules[i].applied \in DOMAIN wins \cup {Root}
=============================================================================
