# Formal models of cofi

cofi is a window switcher for X11: a GTK daemon that keeps the list of windows,
shows them on a hotkey, and attaches names, slots, layouts and automatic rules
to them. Around that it has tabs for files, projects, processes, sinks,
Bluetooth devices, conversation logs and the executables of PATH, a command
line, and a tiler. This directory holds TLA+ models of it: the stores that own
window identities, the socket that keeps one daemon resident, the rules that
fire on X11 events, the window with its modes, timers and hotkeys, the tabs
whose rows come from elsewhere, the commands on windows, and the algorithms that
rank texts and place windows. TLC checks the models on small instances; TLAPS
proves the central ones for every instance.

All paths below are relative to `src/src/`, the C sources, unless they start
with `docs/` or `test/`, which stand for `src/docs/` and `src/test/`.

## 1. Inventory

The daemon is one process with one GLib main loop. Handlers run to completion
one after the other: X11 events (`x11/x11_events.c`), key presses, timers
(`g_timeout_add`), idle callbacks, GTask results, subprocess and D-Bus
callbacks, and accepted socket connections. Nothing is shared between threads
but GTask results and the queue of chunks of the PATH scan. What makes the
program hard is therefore not data races but *time between handlers*: state
read in one handler and used in the next, an X server and a file system that go
on in between, and a second process on the same socket or files.

| component | state | operations | interacts with | hard behaviour | what makes it correct |
|---|---|---|---|---|---|
| Match entries (`matching/match_entry.c`, `match_entry_config.c`, `core/app/matching_gc.c`) | `MatchEntryManager`: entries (id, pattern, bound window), `next_match_id`; matching.json | create, bind, reassign, delete, collect, load, save | every owner refers to entries by `match_id` | five files replaced one after the other, crashes, failing saves, a full table | ids never reused; one owner per entry; references resolve after a crash |
| Harpoon slots (`harpoon/`) | `HarpoonManager.slots`; harpoon.json | assign, toggle, delete, activate | entries, window list, slot store | clears the old slot before it knows that there is room | slots are distinct; no slot comes to mean another window |
| Names (`names/`) | `NamesStore`; names.json | assign, rename, delete | entries | name deleted before its entry, two files | names refer to entries |
| Layouts (`geom/layout_store.c`, `geom_rule_sync.c`, `window_geometry_matching.c`) | `LayoutStore`; layouts.json | save, restore, clear, delete, toggle | entries; owns a rule tagged `geom` | cached pattern in the geom rule; adopts entries of others | one geom rule per enabled layout, with the pattern of the entry |
| Rules, persistent (`rules/rules_config.c`, `overlay_rules.c`, `ui/overlay_pattern.c`) | `RulesConfig`; rules.json | load with repair, save, add, delete, edit | entries, layouts | an orphan gets a new entry at the start | rules are distinct and resolve |
| Rules, evaluation (`rules/rules.c`, `rules_dispatch.c`, `rules_replay.c`) | `RuleState` per (index, window), `applied`, circuit breaker | apply, apply for a title, replay, prune, clear | window list, X events, commands | events arrive late and read the state of now; edits shift indices; a rule may feed itself | fires once per match; fires for every window that opens; a loop is stopped |
| X events and window list (`x11/x11_events.c`, `window_list.c`, `frame_extents_restore.c`, `ui/window_highlight.c`) | `app->windows` with cached titles, property selections, workspace and restore timers | list, title, active window, frame extents, desktop events | everything | read, then select, then apply; collapsed events; timers that race reports | cached state catches up with the server; the last event is the one served |
| Daemon socket (`daemon/daemon_socket*.c`) | socket file, listening socket, connection being read | bind, probe, unlink, listen, accept, send, read, stop | a second invocation of the program | bind/listen and close/unlink are not atomic; stale files; blocking reads | one reachable daemon; a request handled at most once |
| Start and end (`core/app/`) | - | guard, loads, repairs, collection, init of X and hotkeys, exit | all stores, the socket | order of loads; exit paths | nothing referenced is collected |
| Hotkeys (`daemon/hotkeys.c`, `hotkey_dispatch.c`, `hotkey_grab_state.c`, `hotkey_config.c`, `overlay_hotkey_*.c`) | binding table and hotkeys.json, grabs, capture, `pending_hotkey_mode` | bind, unbind, capture, rebind, grab with retry, dispatch on idle | lifecycle, focus timer, rules, other clients | a capture releases every grab; two hotkeys before one dispatch; X errors | the keys held are those of the bindings; no hotkey is lost to a focus loss |
| Window lifecycle (`ui/window_lifecycle.c`, `cofi_modal.c`, `tab_switching.c`, `prefix_tabs.c`, `key_handler.c`) | visible, focus, timers, current tab, visibility of tabs, mode, claim, text, overlay | show, hide, focus in/out, keys, prefixes, modes, tick | providers, hotkeys, overlays, other invocations | timers that fire after what they waited for is over; modes that replace each other | a hidden window is reset; a shown one has or gets the focus |
| Files search (`files/files_search.c`, `files_provider.c`) | generation, pending search with a counted context, loading, cache, dirty | refresh, enter, leave, output, end, timeout | a child process, the window | answers of searches given up or superseded, a timer that is never removed, answers off the screen | the cache is the answer to the newest search; each context is freed once; loading ends |
| Projects tab (`projects/projects.c`, `projects_refresh.c`, `locate/`, `projects_remote_scope.c`) | the same for locate; scope; source of the rows | enter, leave, query, tick, ask for a host, leave the host | child processes, ssh in threads, overlays | two kinds of late answers, of which the fetch has no generation | rows are those of the scope and of the text |
| Bluetooth tab (`bluetooth/`) | devices with their generation, running operation, question, rows | refresh, connect, disconnect, trust, end, cancel | D-Bus | answers that are late, lost, or about a device that was off the list | a late answer changes nothing that was asked for since |
| Processes tab (`proc/`) | inventory, filter, action behind a bar, rows as drawn | tick, type, Enter | /proc, signals | rows are rebuilt every second under a filter and an action | the signal goes to the process that was drawn |
| Sinks tab (`sinks/`) | list, order, default, rows as drawn | refresh, set default | pactl | answers on another tab or after hiding | Enter takes the row that was drawn |
| PATH tab (`path/`) | cache, chunks, monitors, rows | scan, merge, monitor event, filter | a thread, the file system | changes of a directory during the scan | the first file of a name in the order of PATH; no ghosts but those reported |
| Sessions tab (`sessions/`) | query, ripgrep stream, results by session, rows | type, read a line, end, rename, delete, resume | a child process | lines of a search that was cancelled, logs that were deleted | results are of the search in force and of logs that exist |
| Selection, history, filter (`core/selection/`, `core/history/`, `ui/window_filter.c`, `display_pipeline.c`) | index, scroll offset, identity per tab; MRU order | move, rows changed, filter, activate | providers, display, X events | rows change under it | in range, follows the identity; recent windows first |
| Slot store, workspace slots (`core/slot_store/`, `harpoon/workspace_slots.c`, `ui/slot_overlay.c`) | slots of all tabs in harpoon.json; numbers and labels of visible windows | assign, load, save; number, label | harpoon, providers, X | one file saved from two places; occlusion and columns | a key is one payload; only windows that are seen have numbers |
| Command line and run (`commands/command_mode.c`, `run/`) | line, history, position, candidates, help page | type, complete, recall, run, fail, leave | lifecycle, commands | a position in a history from which duplicates are removed | Enter runs what is shown |
| Commands on windows (`commands/command_handlers*.c`, overlays of tiling and workspaces) | target, partner, collected windows, dialog | move, tile, stick, close, jump, swap, rename | lifecycle, rules, X | dialogs that answer later; rules that run commands | a command acts on the window it was given for, although it is given a place in an array that is filled anew |
| Providers and configuration (`config/`, `providers/`) | options, options.json, enabled providers, rows of the Config tab | load, set, toggle, cycle, dialogs | all tabs | four ways to change one option, failing saves | memory, file, registry and rows agree |
| Overlays and keys (`ui/overlay_*.c`, `ui/key_handler.c`) | the open overlay | open, close, key | all | which handler sees a key | one overlay at a time, closed with the window |
| Matching and ranking (`matching/match.c`, `fzf_algo.c`, `tier_score.c`, `window_matcher.c`) | - | pure functions | filters of all tabs | a narrowed matrix of scores, gaps, case | agrees with a search through all placements |
| Tiling and geometry (`geom/tiling.c`, `geometry_planner.c`, `x11/size_hints.c`, `x11/monitor_move.c`) | saved layout, restore | tile, move, save, restore | commands, layouts, window manager | frames, shadows, rounding, size hints, two monitors | a window lands in the work area, a restore gives back what was saved |
| Other data providers, display, libraries | tables, lists, pixels | parse, format, launch, draw | - | - | not modelled, see section 8 |

## 2. Plan

Most important first; each module is written to be proved about (constants with
named assumptions, one action per operation, no `RECURSIVE`).

| | module | state |
|---|---|---|
| 1 | **MatchStores**: the identity stores and their five files | done, proved |
| 2 | **DaemonSocket** refining **Delegation**: the single-instance guard | done, proved but for liveness |
| 3 | **RuleEngine**: X events, the window list, the rules | done, proved |
| 4 | **RuleBreaker**: the circuit breaker with its clock | done, proved |
| 5 | **SearchTabs** composing **FilesSearch** and **Projects**, each refining **LatestAnswer** | done, proved |
| 6 | **Lifecycle** and **Hotkeys**: show, hide, modes, focus, the queue of hotkeys; bindings and grabs | done, proved |
| 7 | the tabs filled by others: **Bluetooth**, **Processes**, **Sinks**, **PathBinaries**, **Sessions** | done, proved |
| 8 | **Selection**, **SlotStore**, **WorkspaceSlots**, **CommandLine**, **WindowCommands**, **Settings** | done, proved but for WorkspaceSlots, which is checked |
| 9 | **WorkspaceRipple**, **FrameRestore**: the two timers of the X events | done, proved |
| 10 | **Ranking**, **Placement**: algorithms against reference definitions | done, checked |
| 11 | two processes over the same files (`--assign-slots` beside a daemon), and a matching.json that does not parse | left |

What is left is one invariant each of WorkspaceSlots, Ranking and Placement;
section 7 says what stands in the way of a proof. The loops of the other modules
are stated by the places of a sequence (`Places`) and not by folds and sorts of
the library, of which nothing can be proved here.

## 3. Modules

| module | what it is |
|---|---|
| `MatchStores` | entries, slots, names, layouts, rules, the five files, crashes and failing saves |
| `MatchStoresProofs` | its inductive invariants and theorems |
| `Delegation` | what an invocation is promised: its request is handled at most once and does not stay open |
| `DaemonSocket` | the guard, the socket, requests, ends and kills; refines Delegation |
| `DaemonSocketProofs` | its inductive invariant, three theorems and the safety half of the refinement |
| `RuleEngine` | X server, list and title events, rules and their state |
| `RuleEngineProofs` | its inductive invariants and theorems; at its end those of `WindowCommands`, the lines that rules run |
| `RuleBreaker` | the circuit breaker of the rules |
| `LatestAnswer` | what an asynchronous search promises: the answer shown is that of the newest question, or an older one |
| `SearchContext` | the counted context of a search in a child process, used by both tabs |
| `FilesSearch` | the search of the Files tab |
| `Projects` | the locate search and the remote scope of the Projects tab |
| `SearchTabs` | both tabs in the window: tab changes, hiding, command mode, overlay, callbacks; refines LatestAnswer twice |
| `SearchTabsProofs` | its inductive invariant and theorems |
| `Lifecycle` | the window: shown, hidden, tabs, modes, prefixes, focus, timers, idle calls, hotkeys, requests |
| `LifecycleProofs` | its inductive invariant and theorems |
| `Hotkeys` | bindings, hotkeys.json, grabs, capture, rebinding |
| `Places` | what a loop leaves that copies some of an array, and what a sort does; used wherever such a loop is proved about |
| `Selection` | order of the windows, rows of a query, selected row, scroll offset |
| `SlotStore` | harpoon.json with the slots of every tab |
| `WorkspaceSlots` | which windows of a workspace are visible, their numbers and labels |
| `CommandLine` | history, completion, help pages; the entry of the run modal |
| `WindowCommands` | what commands do to windows and workspaces, and their dialogs |
| `Settings` | options, options.json, providers, the Config tab |
| `Bluetooth`, `Processes`, `Sinks`, `PathBinaries`, `Sessions` | the tabs whose lists others fill |
| `WorkspaceRipple`, `FrameRestore` | the two timers of the X events |
| `Ranking`, `Placement` | matching and scoring of texts; tiles, moves and restores of a window |
| `PartState`, `TabParts`, `LateParts`, `Parts` | an instance of each of the thirteen parts that theorems speak of, one behaviour of one part at a time |
| `TabPartsProofs` | the lemmas about sequences; the bindings, the options, the devices, the executables of PATH, the slots and the command line |
| `LatePartsProofs` | the lists of pactl and /proc, the ring, the restores, the circuit breaker, the sessions |
| `PartsProofs` | the selection, and the theorems about `Parts` |
| `MCParts` | values for the constants of `Parts`, and an instance of each of four more parts |
| `MCMatchStores`, `MCRuleEngine`, `MCLifecycle`, `MCSelection` | symmetry, constants and observers for TLC |

### MatchStores

One handler of the main loop is one action for what it does to the memory,
followed by one `Save` per file in the order in which the handler saves
(`todo`); no other handler runs before `todo`, `resync` (layouts whose geom rule
it still has to sync) and `victim` (the entry it deletes last) are empty, which
is `Idle`. Between any two of these steps the process may stop (`Stop`) and
start again from what the files hold: `LoadMatching`, `RepairRule` for every
orphan, `RulesLoaded`, `LoadOwners`, `SyncLayout`, `LayoutsSynced`, and `Settle`
(collection and the first window list), in the order of `init_app_data` and
`cofi_main`. `FailableStores` are files whose save may fail and `LossyStores`
files that may be unreadable at a start.

Abstractions: a title is a value and a pattern is a title or `*`; windows differ
only in their titles; the text of a name and the geometry of a layout are left
out; where the code takes the first record that matches, the model takes any.

### DaemonSocket and Delegation

One process per invocation. `pc` is the place in `run_cofi`: `connect`, `send`,
`bind`, `listen`, `probe`, `unlink`, `rebind`, then `init`, `up`, and while a
connection is read `recv` and `name`; `quit` and `exiting` are the two halves of
the two ends (close then unlink; unlink then close). `path` is whose socket the
file `cofi.sock` is. A socket that is bound and does not listen, or is closed,
refuses; a full backlog waits. `Crash` (kill) is possible in every state.
`Delegation` knows one thing per invocation, the fate of its request: asked,
handled, or ended. The refinement mapping `Fate` reads it off the pcs.

### RuleEngine

The X server is part of the model: windows open, close, leave and rejoin the
list and change titles (`Open`, `Close`, `Relist`, `Retitle`), each queues what
cofi would be sent. The daemon handles the head of the queue: `HandleList`
reads the list and the titles of new windows, `ApplyRules` selects their
events, applies the rules, prunes and clears; the server may move in between.
`HandleTitle` reads the title of now. `Refresh` is `show_window` and the
commands that read the list on their own; `Replay` and the edits are the Rules
tab. The history variables `held` and `again` only observe (`Observe`, in every
action): which (rule, window) fired and has matched ever since, and which fired
while it had.

`session` says which disturbances may happen in a behaviour and is chosen at the
start; a property that needs their absence says so in its own text.

### SearchTabs, FilesSearch, Projects and LatestAnswer

A search runs in a child process; its context (`SearchContext`) is shared by
three callbacks - a read of the output, a wait for the end, a timer - and the
pointer to the pending search, and holds a count of them. `files[g]` and
`locate[g]` are the contexts by generation. An action of `FilesSearch` or
`Projects` is one handler: `FilesRefresh`, `FilesOnEnter`, `FilesOnLeave`,
`FilesOutputEnds`, `FilesProcessEnds`, `FilesTimeout`, and for Projects the same
callbacks and `ProjectsOnEnter`, `ProjectsOnLeave`, `ProjectsOnQueryChanged`,
`ProjectsOnTick`, `BeginFetch`, `FetchAnswered`, `EscapeScope`. Every refresh of
the Projects tab ends in `Filter`, which gives up the pending search and may
start the next. A fetch of a remote host runs in a thread and has no
generation: `fetches` counts those whose answer is to come.

`SearchTabs` is the window around them: `SwitchTab` calls on_leave and on_enter,
`Hide` leaves the current tab, `BackToWindows` and `BackToCommand` (a hotkey, or
another invocation, while the window is shown) replace the tab without leaving
it, `EnterCommand` and `ExitCommand` empty the entry, `Type` tells the tab of a
new text only outside command mode, and an overlay of the Projects tab
(`overlay`) takes all keys and survives a change of tab. The mapping to
`LatestAnswer` is `asked` = the generation, `open` = a search is pending (for
Files, the tab says that it is loading) and `answered` = the search the cache or
the rows come from.

Abstractions: texts are empty or long (three characters or more, for which
locate runs); output is only its end, since the lines before it change nothing
but the list being collected; which rows there are, their ranking and the
selection, and the wording of the status are left out; modal dialogs and the
focus timer are in `Lifecycle`, the ranking in `Ranking`, the selection in
`Selection`.

### Lifecycle

`app` is one record whose fields are those of the program (visible, current
tab, mode, visibility of the tabs, claim, text, overlay, target) and what waits
in the main loop: the focus-loss timer (`loss`), the retry of the focus grab
(`regrab`), the tick of a tab, and the idle calls in order (`idle`, and `round`
for those of the round that is running). The handlers of this code call each
other, `hide_window` from eleven places, so each C function is an operator from
the state it finds to the state it leaves (`SwitchQuietly`, `EnterModal`,
`ExitCommandMode`, `HideWindow`, ...) and an action applies one of them. A
round of idle calls is run to its end before anything else is handled, since
GLib dispatches all idle sources of one priority in one iteration.

Characters are code points, because `on_key_press` narrows the key to a `char`
and the prefix of a tab is compared with the first *byte* of the text
(`Narrow`, `FirstByte`). A text that was pasted after `:` is read through a
pointer into the entry that `enter_command_mode` has emptied
(`ui/prefix_tabs.c:134-148`): what it says is undefined, and `Replaced` takes
any text. The window manager gives the focus, takes it, or does neither.

`MCLifecycle` adds one observer, the command that the last step ran from the
command line, for the run `dismiss`.

### Hotkeys

A *spelling* is the text of a shortcut and a *combination* what it means to the
server; two spellings may mean one combination, and a combination may be held
by another client. A capture (`overlay_hotkey_add.c`) releases every grab, and each way out of it (a key,
Escape, hiding, a rule that binds, a conflict dialog) has to grab the keys
again. `TryGrab` holds all keys or none, as `setup_hotkeys`
rolls back. Saves may fail; a restart reads the file, which may be corrupt.

### The parts with a state of their own

Each of these modules has one variable, a record, so that `Parts` and `MCParts`
can run them side by side: `part` says whose behaviour it is, and `st` is that
variable. Where the program draws rows and later acts on them, the record
has both the rows of now and what was *drawn*, and the property compares them.

* `Selection`: `Show`, `Filter`, `Move`, events of the window list and of the
  active window, a provider's rows that change. The selection keeps an identity
  (window id or row identity) and finds its row again. The order of the X server
  and the order of the scores are any order (`SetToSeqs`); what a loop keeps of an
  array is said by its places (`Within`, `Without` of `Places`).
* `SlotStore`: Ctrl+key and Alt+key on a provider tab, saves of the window slots
  that copy into the store and back, a file edited by hand, saves that fail.
* `WorkspaceSlots`: occlusion by subtraction of rectangles, the order by columns
  with a tolerance, labels and the timer that removes them.
* `CommandLine`: one integer per line; `Begins` says what completes what.
* `WindowCommands`: lines run from the command line, a hotkey or a rule. A line is
  run segment by segment (`Results`), each one from what the one before it left
  (`Continue`). The window is a `WindowInfo *` in the code, and here a *place*: a row
  of `app->filtered` (`Row`), an entry of `app->windows` (`Entry`) or none (`Null`),
  which every command reads again (`At`). The list of the X server (`clients`) and
  the memory cofi has of it (`list`, `count`, `seen`, `rows`) are apart: windows open
  and go away before cofi is told, `Relisted` copies the list into the array from the
  first place on and leaves old entries behind the new count. It is called by `js`
  and by showing the window, be it for a dialog in the middle of a line, as well as
  by the list event. `told` observes, in the state after a step, for which windows
  its commands were meant (`on`, `front`), from the place as it was at the start.
  Dialogs (`cw`, `tw`, `maw`, `rw`) answer later, when windows may have gone and the
  selection moved. A typed line reads a row; nothing fills the rows anew while
  cofi is shown except the list event, so its place does not move within a line.
* `Settings`: the same option changed by a row, by a dialog, by `:set`, by a
  rule; the list of disabled providers takes effect in the registry.
* `Bluetooth`: questions to BlueZ with a generation, one operation a device with
  a count, change signals; answers come in any order, late or never.
* `Processes`: processes come, go, and a pid is used again by another program;
  the tick rebuilds the rows, an action behind a bar is confirmed with Enter.
* `Sinks`: two pactl children; the selected index is shared with the other
  provider tabs.
* `PathBinaries`: the scanning thread, its queue of chunks, monitors.
* `Sessions`: the stream of ripgrep is read one line a callback; `reads` is what
  streams are still open, with `current` for the one in force. A log is grouped
  by session, and the terms of one row may come from different lines.
* `RuleBreaker`: `rule_breaker_should_fire` with the time of the call chosen
  freely; `fired`, `tried`, `idle` and `passed` observe.
* `WorkspaceRipple`: the ring after a change of workspace; the window manager
  reports the workspace and the active window in either order, the timer of 200
  ms fires at any time.
* `FrameRestore`: a timer of 150 ms per window, replaced by the next event.
* `Ranking`: `FuzzyMatch` and `Bonus` of `fzf_algo.c` with its narrowed matrix,
  `TierScore`, `Match` and `MatchPositions` of `match.c`, `WildcardMatch`. The
  matrices are functions of their indexes.
* `Placement`: every tile, `monitor_move`, saving and restoring a layout for
  windows with a frame, with client-side shadows and with size hints.

## 4. Runs

| run | expects | checks | shows |
|---|---|---|---|
| `owners` | pass | `Exclusive`, `NamesRulesResolve`, `Durable`, `FreshIds` | slots, names and user rules on the shared registry, with crashes between any two saves |
| `layouts` | pass | `GeomRulesInStep`, `NeverReused` | all four owners with failing saves of the slots and a names.json that gets lost: geom rules stay in step with layouts under saves, toggles, pattern edits and crashes |
| `guard` | pass | `Reachable`, `OnlyStaleRemoved`, `StartsEnd`, `Delegates` | the guard when starts and ends do not overlap; requests and termination of starts always |
| `rules` | pass | `TypeOK`, `Settled`, `OnceForOne`, `AppliedIsLive`, `RefiresOnlyByEdits` | rules fire for exactly the windows they fit, once each |
| `refire` | violation | `NeverRefires` | removing a rule makes a later one fire again |
| `missed` | violation | `OpenedWindowsFire` | showing cofi before a list event is handled makes the new window miss its rules |
| `answers` | pass | `TypeOK`, `ContextsAccounted`, `LoadingIsPending`, `DrawnOnScreen`, `LocatedFits`, `RowsInScope`, `LoadingIsFetching`, `FilesAnswer`, `LocateAnswer` | late, timed-out and superseded answers in both tabs, under every order of keys and tab changes |
| `remote` | violation | `ScopeIsAsked` | a host that was asked for and left takes over the scope later |
| `window` | pass | `TypeOK`, `HiddenIsReset`, `ModesFit`, `PendingCoversQueue`, `NeverStranded` | the window under keys, pastes, commands, hotkeys, requests, focus changes, timers and idle calls in any order |
| `dismiss` | violation | `Dismissed` | a command that leaves command mode itself succeeds and does not close cofi although it is marked to |
| `parts` | pass | the eleven properties of `MCParts` | seventeen parts with a state of their own, each under every order of its inputs |
| `recent` | violation | `PromotesActivated` | a window that is activated outside of cofi does not come to the front of the list |

The properties of `parts`: `HotkeysInStep`, `SlotsFitTheScreen`,
`RowsAreWindows`, `KeepsSelected`, `KeepsToItsWindows`, `LineAgrees`,
`SettingsAgree`, `ScoresAreEarned` and `WindowLands` are of one module each.
`ListsAgree` is the conjunction of `SlotsAgree`, `PathRowsAgree` and
`SessionsAgree`, and `LateIsHarmless` that of the parts for which something may
come late or for what has been replaced: `AnswersCount`, `DrawnIsMeant` and
`ActsOnWhatIsShown` of the lists of BlueZ, pactl and /proc, `SwitchIsShown`,
`RestoresLast` and `BreakerHolds` of those that wait for a clock. Each conjunct
has a mutant of its own in PROJECT.json. `MCParts` assumes, and TLC evaluates,
that its constants are as the theorems of section 6 ask (`HypothesesHold`).

### Bounds and why they are enough

* `owners`: 2 windows, 2 titles, 2 slots, 2 entries, 2 rules, ids up to 3. Two
  of everything is what a conflict needs (two owners of one entry, two windows
  for one slot), a table of 2 is full while there is still something to add,
  and the third id is the first that can be given out after a deletion.
  Deadlock is checked.
* `layouts`: 1 window, 2 titles, 1 slot, 2 entries, 2 ids; the rule table has
  room for 6, as a layout without room for its rule is meant to have none. Two
  titles and `*` give every relation of two patterns.
* `guard`: 3 invocations, backlog 1: a daemon, one that talks to it and one that
  takes over; the backlog of 1 fills with the second.
* `rules`: 2 windows, 2 titles, 1 rule, 2 waiting events; two windows are what
  `once` has to choose between, two events what can collapse or overtake. A
  second rule matters only for the shift of indices, which `refire` has.
* `answers`: 3 searches and fetches (`MaxAsked`) in a behaviour that uses one of
  the tabs, 2 (`MaxMixed`) in one that uses both, 2 hosts, the empty text and
  two long ones. An answer is late when a second search has superseded it, and
  the third search is the first with two late ones before it; the two tabs share
  only the window, so that one search of each is enough for what they do to each
  other. Deadlock is checked.
* `remote`: two searches or fetches, two hosts, the empty text and a long one.
* `window`: four keys (`:`, `!`, `$` and a letter), texts of two characters, a
  hotkey that opens a list and one that only fills the command line, two
  hotkeys waiting. Two characters distinguish a prefix that stands alone from
  one with a text; of two hotkeys the first can clear what the second needs.
  Deadlock is checked.
* `dismiss`: no hotkeys, since the command is typed. Deadlock is checked.
* `recent`: three windows, one that comes and goes, two lines on the screen.
* `parts` (the constants are in `MCParts`):
  * hotkeys: two combinations, three spellings of which two mean the same, one
    combination held by another client, a table of two bindings;
  * labels: three windows on two monitors of six by five cells, partly covered,
    one label fewer than windows;
  * slots: one provider tab, two keys, two payloads, one match id, and a file
    with a slot twice and an id that is no number;
  * selection: the windows of `recent`, two rows of a provider;
  * commands: two windows, two workspaces in one row, two monitors, every command
    with its dialog, with its argument and with a bad one, five lines of two
    commands, the first of which fails, reads the list again, opens a dialog or
    moves the window, and two lines a behaviour. Two windows are what a place can be
    confused between, and two lines what a dialog needs to have another one run
    under it;
  * line: two names, two other lines, a history of two, two lines run;
  * settings: a flag, a number, a list of two providers, one of them required;
    three options.json: none, broken, one with invalid values;
  * bluetooth: two devices, two operations; processes: three processes with two
    pids; sinks: two; path: four files in two directories, a table of two and
    two changes;
  * sessions: three logs of two sessions, one of a subagent, two words, two
    streams open and two lines a search;
  * breaker: limit 2, window 2, quiet time 3, two pairs and room for one, six
    calls at seven times. The program has 10, 1000 ms, 2000 ms and 512; the
    theorem `LateStaysHarmless` has all of them;
  * ranking: needles of up to three and texts of up to four characters of four,
    among them one in upper case and one that separates words. Four places for
    three letters are the least in which a gap can be on either side;
  * placement: two monitors of 12 and 24 by 14 pixels below a panel of two, one
    window without a frame, with one, with shadows, and with size hints;
  * ripple and restore: two windows, two events waiting; four timers.

  `MCView` takes states as one that differ only in what no step reads again
  before it is set anew: for commands what the last line was meant for, places
  behind the end of the list, what an ended dialog had collected and the names of
  workspaces; for the selection that of a provider that is not shown; for
  sessions what a search that was given up was for. No invariant reads these
  either, and an action property is evaluated on every step before its end state
  is looked up, so nothing is missed.

  The parts do not meet in the code but through the calls named in their
  modules, which is why a behaviour is of one part; what connects them (the
  window, the keys, the tabs) is the subject of `window` and `answers`.
* `CHECK_DEADLOCK FALSE` is said where a bound of the model can stop a
  behaviour: ids run out in the middle of a repair (`layouts`), every invocation
  has ended (`guard`), all windows were opened and closed (`rules`, `refire`,
  `missed`), the counted inputs are used up (`parts`, `recent`).

### Fairness

MatchStores, RuleEngine, Lifecycle and the parts state safety only and assume
none. DaemonSocket assumes weak fairness of `Step(p)` for each process: the
operating system schedules every process that can run, and `Step` is disabled
while a call blocks (a connect on a full backlog, a read from a silent sender).
The starts, ends and kills are the environment and are not fair. `StartsEnd` and
the open requests of `Delegation` need no more, since whoever a process waits
for is itself scheduled. SearchTabs assumes weak fairness of the two timers
alone (`FilesTimerFires`, `LocateTimerFires`): the main loop fires every timer
that is armed. That a child process ends, or a thread returns, is assumed
nowhere; the timers exist because it may not. `Ends` of LatestAnswer is
therefore owed to them.

### Environment assumptions

`Reachable` and `OnlyStaleRemoved` hold where `serial` is true: no invocation
starts or ends while another one is starting or ending. `Settled` holds in
sessions without disturbances; `OnceForOne` and `RefiresOnlyByEdits` in sessions
in which the rules are not edited, with all the others. `GeomRulesInStep` is
checked without failing saves of the layouts: when layouts.json cannot be
written, the handler stops after matching.json
(`geom/window_geometry_matching.c`) and the rule is left behind. `NeverStranded`
is about `close_on_focus_loss`, the default. `AnswersCount` speaks of devices
that stayed on the list while they were asked, `SettingsAgree` of files whose
last save succeeded and of rows under which no rule set an option,
`ActsOnWhatIsShown` and `DrawnIsMeant` of a screen that shows the rows and not
an error, `SessionsAgree` of an entry that has terms, `SwitchIsShown` of a
session in which the mark of an activation by cofi was taken back by its event:
section 5 says what happens in the other cases. `KeepsToItsWindows` says nothing of
the windows that are changed by a line of a hotkey or a rule that has read the list
again when its place had come to be another window's (`told.slips`), nor by the
answer to the dialog of `maw` after a later `maw` has collected again; `tm` without a
number may move the selected window. `WindowLands` is checked with
three columns.

## 5. Disagreements found while modelling

With a run:

* **refire** - `rules/CONTEXT.md:92-93` says that a rule does not re-fire while its
  window matches; `remove_rule` shifts the rules and leaves the flags.
* **missed** - `SPEC.md:317` has rules fire on every window that opens;
  `show_window` refreshes the list without applying them.
* **remote** - `docs/decisions/0001-plugin-api.md:49` asks for a token so that stale
  results cannot change state; a remote fetch has none, and an answer that comes
  after the scope was cleared or another host was asked for takes over the scope.
* **recent** - `core/history/CONTEXT.md:34` moves the window that becomes active
  to the front of the history; the handler of the event overwrites
  `active_window_id`, which `update_history` compares with to see a change.
* **dismiss** - `commands/CONTEXT.md:115-117` closes cofi after a marked command
  that succeeds; the command is read again after its handler has emptied the
  entry that it points into.

Without a run, by part. Where a property above has an exception for one of
them, it says so.

* *Stores.* `save_window_geometry_for_window` adopts any entry that matches,
  whoever owns it (`geom/window_geometry_matching.c:222`, against
  `docs/architecture.md:167`); the result of `save_match_entries` is ignored and
  an id is given out again after a restart (`matching/match_entry_config.c:75`,
  against `matching/match_entry.h:11`). `overlay_pattern.c:205-207` edits the
  pattern of an entry and leaves the cached pattern of its rules in memory,
  which saves repair. An unreadable harpoon.json is overwritten by the next save.
* *Guard.* Two invocations that start at once give two daemons: a bound socket
  that does not listen yet is unlinked as stale (`daemon/daemon_socket.c:196`,
  against `docs/architecture.md:30`).
* *Rules.* `x11_events.c` calls the pruning of rule state a grace count that
  tolerates one transient absence, while it prunes at once. The breaker's
  `last_fire_ms` is not moved by calls it refuses, so that a loop that never
  rests fires ten times again every two seconds, while `rules/CONTEXT.md:111-113`
  arms it again "after more than two seconds of quiet"; the window of a burst is
  fixed, so that twice the limit fits into a second across its edge; the table
  is never pruned and fails open; a refused fire has already consumed the
  matched flag.
* *Window.* A pasted `:text` is read through a pointer into the emptied entry
  (`ui/prefix_tabs.c:134-148`); a wide character is narrowed to its low byte and
  may be taken for a prefix (`ui/key_handler.c:89-99`); the tab of `$` stays
  hidden (`docs/modes.md:76`); a request for the command line during a modal
  leaves the claim `!` and the run tab surfaced; `SPEC.md:143` ("Deleting back to
  empty exits run mode") and the modal policy `RETURN_KEEP_QUERY` are not in the
  code; hotkeys hide the window that `daemon/CONTEXT.md:67-70` keeps open.
* *Hotkeys.* `overlay_hotkey_add.c` calls `hide_overlay`, which clears
  `hotkey_rebind`, before it uses the pending combination; the rows are not
  filtered again, and the next Ctrl+B takes a stale index and overwrites the key
  of another binding without asking (`daemon/CONTEXT.md:72`). A captured binding
  is stored with an empty command, which the next load skips. A corrupt
  hotkeys.json gives the defaults in memory, and the next save overwrites it.
* *Selection.* `update_scroll_position` goes by all lines of the screen while
  `format_provider_display` draws fewer when there are trailing lines: the
  selected row may be off the screen (`core/selection/CONTEXT.md:62`). List
  events reset the selection on a provider tab without row identities
  (`docs/architecture.md:166`), and an empty query moves it to the first row.
* *Commands.* `workspaces/overlay_workspace.c:80-85` takes the stored index 0 for
  a missing one: the first workspace cannot be renamed (`README.md:227` of the
  repository). The commands of a rule get a pointer into `app->windows`
  (`rules/rules_dispatch.c:34` and `:44`), which `js`
  (`commands/command_handlers_workspace.c:101`) or the dialog of `rw` on a hidden
  window (`ui/window_lifecycle.c:309`) fills anew: in "js 1,tw tile" the second
  command may act on another window, while `commands/CONTEXT.md:91-92` has it
  dispatched "against the supplied rule target window"; a hotkey has the same
  pointer (`daemon/hotkeys.c:203-236`). `tm` without a number takes the selection of
  the Windows tab (`x11/monitor_move.c:332-345`), be it run by a hotkey or a rule,
  against `commands/CONTEXT.md:131` and `SPEC.md:127` ("on the active X11 window").
  `maw` shares its list of windows with an earlier
  `maw` whose dialog is open; `cw` without an argument opens the overlay of `jw`.
  After an error message Up and Down page the help. Command mode that is left
  with an empty line keeps the rows filtered for the text from before
  (`commands/command_mode.c:436`), which is the exception of `LocatedFits`.
* *Configuration.* `:set` run by a rule leaves the rows of an open Config tab
  stale; the dialog of a list drops ids it does not know.
* *Tabs.* `switch_to_tab` sets the current tab before it empties the entry, so
  that the Bluetooth, Sinks and Proc tabs come back with the rows of the old text
  under an empty entry (`ui/tab_switching.c:91`, against
  `bluetooth/CONTEXT.md:55-57`); the Sessions tab does the same for another
  reason (`sessions/sessions_provider.c:102-111`: the empty text equals the one
  that was just cleared, and only narrows). A Bluetooth device that leaves the
  list during an operation starts its count again. An error row hides the rows
  of Proc and Sinks, and Enter still acts on them. A late answer of pactl resets
  the selected row of another tab, and its success hides a window that was shown
  again. `:ka junk` kills all. Deleting a session ends the search, and the
  status goes on to say that it searches. `r` in the Files tab starts the search
  again whatever is in the entry (`files/files_provider.c:219`). The PATH tab
  keeps a file that went while its chunk waited, and a winner that is deleted
  does not bring back the file it shadowed.
* *Algorithms.* `fzf_algo.c:243` ends the matrix at the first complete
  occurrence and misses a better one ("ab" in "axb-ab" has 49, "xxb-ab" 56),
  though line 180 says that it "finds the optimal fuzzy match";
  `match_positions("aab", "aaab")` is not the placement that earns the score
  (`matching/CONTEXT.md:64-65`). `FoundIsEarned` asks for some placement and
  `LegacyIsBest` for any for this reason.
* *Placement.* With the default of two columns `tile_anchors_right` anchors grid
  positions 3, 6 and 9 to the right although 3 is at the left
  (`geom/CONTEXT.md:146-147`). With `restore_desktop` off a restore still switches
  to the saved workspace (`geom/window_geometry_matching.c:89`,
  `docs/geom-tab-spec.md:99`). The first restore of a maximized window to a
  layout with one axis maximized loses that axis.
* *X events.* The mark that suppresses the ring stays set when cofi activates the
  window that is active already; an active-window report before the workspace
  report destroys the ring and draws it again (`x11/CONTEXT.md`, criterion 20).

## 6. What is proved

`MatchStoresProofs`, for every set of windows, titles and slots, every size of
the tables and every choice of failing and lossy files except matching.json
(`MatchingReliable`; without it an id is given out again after a restart, section 5):

* `ExclusiveOwners`: `Spec => []Exclusive` - in memory and on disk, no two slots,
  no two rules of a kind, and no slot, name and user rule share an entry.
* `NewIdsAreFresh`: `Spec => FreshIds` - a new id is referenced nowhere.
* `IdsAreNeverReused`: `Spec => NeverReused` - the persisted counter never goes
  back and new ids are at or above it.

None of the three is inductive. The invariant `IInv` (theorem
`InductiveInvariant`) adds: every id in memory is below `next` and every id in
the files below `disk.next` (`MemBelow`, `DiskBelow`), the file's counter is not
ahead of the memory's (`CountersOrdered`), and - the heart of it -
`MatchingFirst`: whenever something in memory refers to an id at or above the
persisted counter, the next file to be saved is matching.json, so that no other
file can be written with such an id. `AllApart` is `Exclusive` over memory and
files *together*, which is needed because a crash leaves some files from before
a handler and some from after it. Handlers fall into three classes, each with a
lemma: those that only take owners away (`ShrinkingStep`), those that change
bindings (`OwnersKept`), and those that give the next id to one new owner
(`AllocatingStep`); all three are instances of `HandlerStep`.

Three more theorems are about the other properties of the stores.

* `NamesAndRulesResolve`: `OwnersReliable /\ Spec => []NamesRulesResolve`.
* `FilesAreDurable`: `SavesReliable /\ Spec => []Durable` - between operations a
  crash loses nothing.
* `GeomRulesFollowLayouts`: `LayoutsReliable /\ Spec /\ []RoomForRules =>
  []GeomRulesInStep`.

Their hypotheses are where the code holds what they say. `OwnersReliable` asks
that matching.json, names.json and rules.json can be written (names.json and
rules.json may still be unreadable at a start) and that no layouts are used,
because a layout adopts entries of other owners (section 5) and its deletion
takes them away; `SavesReliable` that all files can be written; `LayoutsReliable`
that layouts.json can, and `RoomForRules` that the table of rules is never full,
as a layout without room has no rule. The strengthening of the first is `RInv`
(theorem `ResolvingInvariant`): names and rules *of memory and of the files*
have their entries in memory, those of the files also in matching.json; those of
memory have them in matching.json unless that is the next file to be saved
(`EntriesFirst`); a file that no save is due for says what the memory says
(`OwnersSaved`); and the entry about to be deleted has no owner left
(`VictimUnowned`). `DInv` says of each of the other files that it is to be saved
or agrees with the memory (`Agreeing`: entries that were collected in memory may
still be in the file, but none that somebody refers to is missing). `GInv` says
that each id that is not in `resync` is in step at every point of a handler, not
only between them.

`RuleEngineProofs`, for any number of windows, titles, patterns and rules, any
length of the queue and every set of disturbances:

* `RulesSettle`: `Spec => []Settled` - without disturbances, once every event is
  handled, cofi knows the listed windows by their titles, and a plain rule is
  matched for exactly the new windows it fits.
* `NoRefireWithoutEdits`: `Spec => []RefiresOnlyByEdits`.
* `OnceForOneWindow`: `Spec => []OnceForOne`.
* `AppliedWindowIsLive`: `Spec => []AppliedIsLive`.
* `TypeCorrect`: `Spec => []TypeOK`.

The invariant `IInv` ties each of them to what the code keeps: `OnceInv` (a rule
that fires once is applied to the very window it is matched for), `HeldInv` (a
fire whose window has matched ever since still has its flag, and the uids of the
rules differ), `ListInv` (a list that differs from the known one is announced by
an event in the queue), `LiveInv` (a rule applied to a window that is gone is
about to be cleared), and for sessions without disturbances `TitleInv` (a cached
title that differs is announced, and known windows are selected) and `FlagInv`
(the flags are those of the cached titles). `Settled` follows with an empty
queue. The lemmas `PassFlags`, `PassFires`, `PassOnce` and `PassHeld` say what one
pass over the rules does, for a list change and a title alike.

`SearchTabsProofs`, for any number of searches, hosts and texts:

* `EveryContextAccounted`: `Spec => []ContextsAccounted` - every reference of a
  context has its holder, whichever callback comes first; nothing is freed that
  a callback will use, and nothing is leaked.
* `LoadingEnds`, `CacheIsDrawn`, `LocatedRowsFit`, `RowsFollowScope`,
  `LoadingIsFetched` and `TypeCorrect`: the other invariants of the run.
* `FilesImplements` and `LocateImplements`: `Spec => FilesQuestion!Safety` and
  `Spec => LocateQuestion!Safety`, the safety half of the two refinements.

The invariant `Inv` (theorem `Inductive`) adds to the properties what they rest
on: the pending search is the newest generation, was not given up and has its
timer (`ContextsInv`); a locate search that is pending, or rows of one, mean a
local scope with local rows (`LocalOnly`); and the query of the pending search,
not only of the rows, is the text of the entry (`QueryFits`), because its answer
will be shown with no further look at the entry. `UnrefAccounted` is the lemma
about one context, `OneChanged` and `PendingDropped` are those about a table of
them, and both tabs use the same ones; `RefilteredInScope` serves every action
that ends in a filter. There is one lemma for each action.

`DaemonSocketProofs`, for any number of invocations and any backlog:

* `DaemonIsReachable`: `Spec => []Reachable`.
* `OnlyStaleIsRemoved`: `Spec => OnlyStaleRemoved`.
* `HandledAtMostOnce`: `Spec => D!Safety` - the safety half of the refinement of
  `Delegation`, for sessions in which starts and ends overlap too.

The invariant `IInv` (theorem `Inductive`) has six parts for each process and
one for pairs. `SocketFits`: the socket of a process goes with its place in
`run_cofi`. `ClientFits`: who is connected was accepted by a socket that listened
and never serves. `SentFits` and `HandledFits`: a request that is complete is
that of a process that is done, and nobody's request is handled twice. `ReadFits`
and `QueueFits`: a connection is in one queue, once, or being read, and was not
handled; this is what makes a request handled at most once. `Alone`, for serial
sessions: at most one process is starting or ending, once it has found no daemon
there is none, and who serves or is about to listen has the path. There is one
lemma for each part. The refinement rests on two more: `LostStays` (a socket that
was closed never listens again, so what ended stays ended) and `RequestsEnd` (a
step that neither asks nor handles only ends requests, several at a time when a
daemon dies).

`LifecycleProofs`, for any keys, texts, claims of tabs, hotkeys and lengths of the
queue, with or without `close_on_focus_loss`:

* `LifecycleTypes`, `HiddenWindowIsReset`, `ModesAlwaysFit`,
  `PendingAlwaysCoversQueue` and `ShownWindowIsNeverStranded`: the five
  invariants of the run `window`.

The invariant `LInv` (theorem `LifecycleInvariant`) is `App` (the types), `Fits`
and `Reset` (the modes and what a hidden window is, without the idle calls),
`OneGrab` (one request for the focus waits, be it the timer, an idle call or one of
the running round), `Covered` and `Seen`. `Covered` is the strengthening that
matters. `PendingCoversQueue` says what the flag of the pending hotkeys is worth
when no round is running; within one it is not an equivalence, since the first
hotkey of a round may clear the flag that the second one still waits under. What
holds there is that all hotkeys that wait are in the round, and that a flag that
is set has one there; so that the equivalence is back when the round is over.
Each operator of the model (hide, enter a mode, surface a tab, run a command) has a
lemma that says what it keeps, and each action one that puts these together.

`PartsProofs`, about `Parts`; a behaviour of `Parts` is one of a single part, so
that each theorem is that of the part (`TabPartsProofs`, `LatePartsProofs`) and a
step of temporal logic. The hypotheses are conditions on the constants alone and
hold in `MCParts`.

* `HotkeysStayInStep`: `HotkeysFit => (Spec => []HotkeysInStep)`, for any
  shortcuts with any spellings and any other clients. `HotkeysFit`: every
  combination has a name, and the defaults bind none twice. The invariant
  (`HKInv`) adds that the keys held are those of `grabs` or none (`HKHeld`), that
  `grabs` are those of the bindings but during a capture, which is that of an
  overlay (`HKGrabs`, `HKCapture`), and that the binding to be replaced is the
  one that has the pending key: the confirmed rebinding removes it and adds the
  key again, and no key is bound twice because of this alone. Removing a binding
  leaves the others, in order: `Nth` and `Picked` have lemmas of their own, which
  rest on the least element of a set of numbers (`NatMin`).
* `SettingsAlwaysAgree`: `OptionsFit => (Spec => []SettingsAgree)`, for any options
  and values. `OptionsFit`: what is read for a missing or an invalid value is a
  valid one, and the Config tab cannot be disabled. The invariant (`CFInv`) adds
  that the dialog of a number is open on an option that is one (`CFNumber`) and
  that a dialog is open on the Config tab only (`CFOpened`): otherwise its answer
  could be a list of providers that disables the tab it is on.
* `LateStaysHarmless`: `DevicesFit, TimersFit, LimitsFit => (Spec =>
  []LateIsHarmless)`, six parts:
  * Bluetooth (`BTInv`): the call a device waits for exists and has its
    generation (`BTAsked`), calls have numbers of their own (`BTIds`), and a call
    whose device was listed ever since is not ahead of the device's generation, and
    is the one it waits for if it has it (`BTFresh`); rows are listed devices
    (`BTRows`), and a tab that is loading has asked (`BTLoads`). `DevicesFit`: what a
    query finds are devices.
  * Sinks and Processes (`SKInv`, `PRInv`): on the tab, what is drawn is what the
    rows are. Each handler that changes rows, text or selection draws; the proofs
    go through all of them.
  * the ring (`RPInv`): a switch by others is in the queue, or waits for its ring
    with the timer armed, or has had it; and the mark of an activation by cofi
    does not come after it.
  * the restores (`FRIInv`), for any non-empty set of windows and any number of
    timers (`TimersFit`): a timer in the list of the main loop is the one in the
    table (`FRCurrent`), and what the table names is such a timer of that window
    (`FRTablePoints`). Each is of no use without the other: the first says that
    the cleanup, which only knows the table, removes every timer, the second that
    replacing a timer frees one that was not freed. The last timer of a window is
    named by a witness (`FRLastFits`), so that no maximum of a set is needed
    before the end.
  * the circuit breaker (`BRIInv`), for every limit, window, quiet time and table,
    if a burst is at most as long as the quiet time (`LimitsFit`; in the code 1000
    and 2000 ms): of the fires of a pair that has an entry, any two that are twice
    the limit apart are more than a window apart in time; a call after a quiet
    time fires; a call is refused only after a full burst not long ago. The
    invariant divides the fires of a pair into bursts: those since the entry's
    start are as many as its count, at most the limit, within one window, and any
    fire more than a limit back lies more than a window before the start.
* `ListsAlwaysAgree`: `SlotsFit, PathFit, SessionsFit => (Spec => []ListsAgree)`,
  three parts:
  * the slots (`SLInv`), for any provider tabs, payloads, keys and ids: in memory
    and in what the file would give, a slot has one entry and a payload of a
    provider tab one slot (`SLEntries`); and unless the last save failed the file
    gives the store and the window slots of memory (`SLFile`). A save first copies
    the window slots into the store, one key after the other: what it leaves
    answers for every key what the window slots say (`SLSyncs`), and reading back
    what was written gives the same store (`SLReads`) and from it the same window
    slots (`SLHydrates`). `SlotsFit`: a file from elsewhere, once loaded, has no
    payload of a provider tab at two slots of it, and no slot twice. The loader
    merges the lines of a slot whose key is a small letter, and mends nothing
    else, so that without this `OneToOne` does not hold; the files that cofi
    writes always fit.
  * PATH (`PBInv`), for any finite set of executables, any directories, caps and
    changes: chunks are lists of one directory each that wait in the order of
    PATH, and the directories not yet read come after them (`PBChunks`); what
    nothing happened to is as it was found and comes in that order (`PBFound`), and
    the first file of its name is in the cache, in a chunk or in a directory still
    to be read, unless the cache was full (`PBFirsts`); a file that is offered is
    there, or its deletion is in the queue of events, or was handled while its
    chunk waited (`PBThere`). The phases of the scan (`PBPhase`) say that the
    final chunk is the last one, so that the sort comes after every merge.
  * Sessions (`SNInv`), for any logs, sessions, terms, labels and caps: a search
    that is shown has exactly one read, of its terms, in logs that were not
    deleted (`SNReads`), so that a late line of an earlier one is told from it; a
    result is one for its session and of the terms that are searched for
    (`SNFound`); and the rows are the results that fit, sorted (`SNRows`). That a
    sort of rows by rank keeps them all, each once, rests on the comparison being
    an order (`SNPrecedes`, `Orders`, `Sorts`): ties in time and hits are broken by
    the session, of which there is one result each.
* `SelectionIsKept`: `RowsFit => (Spec => KeepsSelected)`, an action property. A
  list event filters again, and a provider replaces its rows, between
  `preserve_selection` and `restore_selection`; the proof is that nothing between
  the two moves the identity that was preserved (`SEFilters`), that the restored
  marker is on it if it is listed (`SERestores`), and that no other step changes the
  list under the same query (`SEQuiet`). It needs an invariant, `SEInv`: a command
  line is no query (the text is empty), and the rows are some of those there are.
  `RowsFit`: they are finitely many, and none has the id of cofi's own window,
  which stands for no identity.
* `RowsStayWindows`: `RowsFit => (Spec => []RowsAreWindows)`, for any windows,
  kinds, rows and screens. The list of the X server, the history and the rows
  drawn are each *listed* (`Listed`: every element of a set once), and the proof
  follows that through every loop: the elements picked at some places of a list
  are listed (`PicksListed`), two lists without a common element joined are
  (`JoinsListed`), and so the five classes of `partition_and_reorder` after the
  first two rows are the history again (`SEParts`). That a history of all windows
  is one of the orders of a set needs that the places of a list are as many as its
  elements (`Counted`, `Arranged`). `RowsFit` also asks for finitely many windows
  and for lines of a screen that are a number.
* `LineAlwaysAgrees`: `LinesFit => (Spec => []LineAgrees)`. That a history is the
  last lines that were run is said by counting: the line at the end of a block of
  equal ones is in the history at the number of blocks from there on. The heart of
  the proof (`CLChanges`, `CLRemembers`) is what `add_to_history` does to that: a line that is
  run again moves the end of the last block and leaves the history alone; another
  one is one more block, every count grows by one, and the oldest falls off at the
  cap. The invariant (`CLInv`) adds that the candidates are empty outside of
  command mode and that a position is within its history. `LinesFit`: completions
  are names of commands, finitely many, and the empty line has none.

At its end `RuleEngineProofs` is about the lines of commands (`WC`, an instance of
`WindowCommands`), for any lines, windows, workspaces, rows and monitors:

* `CommandsKeepToWindows`: `WC!CommandsFit => (WC!Spec => WC!KeepsToItsWindows)`,
  an action property; `CommandsFit` says that lines are sequences of commands, which
  `MCParts` has TLC evaluate. The invariant (`WCInv`) is that an open dialog
  of `maw` holds what it was opened for unless a later `maw` collected again
  (`WCHeld`). The rest is about one line. Each
  handler has a lemma that says what it does (`WCDid`): the windows it changes and
  gives the focus to, whether it closes one, and that it leaves the array alone or
  fills it anew as `Relisted` does; `WCHandles` puts them together. What adds up along
  a line (`WCLine`) is that so far every change is of a window some command was meant
  for, and that *the place still holds the window the line was given*, unless the
  line slips: if it reads the list again and closes nothing, the list it reads is
  that of the start, in which the place is the window's (`WCAsked`). `WCContinues`
  adds one command. For a line of any length both that the results of its segments
  exist (`WCResultsExist`) and what they are (`WCRuns`) are inductions by hand: of
  the segments where it would fail, the least has one before it.

## 7. What is only model-checked

* `StartsEnd` and the liveness half of `Delegates`, of `FilesAnswer` and of
  `LocateAnswer` (that searches end): liveness under fairness, which the prover
  cannot do (nor `ENABLED`).
* `ScoresAreEarned`: what Ranking computes, by functions of their indexes. That
  would be induction over data, which is out of the prover's reach, as are
  `RECURSIVE` operators, of which no module here has any.
* `WindowLands`: it is one of the screen of the run, not of every screen. The
  cells of a grid are at the sides they are anchored to with three columns only
  (section 5), and a window that is maximized along one axis and restored is put
  by the window manager on the area of the monitor its middle is on then, which
  is the one of before if the monitors stand side by side as they do in the run.
* `SlotsFitTheScreen`: the visible part of a window is what a fold over the
  windows above it leaves of its rectangle, and its area a sum over those
  fragments; that it equals the number of cells counted one by one is again an
  induction over data.

## 8. What is not modelled

* Other data providers (`apps/`, `bookmarks/`, `calc/`, `emoji/`, `profiles/`,
  `system_actions/`): synchronous lists of external data, whose code is the
  parsing of a file or of a program's output and the launching of a program. They
  have no protocol of their own; the tab around them is in `Lifecycle` and
  `Selection`.
* Display: formatting, layout and drawing of text, GTK set-up, style. The offset
  of the rows on the screen is in `Selection`.
* Libraries: the expression parser `tinyexpr`, the logger, generated emoji data,
  `popl.hpp`.
* Of the modelled components: fsync and power loss; `--assign-slots` running
  beside a daemon; the loss of matching.json where rules are present; the class,
  instance and type of a window pattern (windows differ in their titles only);
  the class of wrappers that read and write X properties; the cap of 32
  occluders and of 1024 rows; the text of help, status and rows; the nested main
  loop of the hotkey conflict dialog; the splitting of command lines into
  segments and the expansion of aliases, of which only the order and the end at
  a failing segment are in `WindowCommands`.
* Of the commands on windows: windows close and move at once, while the code asks
  and the window manager answers later. The rows are the list in its order, without
  a query and the history (`Selection` has both). `js` numbers the windows of the
  workspace in the order of the list (their geometry is in `WorkspaceSlots`).
  `rules_apply` goes on with the next rule for the place, which a rule with `js` or
  `rw` may have changed: `RuleEngine` has rules without such commands, and
  `WindowCommands` runs each rule from the place as it is. Commands of the providers
  with arguments, some of which hide cofi or read the list again
  (`projects/projects.c:259`), are in `Lifecycle` as far as they change the window, and
  not in a line of `WindowCommands`.
