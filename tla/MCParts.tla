------------------------------ MODULE MCParts ------------------------------
(* The parts of cofi that keep a state of their own: values for the         *)
(* constants of Parts, and the parts that are only model-checked.           *)
EXTENDS Parts, Integers, Sequences, TLC

\* Two combinations with three spellings; another client holds the second.
MCMeaning == [s \in {"a", "b", "A"} |-> IF s = "b" THEN 2 ELSE 1]
MCDefaults == <<[key |-> "a", command |-> "c"]>>
MCCanonical == <<"a", "b">>

\* Three places on two monitors; the second covers a part of the others.
Corners(x1, y1, x2, y2) == [x1 |-> x1, y1 |-> y1, x2 |-> x2, y2 |-> y2]
Titled(x1, y1, x2, y2) == [outer |-> Corners(x1, y1, x2, y2), content |-> Corners(x1, y1 + 1, x2, y2)]
WS == INSTANCE WorkspaceSlots WITH ws <- st, Ids <- {1, 2, 3},
        Geometry <- <<Titled(0, 0, 4, 4), Titled(2, 1, 6, 5), Titled(4, 0, 6, 5)>>,
        Clips <- <<Corners(0, 0, 4, 5), Corners(4, 0, 6, 5)>>,
        Percent <- 40, MinDim <- 2, Threshold <- 1, MaxSlots <- 2

\* No file, and one with a slot twice and a window slot that is no number.
Stored(tab, key, upper, payload) == [tab |-> tab, key |-> key, upper |-> upper, payload |-> payload]
MCSlotFiles == {<<>>, <<Stored("sinks", 1, TRUE, "p"), Stored("windows", 0, FALSE, "bad"),
                        Stored("sinks", 1, FALSE, "q")>>}

\* Two normal windows on two workspaces and a special one that comes and goes.
MCKind == [i \in {1, 2, 3} |-> [normal |-> i # 3, desktop |-> IF i = 2 THEN 2 ELSE 1]]

\* Two names, one the beginning of nothing but the other's lines, two lines.
MCBegins == (0 :> {}) @@ (1 :> {1, 2}) @@ (2 :> {2}) @@ (3 :> {1, 2})

\* A flag, a number and the list of providers; three options.json.
Read(is, options) == [is |-> is, options |-> options]
MCValues == [b |-> <<"on", "off">>, c |-> <<2, 3>>]
MCDefault == [b |-> "on", c |-> 2]
MCRepaired == [b |-> "on", c |-> 3]
MCOrder == <<"b", "disabled_providers", "c">>
MCLists == {{}, {"p", "x"}}
MCShows == {<<"q", "b", "on">>, <<"q", "c", 2>>, <<"q", "c", 3>>}
MCFiles == {Read("absent", <<>>), Read("broken", <<>>),
            Read("object", ("c" :> 7) @@ ("disabled_providers" :> {"p", "config", "x"}))}

\* Two devices, of which the text finds the second and an empty one both.
MCFound == [q \in {"q", "empty"} |-> IF q = "q" THEN <<2>> ELSE <<1, 2>>]

\* Two pids, one of them used again by another program.
MCProcs == {[pid |-> 1, name |-> "a"], [pid |-> 1, name |-> "b"], [pid |-> 2, name |-> "b"]}
MCScore == [f \in {"f"} |-> [a |-> 0, b |-> 1]]

\* Two sinks, of which the text finds the second.
MCHeard == [f \in {"f"} |-> {2}]

\* Texts of two letters, one of them in both cases, and a hyphen.
Letters == {"a", "b", "B", "-"}
RK == INSTANCE Ranking WITH rk <- st, QueryChars <- {"a", "b"}, TextChars <- Letters,
        Class <- [c \in Letters |-> CASE c = "B" -> "upper" [] c = "-" -> "nonword" [] OTHER -> "lower"],
        Fold <- [c \in Letters |-> IF c = "B" THEN "b" ELSE c],
        Upcase <- [c \in Letters |-> CASE c = "b" -> "B" [] c = "a" -> "A" [] OTHER -> c],
        Wordly <- [c \in Letters |-> IF c = "-" THEN 8 ELSE 0],
        Starts <- {"-"}, MaxQuery <- 3, MaxText <- 4

\* Two monitors of different widths below a panel, a window of each kind.
Box(x, y, w, h) == [x |-> x, y |-> y, w |-> w, h |-> h]
Look(kind, l, r, t, b, min, max) ==
    [kind |-> kind, l |-> l, r |-> r, t |-> t, b |-> b, min |-> min, max |-> max]
PL == INSTANCE Placement WITH pl <- st, Columns <- 3, Desks <- 2, MaxSteps <- 5,
        Monitors <- <<Box(0, 0, 12, 14), Box(12, 0, 24, 14)>>, Desktop <- Box(0, 2, 36, 12),
        Looks <- {Look("none", 0, 0, 0, 0, 1, 99), Look("frame", 0, 1, 2, 0, 5, 9),
                  Look("gtk", 1, 2, 1, 1, 1, 99)},
        Spots <- {Box(1, 3, 6, 5)}, Options <- {[kind |-> "right", size |-> <<1, 2>>]}

\* Lines with each command, with its dialog and with its argument; and some
\* in which a command comes after one that fails, reads the list again, opens
\* a dialog or moves the window.
Do(cmd, arg) == [cmd |-> cmd, arg |-> arg]
CommandLines ==
    {<<Do(c, "none")>> : c \in {"ew", "cw", "jw", "tm", "tw", "miw", "maw", "rw"}}
    \cup {<<Do("ew", "bad"), Do("cl", "none")>>, <<Do("cw", "2")>>, <<Do("jw", "left")>>,
          <<Do("js", "1"), Do("tw", "tile")>>, <<Do("rw", "none"), Do("cl", "none")>>,
          <<Do("cw", "right"), Do("tw", "tile")>>, <<Do("pw", "none"), Do("sw", "none")>>,
          <<Do("tm", "1")>>, <<Do("maw", "2")>>, <<Do("rw", "2")>>}
WC == INSTANCE WindowCommands WITH wc <- st, Win <- {2, 3}, Desks <- 2, PerRow <- 0,
        Screens <- 2, Names <- {"new"}, Lines <- CommandLines, MaxLines <- 2

\* Two directories that both have the first name; a new file may come.
At(dir, name) == [dir |-> dir, name |-> name]
MCPathFiles == {At(1, 1), At(2, 1), At(2, 2), At(1, 3)}
MCInitial == MCPathFiles \ {At(1, 3)}
MCRanked == "q" :> <<2, 1>>

\* Two sessions, one of them with a log of a subagent.
MCSessionOf == [l |-> 1, m |-> 1, n |-> 2]
MCModified == [l |-> 1, m |-> 2, n |-> 1]
MCLabel == <<{}, {"b"}>>
MCSessionNames == {{"b"}}
MCTerms == [nothing |-> {}, a |-> {"a"}, ab |-> {"a", "b"}]

-----------------------------------------------------------------------------
\* What the theorems of PartsProofs, and that about WindowCommands, ask of the
\* constants.
ASSUME HypothesesHold ==
    HotkeysFit /\ OptionsFit /\ DevicesFit /\ TimersFit /\ LimitsFit /\ RowsFit
    /\ LinesFit /\ PathFit /\ SlotsFit /\ SessionsFit /\ WC!CommandsFit

-----------------------------------------------------------------------------
MCInit ==
    \/ Init
    \/ part = "labels" /\ WS!Init
    \/ part = "ranking" /\ RK!Init
    \/ part = "placement" /\ PL!Init
    \/ part = "commands" /\ WC!Init

MCNext ==
    \/ Next
    \/ /\ part' = part
       /\ \/ part = "labels" /\ WS!Next
          \/ part = "ranking" /\ RK!Next
          \/ part = "placement" /\ PL!Next
          \/ part = "commands" /\ WC!Next

MCSpec == MCInit /\ [][MCNext]_vars

\* What no step reads again before it is set anew; states that differ in it
\* alone have the same successors, which the properties compare them with.
\* What the last line of commands was meant for, places behind the list and
\* what it says of windows that are not in it, what a dialog that has ended
\* had collected, and the names of workspaces.
CommandsSeen == [st EXCEPT !.told = WC!Nothing, !.names = <<>>,
                           !.list = [n \in WC!Entries(st) |-> @[n]],
                           !.seen = [w \in WC!Listed(st) |-> @[w]],
                           !.collected = IF st.dialog.kind = "all" THEN @ ELSE {}]
\* The selection of a provider that is not shown, and the row it remembers
\* while it has one at its place.
SelectionSeen == [st EXCEPT !.prov = IF st.tab = "windows" THEN SE!AtTop ELSE @,
                            !.prov.id = IF st.prov.index < Len(st.rows) THEN SE!Cofi ELSE @]
\* The count of the lines read when nothing is read, and what a search that
\* was given up was for.
SessionsSeen == [st EXCEPT !.lines = IF st.searching THEN @ ELSE 0,
                           !.reads = [k \in DOMAIN @ |-> IF @[k].current THEN @[k] ELSE "stale"]]
MCView == <<part, CASE part = "commands" -> CommandsSeen
                    [] part = "selection" -> SelectionSeen
                    [] part = "sessions" -> SessionsSeen
                    [] OTHER -> st>>

-----------------------------------------------------------------------------
(* The labels of the visible windows are numbered along their places, and a *)
(* window that has one shows enough of itself (workspace_slots.c).          *)
SlotsFitTheScreen == part = "labels" => WS!SlotsFitTheScreen

(* A match takes the places of the needle in order and its score is what    *)
(* these places earn (fzf_algo.c, match.c).                                 *)
ScoresAreEarned == part = "ranking" => RK!ScoresAreEarned

(* A tile, a move and a restore put the frame of the window where they mean *)
(* to, within the work area of its monitor (tiling.c, window_geometry_*.c). *)
WindowLands == part = "placement" => PL!WindowLands

(* Each command of a line, which reads its window through a pointer after   *)
(* what the commands before it did, changes only windows it is for, and so  *)
(* does the answer to a dialog, unless the window list was read again and   *)
(* the place has moved (command_handlers_*.c, rules_dispatch.c, hotkeys.c). *)
KeepsToItsWindows == [][part = "commands" => WC!ActsAsTold]_vars
=============================================================================
