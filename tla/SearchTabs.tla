----------------------------- MODULE SearchTabs -----------------------------
(***************************************************************************)
(* The tabs Files and Projects in the window of cofi: one tab is current,  *)
(* changes of tab call on_leave and on_enter (tab_switching.c), hiding     *)
(* leaves the current tab (window_lifecycle.c), and a hotkey or another    *)
(* invocation may go back to the windows tab without leaving the other one *)
(* (hotkey_dispatch.c, daemon_socket_runtime.c).  In command mode the text *)
(* is the command line, which no tab is told of (key_handler.c).  An       *)
(* overlay of the Projects tab (to ask for a host, to kill, rename or      *)
(* start a session) stays open when the tab changes under it.              *)
(* Answers arrive in any of these states.                                  *)
(*                                                                         *)
(* Emptying the entry tells the current tab that the query changed; where  *)
(* a handler does both, on_enter or on_leave comes last and does no less.  *)
(***************************************************************************)
EXTENDS FilesSearch, Projects

VARIABLES
    tab,        \* current_tab
    visible,    \* window_visible
    mode,       \* command_mode.state
    text,       \* the text of the entry
    overlay     \* an overlay of the Projects tab is open

vars == <<filesVars, projectsVars, tab, visible, mode, text, overlay>>

Tabs == {"windows", "files", "projects"}

CONSTANT MaxMixed   \* bound: those in a behaviour that uses both tabs

ASSUME MaxMixedAssumption == MaxMixed \in Nat /\ MaxMixed <= MaxAsked

Bounded ==
    LET ofFiles == filesGen'
        ofProjects == locateGen' + fetchCount'
    IN IF 0 \in {ofFiles, ofProjects}
       THEN ofFiles + ofProjects <= MaxAsked
       ELSE ofFiles + ofProjects <= MaxMixed

Init ==
    /\ FilesInit /\ ProjectsInit
    /\ tab = "windows" /\ visible = FALSE
    /\ mode = "normal" /\ text = "" /\ overlay = FALSE

-----------------------------------------------------------------------------
(* The window.                                                             *)

(* Leaving command mode empties the entry, back in normal mode.            *)
ModeLeft ==
    IF mode = "command" /\ text # "" /\ tab = "projects"
    THEN ProjectsOnQueryChanged("")
    ELSE UNCHANGED projectsVars

Show ==
    /\ ~visible /\ visible' = TRUE
    /\ UNCHANGED <<filesVars, projectsVars, tab, mode, text, overlay>>

FilesSwitched(from, to) ==
    \/ to = "files" /\ FilesOnEnter
    \/ from = "files" /\ FilesOnLeave
    \/ "files" \notin {from, to} /\ UNCHANGED filesVars

ProjectsSwitched(from, to) ==
    \/ to = "projects" /\ ProjectsOnEnter
    \/ from = "projects" /\ ProjectsOnLeave
    \/ "projects" \notin {from, to} /\ UNCHANGED projectsVars

SwitchTab(t) ==
    /\ visible /\ t # tab
    /\ FilesSwitched(tab, t)
    /\ ProjectsSwitched(tab, t)
    /\ tab' = t /\ text' = ""
    /\ UNCHANGED <<visible, mode, overlay>>
    /\ Bounded

Hide ==
    /\ visible
    /\ FilesSwitched(tab, "windows")
    /\ ProjectsSwitched(tab, "windows")
    /\ visible' = FALSE /\ tab' = "windows"
    /\ mode' = "normal" /\ text' = "" /\ overlay' = FALSE

(* The hotkey for the windows, or another invocation, while the window is  *)
(* shown: the current tab is not left, only replaced.                      *)
BackToWindows ==
    /\ visible
    /\ ModeLeft
    /\ tab' = "windows" /\ mode' = "normal" /\ text' = ""
    /\ UNCHANGED <<filesVars, visible, overlay>>
    /\ Bounded

(* The same for command mode.  The hotkey leaves it before, the invocation *)
(* does not.                                                               *)
BackToCommand ==
    /\ visible
    /\ ModeLeft \/ UNCHANGED projectsVars
    /\ tab' = "windows" /\ mode' = "command" /\ text' = ""
    /\ UNCHANGED <<filesVars, visible, overlay>>
    /\ Bounded

-----------------------------------------------------------------------------
(* Keys, and the tick of the tab.  While the overlay is open it has all    *)
(* the keys.                                                               *)

EnterCommand ==
    /\ visible /\ ~overlay /\ mode = "normal"
    /\ mode' = "command" /\ text' = ""
    /\ UNCHANGED <<filesVars, projectsVars, tab, visible, overlay>>

(* Escape, the end of a command, or the loss of the focus.                 *)
ExitCommand ==
    /\ mode = "command"
    /\ ModeLeft
    /\ mode' = "normal" /\ text' = ""
    /\ UNCHANGED <<filesVars, tab, visible, overlay>>
    /\ Bounded

Type(new) ==
    /\ visible /\ ~overlay /\ new # text
    /\ text' = new
    /\ IF tab = "projects" /\ mode = "normal"
       THEN ProjectsOnQueryChanged(new)
       ELSE UNCHANGED projectsVars
    /\ UNCHANGED <<filesVars, tab, visible, mode, overlay>>
    /\ Bounded

PressRefresh ==
    /\ visible /\ ~overlay /\ tab = "files"
    /\ FilesRefresh
    /\ UNCHANGED <<projectsVars, tab, visible, mode, text, overlay>>
    /\ Bounded

OpenOverlay ==
    /\ visible /\ ~overlay /\ tab = "projects"
    /\ overlay' = TRUE
    /\ UNCHANGED <<filesVars, projectsVars, tab, visible, mode, text>>

CloseOverlay ==
    /\ overlay /\ overlay' = FALSE
    /\ UNCHANGED <<filesVars, projectsVars, tab, visible, mode, text>>

AskHost(host) ==
    /\ overlay /\ overlay' = FALSE
    /\ BeginFetch(host, text)
    /\ UNCHANGED <<filesVars, tab, visible, mode, text>>
    /\ Bounded

(* A session was killed, renamed or started, a folder removed.             *)
EditProjects ==
    /\ overlay /\ overlay' = FALSE
    /\ Refresh(text, scope)
    /\ UNCHANGED <<filesVars, scope, fetches, fetchCount, tab, visible, mode, text>>
    /\ Bounded

PressEscape ==
    /\ visible /\ ~overlay /\ tab = "projects" /\ mode = "normal"
    /\ EscapeScope(text)
    /\ UNCHANGED <<filesVars, tab, visible, mode, text, overlay>>
    /\ Bounded

Tick ==
    /\ visible /\ tab = "projects"
    /\ ProjectsOnTick(text)
    /\ UNCHANGED <<filesVars, tab, visible, mode, text, overlay>>

User ==
    \/ Show \/ Hide \/ BackToWindows \/ BackToCommand
    \/ EnterCommand \/ ExitCommand \/ PressRefresh \/ PressEscape \/ Tick
    \/ OpenOverlay \/ CloseOverlay \/ EditProjects
    \/ \E t \in Tabs : SwitchTab(t)
    \/ \E new \in Texts : Type(new)
    \/ \E host \in Hosts : AskHost(host)

-----------------------------------------------------------------------------
(* What the main loop dispatches.                                          *)

FilesEvent(g) ==
    /\ \/ FilesOutputEnds(g, visible /\ tab = "files")
       \/ FilesProcessEnds(g, visible /\ tab = "files")
       \/ FilesTimeout(g)
    /\ UNCHANGED <<projectsVars, tab, visible, mode, text, overlay>>

LocateEvent(g) ==
    /\ LocateOutputEnds(g) \/ LocateProcessEnds(g) \/ LocateTimeout(g)
    /\ UNCHANGED <<filesVars, tab, visible, mode, text, overlay>>

FetchEvent ==
    /\ \E host \in Hosts : FetchAnswered(host, text)
    /\ UNCHANGED <<filesVars, tab, visible, mode, text, overlay>>
    /\ Bounded

Event == FetchEvent \/ \E g \in Id : FilesEvent(g) \/ LocateEvent(g)

Next == User \/ Event

(* The main loop fires every timer.  That a child process ends is assumed  *)
(* nowhere: the timers are there because it may not.                       *)
FilesTimerFires(g) ==
    FilesTimeout(g) /\ UNCHANGED <<projectsVars, tab, visible, mode, text, overlay>>
LocateTimerFires(g) ==
    LocateTimeout(g) /\ UNCHANGED <<filesVars, tab, visible, mode, text, overlay>>

Spec == Init /\ [][Next]_vars
        /\ \A g \in Id : WF_vars(FilesTimerFires(g)) /\ WF_vars(LocateTimerFires(g))

-----------------------------------------------------------------------------
(* Properties                                                              *)

(* Every variable has the values the code allows.                          *)
TypeOK ==
    /\ files \in [Id -> Search] /\ locate \in [Id -> Search]
    /\ {filesGen, filesPending, filesCache, locateGen, locatePending, fetchCount}
          \subseteq 0..MaxAsked
    /\ filesLoading \in BOOLEAN /\ filesDirty \in BOOLEAN
    /\ locateQuery \in Texts
    /\ located \in [of : 0..MaxAsked, query : Texts]
    /\ primary \in Hosts \cup {"local", "loading"}
    /\ scope \in [active : BOOLEAN, loading : BOOLEAN, host : Hosts \cup {""}]
    /\ fetches \in [Hosts -> 0..MaxAsked]
    /\ tab \in Tabs /\ visible \in BOOLEAN /\ overlay \in BOOLEAN
    /\ mode \in {"normal", "command"} /\ text \in Texts

(* At most one child process of each tab is wanted and running, the one    *)
(* that can still be given up; every context lives exactly as long as a    *)
(* callback, the timer or the pending pointer will use it.                 *)
ContextsAccounted ==
    Accounted(files, filesPending) /\ Accounted(locate, locatePending)

(* The Files tab is loading exactly while a search of the newest           *)
(* generation is pending, and a timer is armed that will end it.           *)
LoadingIsPending ==
    /\ filesLoading <=> filesPending # 0
    /\ filesLoading => /\ filesPending = filesGen
                       /\ files[filesPending].timer

(* A cache that was replaced off the screen is not on the screen undrawn.  *)
DrawnOnScreen == filesDirty => ~(visible /\ tab = "files")

(* On the Projects tab locate rows are never mixed with those of a remote  *)
(* host, and are those of the text in the entry.  Command mode empties the *)
(* entry and leaves the rows, also when it ends with an empty line.        *)
LocatedFits ==
    tab = "projects" /\ located.of # 0 =>
       /\ primary = "local"
       /\ mode = "normal" /\ text # "" => located.query = text

(* On the Projects tab the rows are those of the scope, wherever the scope *)
(* was changed.                                                            *)
RowsInScope == tab = "projects" => primary = RowsOf(scope)

(* "Loading remote projects for <host>..." is shown only while a fetch of  *)
(* that host is out.                                                       *)
LoadingIsFetching ==
    scope.loading => fetches[scope.host] > 0

FilesQuestion ==
    INSTANCE LatestAnswer WITH asked <- filesGen, open <- filesLoading,
                               answered <- filesCache
LocateQuestion ==
    INSTANCE LatestAnswer WITH asked <- locateGen, open <- (locatePending # 0),
                               answered <- located.of

(* The cache of the Files tab is the answer to its newest search or, until *)
(* that comes, to an older one; late answers are dropped, searches end.    *)
FilesAnswer == FilesQuestion!Spec

(* So are the locate rows of the Projects tab.                             *)
LocateAnswer == LocateQuestion!Spec

(* The remote scope becomes that of a host only while that host is loading.*)
ScopeIsAsked ==
    [][scope'.active /\ scope' # scope => scope.loading /\ scope.host = scope'.host]_vars
=============================================================================
