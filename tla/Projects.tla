------------------------------ MODULE Projects ------------------------------
(***************************************************************************)
(* The asynchronous parts of the Projects tab: the locate fallback         *)
(* (projects_locate.c, and its use in projects.c) and the remote scope     *)
(* (projects_remote_scope.c).  A locate search has a generation and can be *)
(* given up; a fetch of a host runs in a thread, has neither, and applies  *)
(* its answer whenever it comes.                                           *)
(*                                                                         *)
(* `text' is the text of the entry, which every refresh reads.  The rows   *)
(* read synchronously from tmux, zellij and zoxide are "local".            *)
(***************************************************************************)
EXTENDS SearchContext

CONSTANTS
    Hosts,      \* hosts a user may ask for
    Texts,      \* texts of the entry
    LongTexts   \* those of three characters or more

ASSUME TextsAssumption == /\ LongTexts \subseteq Texts
                          /\ "" \in Texts \ LongTexts
                          /\ Hosts \cap {"", "local", "loading"} = {}

VARIABLES
    locate,         \* the contexts, by generation
    locateGen,      \* locate_generation
    locatePending,  \* s_pending_op, or 0
    locateQuery,    \* the query of the newest
    located,        \* the locate rows: of which search, for which query
    primary,        \* where the other rows come from: "local", "loading", a host
    scope,          \* s_state: active, loading, host
    fetches,        \* of each host, the fetches whose answer is to come
    fetchCount      \* number of fetches begun

projectsVars == <<locate, locateGen, locatePending, locateQuery, located,
                  primary, scope, fetches, fetchCount>>

Local == [active |-> FALSE, loading |-> FALSE, host |-> ""]
NoneLocated == [of |-> 0, query |-> ""]

ProjectsInit ==
    /\ locate = [g \in Id |-> Freed]
    /\ locateGen = 0 /\ locatePending = 0
    /\ locateQuery = ""
    /\ located = NoneLocated
    /\ primary = "local" /\ scope = Local
    /\ fetches = [h \in Hosts |-> 0] /\ fetchCount = 0

-----------------------------------------------------------------------------
(* A refilter for the text: locate rows go, the pending search is given up *)
(* and a long text starts the next, unless the scope is (becoming) remote. *)
(* Locate may be disabled, missing, or fail to start.                      *)
Filter(text, sc) ==
    LET rest == AbandonPending(locate, locatePending)
    IN /\ located' = NoneLocated
       /\ IF text \in LongTexts /\ ~sc.active /\ ~sc.loading
          THEN /\ locateGen < MaxAsked
               /\ locateGen' = locateGen + 1
               /\ \/ /\ locate' = rest /\ locatePending' = 0
                     /\ locateQuery' = ""
                  \/ /\ locate' = [rest EXCEPT ![locateGen'] = Launched]
                     /\ locatePending' = locateGen'
                     /\ locateQuery' = text
          ELSE /\ locate' = rest /\ locatePending' = 0
               /\ UNCHANGED <<locateGen, locateQuery>>

RowsOf(sc) ==
    IF sc.loading THEN "loading" ELSE IF sc.active THEN sc.host ELSE "local"

(* projects_refresh in the scope sc.                                       *)
Refresh(text, sc) ==
    /\ primary' = RowsOf(sc)
    /\ Filter(text, sc)

\* Mutant: entering shows the rows of the last time.
ProjectsOnEnterStale ==
    /\ Filter("", scope)
    /\ UNCHANGED <<primary, scope, fetches, fetchCount>>

ProjectsOnEnter ==
    /\ Refresh("", scope)
    /\ UNCHANGED <<scope, fetches, fetchCount>>

ProjectsOnQueryChanged(text) ==
    /\ Filter(text, scope)
    /\ UNCHANGED <<primary, scope, fetches, fetchCount>>

(* The entry was emptied before, or is emptied with it.                    *)
ProjectsOnLeave ==
    /\ locate' = AbandonPending(locate, locatePending)
    /\ locatePending' = 0
    /\ located' = NoneLocated
    /\ scope' = Local
    /\ UNCHANGED <<locateGen, locateQuery, primary, fetches, fetchCount>>

ProjectsOnTick(text) ==
    /\ text = ""
    /\ Refresh(text, scope)
    /\ UNCHANGED <<scope, fetches, fetchCount>>

-----------------------------------------------------------------------------
(* The remote scope.                                                       *)

BeginFetch(host, text) ==
    LET asking == [active |-> FALSE, loading |-> TRUE, host |-> host]
    IN /\ fetchCount < MaxAsked
       /\ fetchCount' = fetchCount + 1
       /\ fetches' = [fetches EXCEPT ![host] = @ + 1]
       /\ scope' = asking
       /\ Refresh(text, asking)

\* Mutant: a failure leaves the scope as it is.
FetchAnsweredUnreported(host, text) ==
    /\ fetches[host] > 0
    /\ fetches' = [fetches EXCEPT ![host] = @ - 1]
    /\ UNCHANGED fetchCount
    /\ \E sc \in {scope, [active |-> TRUE, loading |-> FALSE, host |-> host]} :
          scope' = sc /\ Refresh(text, sc)

(* fetch_result_apply_idle, whatever the tab and the scope are by now.     *)
FetchAnswered(host, text) ==
    /\ fetches[host] > 0
    /\ fetches' = [fetches EXCEPT ![host] = @ - 1]
    /\ UNCHANGED fetchCount
    /\ \E sc \in {Local, [active |-> TRUE, loading |-> FALSE, host |-> host]} :
          scope' = sc /\ Refresh(text, sc)

(* Escape leaves an active scope, not one that is loading.                 *)
EscapeScope(text) ==
    /\ scope.active
    /\ scope' = Local
    /\ Refresh(text, Local)
    /\ UNCHANGED <<fetches, fetchCount>>

-----------------------------------------------------------------------------
(* The callbacks of a locate search.                                       *)

\* Mutant: a search that was given up, and not superseded, still answers.
LocateStaleByGeneration(g) == g # locateGen

LocateStale(g) == locate[g].abandoned \/ g # locateGen

LocateDrop(g, s) ==
    /\ locate' = [locate EXCEPT ![g] = Unref(s)]
    /\ UNCHANGED <<locatePending, located>>

\* Mutant: a search that has answered stays the pending one.
LocateAdvanceStillPending(g, s) ==
    IF ~Ended(s)
    THEN LocateDrop(g, s)
    ELSE /\ locate' = [locate EXCEPT ![g] = Unref(s)]
         /\ UNCHANGED locatePending
         /\ located' = [of |-> g, query |-> locateQuery]

(* At the end of both the output and the process the rows are delivered to *)
(* apply_locate_results, which shows those of the newest generation.       *)
LocateAdvance(g, s) ==
    IF ~Ended(s)
    THEN LocateDrop(g, s)
    ELSE /\ locate' = [locate EXCEPT ![g] = Unref(IF locatePending = g THEN Unref(s) ELSE s)]
         /\ locatePending' = IF locatePending = g THEN 0 ELSE locatePending
         /\ located' = [of |-> g, query |-> locateQuery]

LocateOutputEnds(g) ==
    /\ locate[g].read = "out"
    /\ IF LocateStale(g)
       THEN LocateDrop(g, [locate[g] EXCEPT !.read = "dropped"])
       ELSE LocateAdvance(g, [locate[g] EXCEPT !.read = "done"])
    /\ UNCHANGED <<locateGen, locateQuery, primary, scope, fetches, fetchCount>>

LocateProcessEnds(g) ==
    /\ locate[g].wait = "out"
    /\ IF LocateStale(g)
       THEN LocateDrop(g, [locate[g] EXCEPT !.wait = "dropped"])
       ELSE LocateAdvance(g, [locate[g] EXCEPT !.wait = "done"])
    /\ UNCHANGED <<locateGen, locateQuery, primary, scope, fetches, fetchCount>>

LocateTimeout(g) ==
    /\ locate[g].timer
    /\ LET s == [locate[g] EXCEPT !.timer = FALSE, !.abandoned = TRUE]
       IN locate' = [locate EXCEPT ![g] = Unref(IF locatePending = g THEN Unref(s) ELSE s)]
    /\ locatePending' = IF locatePending = g THEN 0 ELSE locatePending
    /\ UNCHANGED <<located, locateGen, locateQuery, primary, scope, fetches, fetchCount>>
=============================================================================
