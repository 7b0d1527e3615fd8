---------------------------- MODULE FilesSearch ----------------------------
(***************************************************************************)
(* The search of the Files tab (files_search.c): a child process lists the *)
(* files once, a cache keeps them, `r' starts again.  A chunk of output    *)
(* that is not the last changes only the list being collected; the last is *)
(* the end of the output, an error, or the path that exceeds the capacity. *)
(* A generation that launched nothing leaves its context freed.            *)
(***************************************************************************)
EXTENDS SearchContext

VARIABLES
    files,          \* the contexts, by generation
    filesGen,       \* search_generation
    filesPending,   \* s_pending_search, or 0
    filesLoading,   \* loading
    filesCache,     \* the search whose paths are the cache, or 0: not cache_valid
    filesDirty      \* dirty: the cache was replaced off the screen

filesVars == <<files, filesGen, filesPending, filesLoading, filesCache, filesDirty>>

FilesInit ==
    /\ files = [g \in Id |-> Freed]
    /\ filesGen = 0 /\ filesPending = 0
    /\ filesLoading = FALSE /\ filesCache = 0 /\ filesDirty = FALSE

-----------------------------------------------------------------------------
(* A refresh gives up the pending search, and starts the next one unless   *)
(* the tab is disabled, there is no fd, or it cannot be run.               *)
FilesRefresh ==
    /\ filesGen < MaxAsked
    /\ filesGen' = filesGen + 1
    /\ LET rest == AbandonPending(files, filesPending)
       IN \/ /\ files' = rest /\ filesPending' = 0
             /\ filesLoading' = FALSE
          \/ /\ files' = [rest EXCEPT ![filesGen'] = Launched]
             /\ filesPending' = filesGen'
             /\ filesLoading' = TRUE
    /\ UNCHANGED <<filesCache, filesDirty>>

\* Mutant: a cache that came off the screen is not drawn on the way in.
FilesOnEnterUndrawn ==
    IF filesCache = 0 /\ ~filesLoading THEN FilesRefresh ELSE UNCHANGED filesVars

FilesOnEnter ==
    IF filesCache = 0 /\ ~filesLoading
    THEN FilesRefresh
    ELSE /\ filesDirty' = FALSE
         /\ UNCHANGED <<files, filesGen, filesPending, filesLoading, filesCache>>

FilesOnLeave ==
    IF filesLoading /\ filesPending # 0
    THEN /\ files' = AbandonPending(files, filesPending)
         /\ filesPending' = 0
         /\ filesLoading' = FALSE
         /\ UNCHANGED <<filesGen, filesCache, filesDirty>>
    ELSE UNCHANGED filesVars

-----------------------------------------------------------------------------
(* The callbacks.  One whose search was given up or superseded only drops  *)
(* its reference.                                                          *)

\* Mutant: the flag is not looked at, leaving has bumped no generation.
FilesStaleByGeneration(g) == g # filesGen

FilesStale(g) == files[g].abandoned \/ g # filesGen

FilesDrop(g, s) ==
    /\ files' = [files EXCEPT ![g] = Unref(s)]
    /\ UNCHANGED <<filesGen, filesPending, filesLoading, filesCache, filesDirty>>

(* The callback left the context as s.  When the output and the process    *)
(* are both at their end the paths replace the cache.                      *)
FilesAdvance(g, s, onScreen) ==
    IF ~Ended(s)
    THEN FilesDrop(g, s)
    ELSE /\ files' = [files EXCEPT ![g] = Unref(IF filesPending = g THEN Unref(s) ELSE s)]
         /\ filesPending' = IF filesPending = g THEN 0 ELSE filesPending
         /\ filesCache' = g
         /\ filesLoading' = FALSE
         /\ filesDirty' = ~onScreen
         /\ UNCHANGED filesGen

FilesOutputEnds(g, onScreen) ==
    /\ files[g].read = "out"
    /\ IF FilesStale(g)
       THEN FilesDrop(g, [files[g] EXCEPT !.read = "dropped"])
       ELSE FilesAdvance(g, [files[g] EXCEPT !.read = "done"], onScreen)

FilesProcessEnds(g, onScreen) ==
    /\ files[g].wait = "out"
    /\ IF FilesStale(g)
       THEN FilesDrop(g, [files[g] EXCEPT !.wait = "dropped"])
       ELSE FilesAdvance(g, [files[g] EXCEPT !.wait = "done"], onScreen)

\* Mutant: the timer of an earlier search ends the loading of this one.
FilesTimeoutOfAny(g) ==
    /\ files[g].timer
    /\ LET t == [files[g] EXCEPT !.timer = FALSE, !.abandoned = TRUE]
       IN files' = [files EXCEPT ![g] = Unref(IF filesPending = g THEN Unref(t) ELSE t)]
    /\ filesPending' = IF filesPending = g THEN 0 ELSE filesPending
    /\ filesLoading' = FALSE
    /\ UNCHANGED <<filesGen, filesCache, filesDirty>>

\* Mutant: the reference of the pending pointer is dropped unasked.
FilesTimeoutTwice(g) ==
    /\ files[g].timer
    /\ LET s == [files[g] EXCEPT !.timer = FALSE]
       IN IF g # filesGen
          THEN FilesDrop(g, s)
          ELSE /\ files' = [files EXCEPT ![g] = Unref(Unref([s EXCEPT !.abandoned = TRUE]))]
               /\ filesPending' = IF filesPending = g THEN 0 ELSE filesPending
               /\ filesLoading' = FALSE
               /\ UNCHANGED <<filesGen, filesCache, filesDirty>>

(* The timer is never removed: it also fires after the search has ended or *)
(* was given up, and then finds it abandoned, superseded, or finished.     *)
FilesTimeout(g) ==
    /\ files[g].timer
    /\ LET s == [files[g] EXCEPT !.timer = FALSE]
       IN IF g # filesGen
          THEN FilesDrop(g, s)
          ELSE /\ LET t == [s EXCEPT !.abandoned = TRUE]
                  IN files' = [files EXCEPT ![g] = Unref(IF filesPending = g THEN Unref(t) ELSE t)]
               /\ filesPending' = IF filesPending = g THEN 0 ELSE filesPending
               /\ filesLoading' = FALSE
               /\ UNCHANGED <<filesGen, filesCache, filesDirty>>
=============================================================================
