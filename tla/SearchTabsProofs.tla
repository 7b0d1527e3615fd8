-------------------------- MODULE SearchTabsProofs --------------------------
(***************************************************************************)
(* Theorems of SearchTabs.  The contexts of the two providers obey the     *)
(* same invariant, ContextsInv; the lemmas on it are about one context,    *)
(* then about a table of them, and serve both.                             *)
(***************************************************************************)
EXTENDS SearchTabs, TLAPS

(* The contexts ss of a provider with pending search p and generation gen: *)
(* the pending search is the newest, was not given up, and has its timer.  *)
ContextsInv(ss, p, gen) ==
    /\ ss \in [Id -> Search]
    /\ gen \in 0..MaxAsked
    /\ p \in {0, gen}
    /\ p # 0 => ss[p].timer /\ ~ss[p].abandoned
    /\ Accounted(ss, p)

-----------------------------------------------------------------------------
(* One context.                                                            *)

(* Dropping a reference that has no holder any more leaves a context whose *)
(* references are accounted for, or frees it.                              *)
LEMMA UnrefAccounted ==
    ASSUME NEW s \in Search, NEW b \in BOOLEAN,
           s.refcount = Holders(s, b) + 1
    PROVE  /\ Unref(s) \in Search
           /\ Unref(s).refcount = Holders(Unref(s), b)
           /\ Running(Unref(s)) => Running(s)
           /\ b => /\ Unref(s).timer = s.timer
                   /\ Unref(s).abandoned = s.abandoned
<1>1. CASE s.refcount = 1
  <2>1. Holders(s, b) = 0 /\ ~b
    BY <1>1 DEF Search, Holders, Count
  <2>2. Unref(s) = Freed
    BY <1>1 DEF Unref
  <2>3. Freed \in Search
    BY DEF Freed, Search
  <2>4. ~Running(Freed)
    BY DEF Freed, Running
  <2>5. Freed.refcount = 0 /\ Holders(Freed, FALSE) = 0
    BY DEF Freed, Holders, Count
  <2>6. b = FALSE
    BY <2>1
  <2> QED
    BY <2>2, <2>3, <2>4, <2>5, <2>6
<1>2. CASE s.refcount # 1
  <2>1. Unref(s) = [s EXCEPT !.refcount = s.refcount - 1]
    BY <1>2 DEF Unref
  <2>2. s.refcount - 1 \in 0..4
    BY DEF Search, Holders, Count
  <2> QED
    BY <2>1, <2>2 DEF Search, Holders, Count, Running
<1> QED
  BY <1>1, <1>2

(* A table in which one context changed.                                   *)
LEMMA OneChanged ==
    ASSUME NEW ss, NEW p, NEW gen, ContextsInv(ss, p, gen),
           NEW g \in Id, NEW s \in Search, NEW q \in {0, p},
           p # q => p = g,
           s.refcount = Holders(s, g = q),
           Running(s) => g = q,
           g = q => s.timer /\ ~s.abandoned
    PROVE  ContextsInv([ss EXCEPT ![g] = s], q, gen)
<1> DEFINE tt == [ss EXCEPT ![g] = s]
<1>1. tt \in [Id -> Search] /\ q \in {0, gen} /\ gen \in 0..MaxAsked
  BY DEF ContextsInv
<1>2. q # 0 => q \in Id
  BY MaxAskedAssumption DEF ContextsInv, Id
<1>3. \A h \in Id : tt[h] = IF h = g THEN s ELSE ss[h]
  BY DEF ContextsInv
<1>4. q # 0 => tt[q].timer /\ ~tt[q].abandoned
  BY <1>2, <1>3 DEF ContextsInv
<1>5. ASSUME NEW h \in Id
      PROVE  /\ Running(tt[h]) => h = q
             /\ tt[h].refcount = Holders(tt[h], h = q)
  <2>1. CASE h = g
    BY <1>3, <2>1
  <2>2. CASE h # g
    <3>1. tt[h] = ss[h] /\ (h = q <=> h = p)
      BY <1>3, <2>2 DEF Id
    <3>2. Running(ss[h]) => h = p
      BY DEF ContextsInv, Accounted
    <3>3. ss[h].refcount = Holders(ss[h], h = p)
      BY DEF ContextsInv, Accounted
    <3> QED
      BY <3>1, <3>2, <3>3
  <2> QED
    BY <2>1, <2>2
<1> QED
  BY <1>1, <1>4, <1>5 DEF ContextsInv, Accounted

-----------------------------------------------------------------------------
(* What the operations do to a table.                                      *)

(* A callback drops its reference.                                         *)
LEMMA OneDropped ==
    ASSUME NEW ss, NEW p, NEW gen, ContextsInv(ss, p, gen),
           NEW g \in Id, NEW s \in Search,
           s.refcount = Holders(s, g = p) + 1,
           Running(s) => g = p,
           g = p => s.timer /\ ~s.abandoned
    PROVE  ContextsInv([ss EXCEPT ![g] = Unref(s)], p, gen)
<1> DEFINE u == Unref(s)
<1>1. /\ u \in Search /\ u.refcount = Holders(u, g = p)
      /\ Running(u) => Running(s)
      /\ g = p => u.timer = s.timer /\ u.abandoned = s.abandoned
  BY UnrefAccounted
<1>2. p \in {0, p} /\ (g = p => u.timer /\ ~u.abandoned) /\ (Running(u) => g = p)
  BY <1>1
<1> HIDE DEF u
<1>3. ContextsInv([ss EXCEPT ![g] = u], p, gen)
  BY <1>1, <1>2, OneChanged
<1> QED
  BY <1>3 DEF u

(* A callback drops its reference and that of the pending pointer.         *)
LEMMA PendingDropped ==
    ASSUME NEW ss, NEW p, NEW gen, ContextsInv(ss, p, gen),
           NEW g \in Id, g = p, NEW s \in Search,
           s.refcount = Holders(s, TRUE) + 1,
           ~Running(s)
    PROVE  ContextsInv([ss EXCEPT ![g] = Unref(Unref(s))], 0, gen)
<1> DEFINE u == Unref(s)
           v == Unref(u)
<1>1. u \in Search /\ u.refcount = Holders(u, TRUE) /\ ~Running(u)
  BY UnrefAccounted
<1>2. Holders(u, TRUE) = Holders(u, FALSE) + 1
  BY DEF Holders, Count
<1> HIDE DEF u
<1>3. v \in Search /\ v.refcount = Holders(v, FALSE) /\ ~Running(v)
  BY <1>1, <1>2, UnrefAccounted
<1>4. g # 0
  BY DEF Id
<1> HIDE DEF v
<1>5. ContextsInv([ss EXCEPT ![g] = v], 0, gen)
  BY <1>3, <1>4, OneChanged
<1> QED
  BY <1>5 DEF u, v

(* The pending search, if any, is given up.                                *)
LEMMA PendingAbandoned ==
    ASSUME NEW ss, NEW p, NEW gen, ContextsInv(ss, p, gen)
    PROVE  ContextsInv(AbandonPending(ss, p), 0, gen)
<1>1. CASE p = 0
  BY <1>1 DEF AbandonPending
<1>2. CASE p # 0
  <2>1. p \in Id
    BY <1>2, MaxAskedAssumption DEF ContextsInv, Id
  <2> DEFINE s == [ss[p] EXCEPT !.abandoned = TRUE]
             u == Unref(s)
  <2>2. ss[p] \in Search /\ ss[p].refcount = Holders(ss[p], TRUE)
    BY <2>1 DEF ContextsInv, Accounted
  <2>3. s \in Search /\ ~Running(s) /\ s.refcount = ss[p].refcount
    BY <2>2 DEF Search, Running
  <2>4. Holders(s, FALSE) + 1 = Holders(ss[p], TRUE)
    BY <2>2 DEF Search, Holders, Count
  <2>5. s.refcount = Holders(s, FALSE) + 1
    BY <2>2, <2>3, <2>4
  <2>6. AbandonPending(ss, p) = [ss EXCEPT ![p] = u]
    BY <1>2, <2>1 DEF AbandonPending, ContextsInv
  <2> HIDE DEF s
  <2>7. u \in Search /\ u.refcount = Holders(u, FALSE) /\ ~Running(u)
    BY <2>3, <2>5, UnrefAccounted
  <2> HIDE DEF u
  <2>8. ContextsInv([ss EXCEPT ![p] = u], 0, gen)
    BY <1>2, <2>1, <2>7, OneChanged
  <2> QED
    BY <2>6, <2>8
<1> QED
  BY <1>1, <1>2

(* A new generation, with or without a search.                             *)
LEMMA NextGeneration ==
    ASSUME NEW ss, NEW gen, ContextsInv(ss, 0, gen), gen < MaxAsked
    PROVE  /\ ContextsInv(ss, 0, gen + 1)
           /\ ContextsInv([ss EXCEPT ![gen + 1] = Launched], gen + 1, gen + 1)
<1>1. gen + 1 \in Id /\ gen + 1 # 0 /\ gen + 1 \in 0..MaxAsked
  BY MaxAskedAssumption DEF ContextsInv, Id
<1>2. ContextsInv(ss, 0, gen + 1)
  BY <1>1 DEF ContextsInv
<1> DEFINE tt == [ss EXCEPT ![gen + 1] = Launched]
<1>3. Launched \in Search /\ Launched.timer /\ ~Launched.abandoned
  BY DEF Launched, Search
<1>4. Launched.refcount = Holders(Launched, TRUE)
  BY DEF Launched, Holders, Count
<1>5. \A h \in Id : tt[h] = IF h = gen + 1 THEN Launched ELSE ss[h]
  BY DEF ContextsInv
<1>6. tt \in [Id -> Search]
  BY <1>3 DEF ContextsInv
<1>7. ASSUME NEW h \in Id
      PROVE  /\ Running(tt[h]) => h = gen + 1
             /\ tt[h].refcount = Holders(tt[h], h = gen + 1)
  <2>1. CASE h = gen + 1
    BY <1>4, <1>5, <2>1
  <2>2. CASE h # gen + 1
    <3>1. tt[h] = ss[h] /\ h # 0
      BY <1>5, <2>2 DEF Id
    <3>2. ~Running(ss[h]) /\ ss[h].refcount = Holders(ss[h], FALSE)
      BY <3>1 DEF ContextsInv, Accounted
    <3> QED
      BY <2>2, <3>1, <3>2
  <2> QED
    BY <2>1, <2>2
<1>8. ContextsInv(tt, gen + 1, gen + 1)
  BY <1>1, <1>3, <1>5, <1>6, <1>7 DEF ContextsInv, Accounted
<1> QED
  BY <1>2, <1>8

-----------------------------------------------------------------------------
(* The Files tab.                                                          *)

FilesInv ==
    /\ ContextsInv(files, filesPending, filesGen)
    /\ filesLoading \in BOOLEAN /\ filesDirty \in BOOLEAN
    /\ filesCache \in 0..MaxAsked
    /\ filesLoading <=> filesPending # 0
    /\ filesDirty => filesCache # 0

FilesQuestionStep ==
    FilesQuestion!Next \/ UNCHANGED <<filesGen, filesLoading, filesCache>>

LEMMA FilesRefreshKeeps ==
    ASSUME FilesInv, FilesRefresh
    PROVE  FilesInv' /\ FilesQuestion!Ask
<1> DEFINE rest == AbandonPending(files, filesPending)
<1>1. ContextsInv(rest, 0, filesGen)
  BY PendingAbandoned DEF FilesInv
<1>2. filesGen < MaxAsked /\ filesGen' = filesGen + 1
      /\ UNCHANGED <<filesCache, filesDirty>>
  BY DEF FilesRefresh
<1> HIDE DEF rest
<1>3. /\ ContextsInv(rest, 0, filesGen')
      /\ ContextsInv([rest EXCEPT ![filesGen'] = Launched], filesGen', filesGen')
  BY <1>1, <1>2, NextGeneration
<1>4. filesGen' # 0
  BY <1>2 DEF FilesInv, ContextsInv
<1>5. \/ files' = rest /\ filesPending' = 0 /\ filesLoading' = FALSE
      \/ /\ files' = [rest EXCEPT ![filesGen'] = Launched]
         /\ filesPending' = filesGen' /\ filesLoading' = TRUE
  BY DEF FilesRefresh, rest
<1>6. ContextsInv(files', filesPending', filesGen')
  BY <1>3, <1>5
<1>7. ContextsInv(files, filesPending, filesGen)'
  BY <1>6 DEF ContextsInv, Accounted
<1> QED
  BY <1>2, <1>4, <1>5, <1>7 DEF FilesInv, FilesQuestion!Ask

LEMMA FilesOnLeaveKeeps ==
    ASSUME FilesInv, FilesOnLeave
    PROVE  FilesInv' /\ FilesQuestionStep /\ UNCHANGED <<filesCache, filesDirty>>
<1>1. CASE filesLoading /\ filesPending # 0
  <2>1. /\ files' = AbandonPending(files, filesPending)
        /\ filesPending' = 0 /\ filesLoading' = FALSE
        /\ UNCHANGED <<filesGen, filesCache, filesDirty>>
    BY <1>1 DEF FilesOnLeave
  <2>2. ContextsInv(files', 0, filesGen)
    BY <2>1, PendingAbandoned DEF FilesInv
  <2>3. ContextsInv(files, filesPending, filesGen)'
    BY <2>1, <2>2 DEF ContextsInv, Accounted
  <2> QED
    BY <2>1, <2>3 DEF FilesInv, FilesQuestionStep, FilesQuestion!Next, FilesQuestion!GiveUp
<1>2. CASE ~(filesLoading /\ filesPending # 0)
  <2>1. UNCHANGED filesVars
    BY <1>2 DEF FilesOnLeave
  <2> QED
    BY <2>1 DEF FilesInv, FilesQuestionStep, filesVars, ContextsInv, Accounted
<1> QED
  BY <1>1, <1>2

LEMMA FilesOnEnterKeeps ==
    ASSUME FilesInv, FilesOnEnter
    PROVE  FilesInv' /\ FilesQuestionStep /\ filesDirty' = FALSE
<1>1. CASE filesCache = 0 /\ ~filesLoading
  <2>1. FilesRefresh /\ filesDirty' = filesDirty
    BY <1>1 DEF FilesOnEnter, FilesRefresh
  <2>2. filesDirty = FALSE
    BY <1>1 DEF FilesInv
  <2> QED
    BY <2>1, <2>2, FilesRefreshKeeps DEF FilesQuestionStep, FilesQuestion!Next
<1>2. CASE ~(filesCache = 0 /\ ~filesLoading)
  <2>1. filesDirty' = FALSE
        /\ UNCHANGED <<files, filesGen, filesPending, filesLoading, filesCache>>
    BY <1>2 DEF FilesOnEnter
  <2> QED
    BY <2>1 DEF FilesInv, FilesQuestionStep, ContextsInv, Accounted
<1> QED
  BY <1>1, <1>2

(* A context s that follows ss[g] when one of its callbacks has come.      *)
OneHolderLess(s, c) ==
    /\ s \in Search
    /\ s.refcount = c.refcount
    /\ \A b \in BOOLEAN : Holders(c, b) = Holders(s, b) + 1
    /\ Running(s) => Running(c)

LEMMA CallbackCame ==
    ASSUME NEW c \in Search
    PROVE  /\ \A r \in {"done", "dropped"} :
                /\ c.read = "out" => OneHolderLess([c EXCEPT !.read = r], c)
                /\ c.wait = "out" => OneHolderLess([c EXCEPT !.wait = r], c)
           /\ c.timer => /\ OneHolderLess([c EXCEPT !.timer = FALSE], c)
                         /\ OneHolderLess([c EXCEPT !.timer = FALSE, !.abandoned = TRUE], c)
<1>1. ASSUME NEW r \in {"done", "dropped"}, c.read = "out"
      PROVE  OneHolderLess([c EXCEPT !.read = r], c)
  <2> DEFINE s == [c EXCEPT !.read = r]
  <2>1. /\ s \in Search /\ s.read = r /\ s.wait = c.wait /\ s.timer = c.timer
        /\ s.abandoned = c.abandoned /\ s.refcount = c.refcount
    BY DEF Search
  <2> HIDE DEF s
  <2>2. \A b \in BOOLEAN : Holders(c, b) = Holders(s, b) + 1
    BY <1>1, <2>1 DEF Holders, Count
  <2>3. Running(s) => Running(c)
    BY <1>1, <2>1 DEF Running
  <2>4. OneHolderLess(s, c)
    BY <2>1, <2>2, <2>3 DEF OneHolderLess
  <2> QED
    BY <2>4 DEF s
<1>2. ASSUME NEW r \in {"done", "dropped"}, c.wait = "out"
      PROVE  OneHolderLess([c EXCEPT !.wait = r], c)
  <2> DEFINE s == [c EXCEPT !.wait = r]
  <2>1. /\ s \in Search /\ s.wait = r /\ s.read = c.read /\ s.timer = c.timer
        /\ s.abandoned = c.abandoned /\ s.refcount = c.refcount
    BY DEF Search
  <2> HIDE DEF s
  <2>2. \A b \in BOOLEAN : Holders(c, b) = Holders(s, b) + 1
    BY <1>2, <2>1 DEF Holders, Count
  <2>3. Running(s) => Running(c)
    BY <1>2, <2>1 DEF Running
  <2>4. OneHolderLess(s, c)
    BY <2>1, <2>2, <2>3 DEF OneHolderLess
  <2> QED
    BY <2>4 DEF s
<1>3. ASSUME NEW a \in {c.abandoned, TRUE}, c.timer
      PROVE  OneHolderLess([c EXCEPT !.timer = FALSE, !.abandoned = a], c)
  <2> DEFINE s == [c EXCEPT !.timer = FALSE, !.abandoned = a]
  <2>1. /\ s \in Search /\ s.read = c.read /\ s.wait = c.wait /\ s.timer = FALSE
        /\ s.abandoned = a /\ s.refcount = c.refcount
    BY DEF Search
  <2> HIDE DEF s
  <2>2. \A b \in BOOLEAN : Holders(c, b) = Holders(s, b) + 1
    BY <1>3, <2>1 DEF Holders, Count
  <2>3. Running(s) => Running(c)
    BY <2>1 DEF Running
  <2>4. OneHolderLess(s, c)
    BY <2>1, <2>2, <2>3 DEF OneHolderLess
  <2> QED
    BY <2>4 DEF s
<1>4. [c EXCEPT !.timer = FALSE] = [c EXCEPT !.timer = FALSE, !.abandoned = c.abandoned]
  BY DEF Search
<1> QED
  BY <1>1, <1>2, <1>3, <1>4

LEMMA FilesDropKeeps ==
    ASSUME FilesInv, NEW g \in Id, NEW s, OneHolderLess(s, files[g]),
           g = filesPending => s.timer /\ ~s.abandoned,
           FilesDrop(g, s)
    PROVE  FilesInv' /\ FilesQuestionStep /\ UNCHANGED filesDirty
<1>1. /\ files' = [files EXCEPT ![g] = Unref(s)]
      /\ UNCHANGED <<filesGen, filesPending, filesLoading, filesCache, filesDirty>>
  BY DEF FilesDrop
<1>2. /\ files[g].refcount = Holders(files[g], g = filesPending)
      /\ Running(files[g]) => g = filesPending
  BY DEF FilesInv, ContextsInv, Accounted
<1>3. /\ s \in Search /\ s.refcount = Holders(s, g = filesPending) + 1
      /\ Running(s) => g = filesPending
  BY <1>2 DEF OneHolderLess
<1>4. ContextsInv([files EXCEPT ![g] = Unref(s)], filesPending, filesGen)
  BY <1>3, OneDropped DEF FilesInv
<1>5. ContextsInv(files, filesPending, filesGen)'
  BY <1>1, <1>4 DEF ContextsInv, Accounted
<1> QED
  BY <1>1, <1>5 DEF FilesInv, FilesQuestionStep

LEMMA FilesAdvanceKeeps ==
    ASSUME FilesInv, NEW g \in Id, NEW s, OneHolderLess(s, files[g]),
           g = filesGen, Running(files[g]),
           s.timer = files[g].timer, s.abandoned = files[g].abandoned,
           NEW onScreen \in BOOLEAN, FilesAdvance(g, s, onScreen)
    PROVE  FilesInv' /\ FilesQuestionStep /\ filesDirty' \in {filesDirty, ~onScreen}
<1>1. g = filesPending /\ g # 0
  BY DEF FilesInv, ContextsInv, Accounted, Id
<1>2. s.timer /\ ~s.abandoned
  BY <1>1 DEF FilesInv, ContextsInv
<1>3. CASE ~Ended(s)
  <2>1. FilesDrop(g, s)
    BY <1>3 DEF FilesAdvance
  <2> QED
    BY <1>2, <2>1, FilesDropKeeps
<1>4. CASE Ended(s)
  <2>1. /\ files' = [files EXCEPT ![g] = Unref(Unref(s))]
        /\ filesPending' = 0 /\ filesCache' = g /\ filesLoading' = FALSE
        /\ filesDirty' = ~onScreen /\ UNCHANGED filesGen
    BY <1>1, <1>4 DEF FilesAdvance
  <2>2. s \in Search /\ s.refcount = Holders(s, TRUE) + 1 /\ ~Running(s)
    <3>1. files[g].refcount = Holders(files[g], TRUE)
      BY <1>1 DEF FilesInv, ContextsInv, Accounted
    <3>2. ~Running(s)
      BY <1>4 DEF Ended, Running
    <3> QED
      BY <3>1, <3>2 DEF OneHolderLess
  <2>3. ContextsInv([files EXCEPT ![g] = Unref(Unref(s))], 0, filesGen)
    BY <1>1, <2>2, PendingDropped DEF FilesInv
  <2>4. ContextsInv(files, filesPending, filesGen)'
    BY <2>1, <2>3 DEF ContextsInv, Accounted
  <2>5. filesLoading = TRUE
    BY <1>1 DEF FilesInv
  <2>6. FilesQuestion!Answer
    BY <2>1, <2>5 DEF FilesQuestion!Answer
  <2>7. g \in 0..MaxAsked
    BY DEF Id
  <2> QED
    BY <1>1, <2>1, <2>4, <2>6, <2>7 DEF FilesInv, FilesQuestionStep, FilesQuestion!Next
<1> QED
  BY <1>3, <1>4

LEMMA FilesOutputEndsKeeps ==
    ASSUME FilesInv, NEW g \in Id, NEW onScreen \in BOOLEAN, FilesOutputEnds(g, onScreen)
    PROVE  FilesInv' /\ FilesQuestionStep /\ filesDirty' \in {filesDirty, ~onScreen}
<1> DEFINE dropped == [files[g] EXCEPT !.read = "dropped"]
           done == [files[g] EXCEPT !.read = "done"]
<1>1. files[g] \in Search /\ files[g].read = "out"
  BY DEF FilesInv, ContextsInv, FilesOutputEnds
<1>2. OneHolderLess(dropped, files[g]) /\ OneHolderLess(done, files[g])
  BY <1>1, CallbackCame
<1>3. CASE FilesStale(g)
  <2>1. FilesDrop(g, dropped)
    BY <1>3 DEF FilesOutputEnds
  <2>2. g # filesPending
    BY <1>3 DEF FilesStale, FilesInv, ContextsInv, Id
  <2> QED
    BY <1>2, <2>1, <2>2, FilesDropKeeps
<1>4. CASE ~FilesStale(g)
  <2>1. FilesAdvance(g, done, onScreen)
    BY <1>4 DEF FilesOutputEnds
  <2>2. g = filesGen /\ Running(files[g])
    BY <1>1, <1>4 DEF FilesStale, Running
  <2>3. done.timer = files[g].timer /\ done.abandoned = files[g].abandoned
    BY <1>1 DEF Search
  <2> HIDE DEF done
  <2> QED
    BY <1>2, <2>1, <2>2, <2>3, FilesAdvanceKeeps
<1> QED
  BY <1>3, <1>4

LEMMA FilesProcessEndsKeeps ==
    ASSUME FilesInv, NEW g \in Id, NEW onScreen \in BOOLEAN, FilesProcessEnds(g, onScreen)
    PROVE  FilesInv' /\ FilesQuestionStep /\ filesDirty' \in {filesDirty, ~onScreen}
<1> DEFINE dropped == [files[g] EXCEPT !.wait = "dropped"]
           done == [files[g] EXCEPT !.wait = "done"]
<1>1. files[g] \in Search /\ files[g].wait = "out"
  BY DEF FilesInv, ContextsInv, FilesProcessEnds
<1>2. OneHolderLess(dropped, files[g]) /\ OneHolderLess(done, files[g])
  BY <1>1, CallbackCame
<1>3. CASE FilesStale(g)
  <2>1. FilesDrop(g, dropped)
    BY <1>3 DEF FilesProcessEnds
  <2>2. g # filesPending
    BY <1>3 DEF FilesStale, FilesInv, ContextsInv, Id
  <2> QED
    BY <1>2, <2>1, <2>2, FilesDropKeeps
<1>4. CASE ~FilesStale(g)
  <2>1. FilesAdvance(g, done, onScreen)
    BY <1>4 DEF FilesProcessEnds
  <2>2. g = filesGen /\ Running(files[g])
    BY <1>1, <1>4 DEF FilesStale, Running
  <2>3. done.timer = files[g].timer /\ done.abandoned = files[g].abandoned
    BY <1>1 DEF Search
  <2> HIDE DEF done
  <2> QED
    BY <1>2, <2>1, <2>2, <2>3, FilesAdvanceKeeps
<1> QED
  BY <1>3, <1>4

LEMMA FilesTimeoutKeeps ==
    ASSUME FilesInv, NEW g \in Id, FilesTimeout(g)
    PROVE  FilesInv' /\ FilesQuestionStep /\ UNCHANGED filesDirty
<1> DEFINE fired == [files[g] EXCEPT !.timer = FALSE]
           ended == [fired EXCEPT !.abandoned = TRUE]
<1>1. files[g] \in Search /\ files[g].timer
  BY DEF FilesInv, ContextsInv, FilesTimeout
<1>2. ended = [files[g] EXCEPT !.timer = FALSE, !.abandoned = TRUE]
  BY <1>1 DEF Search
<1>3. OneHolderLess(fired, files[g]) /\ OneHolderLess(ended, files[g])
  BY <1>1, <1>2, CallbackCame
<1>4. CASE g # filesGen
  <2>1. FilesDrop(g, fired)
    BY <1>4 DEF FilesTimeout
  <2>2. g # filesPending
    BY <1>4 DEF FilesInv, ContextsInv, Id
  <2> QED
    BY <1>3, <2>1, <2>2, FilesDropKeeps
<1>5. CASE g = filesGen
  <2>1. /\ files' = [files EXCEPT ![g] = Unref(IF filesPending = g THEN Unref(ended) ELSE ended)]
        /\ filesPending' = (IF filesPending = g THEN 0 ELSE filesPending)
        /\ filesLoading' = FALSE
        /\ UNCHANGED <<filesGen, filesCache, filesDirty>>
    BY <1>5 DEF FilesTimeout
  <2>2. ended \in Search /\ ~Running(ended)
    BY <1>1 DEF Search, Running
  <2>3. ended.refcount = Holders(ended, g = filesPending) + 1
    BY <1>3 DEF OneHolderLess, FilesInv, ContextsInv, Accounted
  <2> HIDE DEF ended
  <2>4. ContextsInv(files', 0, filesGen) /\ filesPending' = 0
    <3>1. CASE filesPending = g
      <4>1. ContextsInv([files EXCEPT ![g] = Unref(Unref(ended))], 0, filesGen)
        BY <2>2, <2>3, <3>1, PendingDropped DEF FilesInv
      <4> QED
        BY <2>1, <3>1, <4>1
    <3>2. CASE filesPending # g
      <4>1. filesPending = 0
        BY <1>5, <3>2 DEF FilesInv, ContextsInv
      <4>2. ContextsInv([files EXCEPT ![g] = Unref(ended)], filesPending, filesGen)
        BY <2>2, <2>3, <3>2, OneDropped DEF FilesInv
      <4> QED
        BY <2>1, <3>2, <4>1, <4>2
    <3> QED
      BY <3>1, <3>2
  <2>5. ContextsInv(files, filesPending, filesGen)'
    BY <2>1, <2>4 DEF ContextsInv, Accounted
  <2> QED
    BY <2>1, <2>4, <2>5 DEF FilesInv, FilesQuestionStep, FilesQuestion!Next, FilesQuestion!GiveUp
<1> QED
  BY <1>4, <1>5

-----------------------------------------------------------------------------
(* The Projects tab.                                                       *)

Scopes == [active : BOOLEAN, loading : BOOLEAN, host : Hosts \cup {""}]

LocateInv ==
    /\ ContextsInv(locate, locatePending, locateGen)
    /\ locateQuery \in Texts
    /\ located \in [of : 0..MaxAsked, query : Texts]

(* Locate rows, and a search for them, are there in the local scope only.  *)
LocalOnly ==
    locatePending # 0 \/ located.of # 0 =>
       ~scope.active /\ ~scope.loading /\ primary = "local"

ScopeInv ==
    /\ scope \in Scopes
    /\ scope.active \/ scope.loading => scope.host \in Hosts
    /\ primary \in Hosts \cup {"local", "loading"}
    /\ fetchCount \in 0..MaxAsked
    /\ fetches \in [Hosts -> 0..MaxAsked]
    /\ \A h \in Hosts : fetches[h] <= fetchCount
    /\ scope.loading => fetches[scope.host] > 0

LocateQuestionStep ==
    LocateQuestion!Next \/ UNCHANGED <<locateGen, locatePending # 0, located.of>>

LEMMA NoneLocatedIsNone ==
    NoneLocated \in [of : 0..MaxAsked, query : Texts] /\ NoneLocated.of = 0
<1>1. 0 \in 0..MaxAsked
  BY MaxAskedAssumption
<1>2. "" \in Texts
  BY TextsAssumption
<1> QED
  BY <1>1, <1>2 DEF NoneLocated

LEMMA LocalIsLocal ==
    Local \in Scopes /\ ~Local.active /\ ~Local.loading
  BY DEF Local, Scopes

(* The rows are filtered for the text t, in the scope sc.                  *)
LEMMA Refiltered ==
    ASSUME LocateInv, NEW t \in Texts, NEW sc \in Scopes, Filter(t, sc),
           scope' = sc, primary' = RowsOf(sc)
    PROVE  /\ LocateInv' /\ LocalOnly' /\ LocateQuestionStep
           /\ located' = NoneLocated
           /\ locatePending' # 0 => locateQuery' = t
<1> DEFINE rest == AbandonPending(locate, locatePending)
<1>1. ContextsInv(rest, 0, locateGen)
  BY PendingAbandoned DEF LocateInv
<1>2. located' = NoneLocated /\ NoneLocated \in [of : 0..MaxAsked, query : Texts]
      /\ NoneLocated.of = 0
  BY NoneLocatedIsNone DEF Filter
<1>3. CASE t \in LongTexts /\ ~sc.active /\ ~sc.loading
  <2>1. /\ locateGen < MaxAsked /\ locateGen' = locateGen + 1
        /\ \/ locate' = rest /\ locatePending' = 0 /\ locateQuery' = ""
           \/ /\ locate' = [rest EXCEPT ![locateGen'] = Launched]
              /\ locatePending' = locateGen' /\ locateQuery' = t
    BY <1>3 DEF Filter
  <2> HIDE DEF rest
  <2>2. /\ ContextsInv(rest, 0, locateGen')
        /\ ContextsInv([rest EXCEPT ![locateGen'] = Launched], locateGen', locateGen')
    BY <1>1, <2>1, NextGeneration
  <2>3. ContextsInv(locate', locatePending', locateGen')
    BY <2>1, <2>2
  <2>4. ContextsInv(locate, locatePending, locateGen)'
    BY <2>3 DEF ContextsInv, Accounted
  <2>5. locateQuery' \in Texts /\ (locatePending' # 0 => locateQuery' = t)
    BY <2>1, TextsAssumption
  <2>6. primary' = "local"
    BY <1>3 DEF RowsOf
  <2>7. LocateQuestion!Ask
    BY <1>2, <2>1 DEF LocateQuestion!Ask
  <2> QED
    BY <1>2, <1>3, <2>4, <2>5, <2>6, <2>7
    DEF LocateInv, LocalOnly, LocateQuestionStep, LocateQuestion!Next
<1>4. CASE ~(t \in LongTexts /\ ~sc.active /\ ~sc.loading)
  <2>1. locate' = rest /\ locatePending' = 0 /\ UNCHANGED <<locateGen, locateQuery>>
    BY <1>4 DEF Filter
  <2> HIDE DEF rest
  <2>2. ContextsInv(locate, locatePending, locateGen)'
    BY <1>1, <2>1 DEF ContextsInv, Accounted
  <2>3. LocateQuestion!GiveUp
    BY <1>2, <2>1 DEF LocateQuestion!GiveUp
  <2> QED
    BY <1>2, <2>1, <2>2, <2>3
    DEF LocateInv, LocalOnly, LocateQuestionStep, LocateQuestion!Next
<1> QED
  BY <1>3, <1>4

LEMMA ProjectsOnLeaveKeeps ==
    ASSUME LocateInv, ScopeInv, ProjectsOnLeave
    PROVE  LocateInv' /\ ScopeInv' /\ LocalOnly' /\ LocateQuestionStep
<1>1. /\ locate' = AbandonPending(locate, locatePending)
      /\ locatePending' = 0 /\ located' = NoneLocated /\ scope' = Local
      /\ UNCHANGED <<locateGen, locateQuery, primary, fetches, fetchCount>>
  BY DEF ProjectsOnLeave
<1>2. ContextsInv(locate', 0, locateGen)
  BY <1>1, PendingAbandoned DEF LocateInv
<1>3. ContextsInv(locate, locatePending, locateGen)'
  BY <1>1, <1>2 DEF ContextsInv, Accounted
<1>4. NoneLocated \in [of : 0..MaxAsked, query : Texts] /\ NoneLocated.of = 0
  BY NoneLocatedIsNone
<1>5. Local \in Scopes /\ ~Local.active /\ ~Local.loading
  BY LocalIsLocal
<1>6. LocateQuestion!GiveUp
  BY <1>1, <1>4 DEF LocateQuestion!GiveUp
<1>7. LocateInv' /\ LocalOnly'
  BY <1>1, <1>3, <1>4 DEF LocateInv, LocalOnly
<1>8. ScopeInv'
  BY <1>1, <1>5 DEF ScopeInv
<1> QED
  BY <1>6, <1>7, <1>8 DEF LocateQuestionStep, LocateQuestion!Next

LEMMA BeginFetchKeeps ==
    ASSUME LocateInv, ScopeInv, NEW host \in Hosts, NEW t \in Texts, BeginFetch(host, t)
    PROVE  /\ LocateInv' /\ ScopeInv' /\ LocalOnly' /\ LocateQuestionStep
           /\ primary' = RowsOf(scope') /\ located' = NoneLocated
           /\ locatePending' # 0 => locateQuery' = t
<1> DEFINE asking == [active |-> FALSE, loading |-> TRUE, host |-> host]
<1>1. /\ fetchCount < MaxAsked /\ fetchCount' = fetchCount + 1
      /\ fetches' = [fetches EXCEPT ![host] = @ + 1]
      /\ scope' = asking /\ primary' = RowsOf(asking) /\ Filter(t, asking)
  BY DEF BeginFetch, Refresh
<1>2. asking \in Scopes /\ asking.loading /\ asking.host = host /\ ~asking.active
  BY DEF Scopes
<1>3. RowsOf(asking) = "loading"
  BY DEF RowsOf
<1>4. fetches' \in [Hosts -> 0..MaxAsked] /\ fetches'[host] > 0
      /\ \A h \in Hosts : fetches'[h] <= fetchCount'
  <2>1. fetches[host] + 1 \in 0..MaxAsked /\ fetches[host] + 1 > 0
    BY <1>1, MaxAskedAssumption DEF ScopeInv
  <2>2. \A h \in Hosts : fetches'[h] = IF h = host THEN fetches[host] + 1 ELSE fetches[h]
    BY <1>1 DEF ScopeInv
  <2>3. fetches' \in [Hosts -> 0..MaxAsked]
    BY <1>1, <2>1 DEF ScopeInv
  <2>4. ASSUME NEW h \in Hosts PROVE fetches'[h] <= fetchCount'
    <3>1. fetches[h] \in 0..MaxAsked /\ fetches[h] <= fetchCount /\ fetchCount \in 0..MaxAsked
      BY DEF ScopeInv
    <3> QED
      BY <1>1, <2>2, <3>1, MaxAskedAssumption
  <2> QED
    BY <2>1, <2>2, <2>3, <2>4
<1>5. fetchCount' \in 0..MaxAsked
  BY <1>1, MaxAskedAssumption DEF ScopeInv
<1> HIDE DEF asking
<1>6. ScopeInv'
  BY <1>1, <1>2, <1>3, <1>4, <1>5 DEF ScopeInv
<1> QED
  BY <1>1, <1>2, <1>6, Refiltered

LEMMA FetchAnsweredKeeps ==
    ASSUME LocateInv, ScopeInv, NEW host \in Hosts, NEW t \in Texts, FetchAnswered(host, t)
    PROVE  /\ LocateInv' /\ ScopeInv' /\ LocalOnly' /\ LocateQuestionStep
           /\ primary' = RowsOf(scope') /\ located' = NoneLocated
           /\ locatePending' # 0 => locateQuery' = t
<1> DEFINE found == [active |-> TRUE, loading |-> FALSE, host |-> host]
<1>1. PICK sc \in {Local, found} :
         scope' = sc /\ primary' = RowsOf(sc) /\ Filter(t, sc)
  BY DEF FetchAnswered, Refresh
<1>2. fetches[host] > 0 /\ fetches' = [fetches EXCEPT ![host] = @ - 1]
      /\ fetchCount' = fetchCount
  BY DEF FetchAnswered
<1>3. sc \in Scopes /\ ~sc.loading /\ (sc.active => sc.host \in Hosts)
  <2>1. found \in Scopes /\ ~found.loading /\ found.host \in Hosts
    BY DEF Scopes
  <2> QED
    BY <1>1, <2>1, LocalIsLocal
<1>4. RowsOf(sc) \in Hosts \cup {"local", "loading"}
  BY <1>3 DEF RowsOf
<1>5. fetches' \in [Hosts -> 0..MaxAsked]
  <2>1. fetches[host] - 1 \in 0..MaxAsked
    BY <1>2, MaxAskedAssumption DEF ScopeInv
  <2> QED
    BY <1>2, <2>1 DEF ScopeInv
<1>6. ASSUME NEW h \in Hosts PROVE fetches'[h] <= fetchCount'
  <2>1. fetches[h] \in 0..MaxAsked /\ fetches[h] <= fetchCount /\ fetchCount \in 0..MaxAsked
    BY DEF ScopeInv
  <2>2. fetches'[h] = IF h = host THEN fetches[h] - 1 ELSE fetches[h]
    BY <1>2 DEF ScopeInv
  <2> QED
    BY <1>2, <2>1, <2>2, MaxAskedAssumption
<1>7. ScopeInv'
  BY <1>1, <1>2, <1>3, <1>4, <1>5, <1>6 DEF ScopeInv
<1> QED
  BY <1>1, <1>3, <1>7, Refiltered

(* What a callback of a locate search may do to the rest.                  *)
LocateCallback ==
    /\ locatePending' # 0 => locatePending # 0
    /\ \/ located' = located
       \/ locatePending # 0 /\ located'.query = locateQuery
    /\ UNCHANGED <<locateGen, locateQuery, primary, scope, fetches, fetchCount>>

LEMMA LocateDropKeeps ==
    ASSUME LocateInv, NEW g \in Id, NEW s, OneHolderLess(s, locate[g]),
           g = locatePending => s.timer /\ ~s.abandoned,
           LocateDrop(g, s),
           UNCHANGED <<locateGen, locateQuery, primary, scope, fetches, fetchCount>>
    PROVE  LocateInv' /\ LocateQuestionStep /\ LocateCallback
<1>1. locate' = [locate EXCEPT ![g] = Unref(s)] /\ UNCHANGED <<locatePending, located>>
  BY DEF LocateDrop
<1>2. /\ locate[g].refcount = Holders(locate[g], g = locatePending)
      /\ Running(locate[g]) => g = locatePending
  BY DEF LocateInv, ContextsInv, Accounted
<1>3. /\ s \in Search /\ s.refcount = Holders(s, g = locatePending) + 1
      /\ Running(s) => g = locatePending
  BY <1>2 DEF OneHolderLess
<1>4. ContextsInv([locate EXCEPT ![g] = Unref(s)], locatePending, locateGen)
  BY <1>3, OneDropped DEF LocateInv
<1>5. ContextsInv(locate, locatePending, locateGen)'
  BY <1>1, <1>4 DEF ContextsInv, Accounted
<1> QED
  BY <1>1, <1>5 DEF LocateInv, LocateQuestionStep, LocateCallback

LEMMA LocateAdvanceKeeps ==
    ASSUME LocateInv, NEW g \in Id, NEW s, OneHolderLess(s, locate[g]),
           g = locateGen, Running(locate[g]),
           s.timer = locate[g].timer, s.abandoned = locate[g].abandoned,
           LocateAdvance(g, s),
           UNCHANGED <<locateGen, locateQuery, primary, scope, fetches, fetchCount>>
    PROVE  LocateInv' /\ LocateQuestionStep /\ LocateCallback
<1>1. g = locatePending /\ g # 0
  BY DEF LocateInv, ContextsInv, Accounted, Id
<1>2. s.timer /\ ~s.abandoned
  BY <1>1 DEF LocateInv, ContextsInv
<1>3. CASE ~Ended(s)
  <2>1. LocateDrop(g, s)
    BY <1>3 DEF LocateAdvance
  <2> QED
    BY <1>2, <2>1, LocateDropKeeps
<1>4. CASE Ended(s)
  <2>1. /\ locate' = [locate EXCEPT ![g] = Unref(Unref(s))]
        /\ locatePending' = 0 /\ located' = [of |-> g, query |-> locateQuery]
    BY <1>1, <1>4 DEF LocateAdvance
  <2>2. s \in Search /\ s.refcount = Holders(s, TRUE) + 1 /\ ~Running(s)
    <3>1. locate[g].refcount = Holders(locate[g], TRUE)
      BY <1>1 DEF LocateInv, ContextsInv, Accounted
    <3>2. ~Running(s)
      BY <1>4 DEF Ended, Running
    <3> QED
      BY <3>1, <3>2 DEF OneHolderLess
  <2>3. ContextsInv([locate EXCEPT ![g] = Unref(Unref(s))], 0, locateGen)
    BY <1>1, <2>2, PendingDropped DEF LocateInv
  <2>4. ContextsInv(locate, locatePending, locateGen)'
    BY <2>1, <2>3 DEF ContextsInv, Accounted
  <2>5. located' \in [of : 0..MaxAsked, query : Texts]
        /\ located'.of = g /\ located'.query = locateQuery
    BY <2>1 DEF LocateInv, Id
  <2>6. LocateQuestion!Answer
    BY <1>1, <2>1, <2>5 DEF LocateQuestion!Answer
  <2>7. LocateInv'
    BY <2>4, <2>5 DEF LocateInv
  <2> QED
    BY <1>1, <2>1, <2>5, <2>6, <2>7
    DEF LocateCallback, LocateQuestionStep, LocateQuestion!Next
<1> QED
  BY <1>3, <1>4

LEMMA LocateOutputEndsKeeps ==
    ASSUME LocateInv, NEW g \in Id, LocateOutputEnds(g)
    PROVE  LocateInv' /\ LocateQuestionStep /\ LocateCallback
<1> DEFINE dropped == [locate[g] EXCEPT !.read = "dropped"]
           done == [locate[g] EXCEPT !.read = "done"]
<1>1. locate[g] \in Search /\ locate[g].read = "out"
      /\ UNCHANGED <<locateGen, locateQuery, primary, scope, fetches, fetchCount>>
  BY DEF LocateInv, ContextsInv, LocateOutputEnds
<1>2. OneHolderLess(dropped, locate[g]) /\ OneHolderLess(done, locate[g])
  BY <1>1, CallbackCame
<1>3. CASE LocateStale(g)
  <2>1. LocateDrop(g, dropped)
    BY <1>3 DEF LocateOutputEnds
  <2>2. g # locatePending
    BY <1>3 DEF LocateStale, LocateInv, ContextsInv, Id
  <2> QED
    BY <1>1, <1>2, <2>1, <2>2, LocateDropKeeps
<1>4. CASE ~LocateStale(g)
  <2>1. LocateAdvance(g, done)
    BY <1>4 DEF LocateOutputEnds
  <2>2. g = locateGen /\ Running(locate[g])
    BY <1>1, <1>4 DEF LocateStale, Running
  <2>3. done.timer = locate[g].timer /\ done.abandoned = locate[g].abandoned
    BY <1>1 DEF Search
  <2> HIDE DEF done
  <2> QED
    BY <1>1, <1>2, <2>1, <2>2, <2>3, LocateAdvanceKeeps
<1> QED
  BY <1>3, <1>4

LEMMA LocateProcessEndsKeeps ==
    ASSUME LocateInv, NEW g \in Id, LocateProcessEnds(g)
    PROVE  LocateInv' /\ LocateQuestionStep /\ LocateCallback
<1> DEFINE dropped == [locate[g] EXCEPT !.wait = "dropped"]
           done == [locate[g] EXCEPT !.wait = "done"]
<1>1. locate[g] \in Search /\ locate[g].wait = "out"
      /\ UNCHANGED <<locateGen, locateQuery, primary, scope, fetches, fetchCount>>
  BY DEF LocateInv, ContextsInv, LocateProcessEnds
<1>2. OneHolderLess(dropped, locate[g]) /\ OneHolderLess(done, locate[g])
  BY <1>1, CallbackCame
<1>3. CASE LocateStale(g)
  <2>1. LocateDrop(g, dropped)
    BY <1>3 DEF LocateProcessEnds
  <2>2. g # locatePending
    BY <1>3 DEF LocateStale, LocateInv, ContextsInv, Id
  <2> QED
    BY <1>1, <1>2, <2>1, <2>2, LocateDropKeeps
<1>4. CASE ~LocateStale(g)
  <2>1. LocateAdvance(g, done)
    BY <1>4 DEF LocateProcessEnds
  <2>2. g = locateGen /\ Running(locate[g])
    BY <1>1, <1>4 DEF LocateStale, Running
  <2>3. done.timer = locate[g].timer /\ done.abandoned = locate[g].abandoned
    BY <1>1 DEF Search
  <2> HIDE DEF done
  <2> QED
    BY <1>1, <1>2, <2>1, <2>2, <2>3, LocateAdvanceKeeps
<1> QED
  BY <1>3, <1>4

LEMMA LocateTimeoutKeeps ==
    ASSUME LocateInv, NEW g \in Id, LocateTimeout(g)
    PROVE  LocateInv' /\ LocateQuestionStep /\ LocateCallback
<1> DEFINE ended == [locate[g] EXCEPT !.timer = FALSE, !.abandoned = TRUE]
<1>1. /\ locate[g] \in Search /\ locate[g].timer
      /\ UNCHANGED <<located, locateGen, locateQuery, primary, scope, fetches, fetchCount>>
      /\ locate' = [locate EXCEPT ![g] =
                      Unref(IF locatePending = g THEN Unref(ended) ELSE ended)]
      /\ locatePending' = (IF locatePending = g THEN 0 ELSE locatePending)
  BY DEF LocateInv, ContextsInv, LocateTimeout
<1>2. OneHolderLess(ended, locate[g])
  BY <1>1, CallbackCame
<1>3. ended \in Search /\ ~Running(ended)
  BY <1>1 DEF Search, Running
<1>4. ended.refcount = Holders(ended, g = locatePending) + 1
  BY <1>2 DEF OneHolderLess, LocateInv, ContextsInv, Accounted
<1> HIDE DEF ended
<1>5. CASE locatePending = g
  <2>1. ContextsInv([locate EXCEPT ![g] = Unref(Unref(ended))], 0, locateGen)
    BY <1>3, <1>4, <1>5, PendingDropped DEF LocateInv
  <2>2. ContextsInv(locate', 0, locateGen) /\ locatePending' = 0
    BY <1>1, <1>5, <2>1
  <2>3. ContextsInv(locate, locatePending, locateGen)'
    BY <1>1, <2>2 DEF ContextsInv, Accounted
  <2>4. LocateQuestion!GiveUp
    BY <1>1, <2>2 DEF LocateQuestion!GiveUp
  <2> QED
    BY <1>1, <2>2, <2>3, <2>4
    DEF LocateInv, LocateCallback, LocateQuestionStep, LocateQuestion!Next
<1>6. CASE locatePending # g
  <2>1. ContextsInv([locate EXCEPT ![g] = Unref(ended)], locatePending, locateGen)
    BY <1>3, <1>4, <1>6, OneDropped DEF LocateInv
  <2>2. locatePending' = locatePending /\ ContextsInv(locate', locatePending', locateGen)
    BY <1>1, <1>6, <2>1
  <2>3. ContextsInv(locate, locatePending, locateGen)'
    BY <1>1, <2>2 DEF ContextsInv, Accounted
  <2> QED
    BY <1>1, <2>2, <2>3 DEF LocateInv, LocateCallback, LocateQuestionStep
<1> QED
  BY <1>5, <1>6

-----------------------------------------------------------------------------
(* The two tabs in the window.                                             *)

WindowInv ==
    /\ tab \in Tabs /\ visible \in BOOLEAN /\ overlay \in BOOLEAN
    /\ mode \in {"normal", "command"} /\ text \in Texts
    /\ ~visible => tab = "windows"

ProjectsInv == LocateInv /\ ScopeInv /\ LocalOnly

(* On the Projects tab, out of command mode, a text in the entry is the    *)
(* query of the search that is pending and of the rows that are shown.     *)
QueryFits ==
    tab = "projects" /\ mode = "normal" /\ text # "" =>
       /\ locatePending # 0 => locateQuery = text
       /\ located.of # 0 => located.query = text

Inv ==
    /\ FilesInv /\ DrawnOnScreen
    /\ ProjectsInv /\ RowsInScope /\ QueryFits
    /\ WindowInv

(* What every step does.                                                   *)
Kept == Inv' /\ FilesQuestionStep /\ LocateQuestionStep

(* What a step does that filters the rows for the text t.                  *)
ShownFor(t) ==
    /\ ProjectsInv' /\ LocateQuestionStep
    /\ primary' = RowsOf(scope')
    /\ located'.of = 0
    /\ locatePending' # 0 => locateQuery' = t

LEMMA FilesUnchanged ==
    ASSUME FilesInv, UNCHANGED filesVars
    PROVE  FilesInv' /\ FilesQuestionStep /\ filesDirty' = filesDirty
  BY DEF filesVars, FilesInv, FilesQuestionStep, ContextsInv, Accounted

LEMMA ProjectsUnchanged ==
    ASSUME ProjectsInv, UNCHANGED projectsVars
    PROVE  ProjectsInv' /\ LocateQuestionStep
<1>1. UNCHANGED <<locate, locateGen, locatePending, locateQuery, located,
                  primary, scope, fetches, fetchCount>>
  BY DEF projectsVars
<1>2. LocateInv'
  BY <1>1 DEF ProjectsInv, LocateInv, ContextsInv, Accounted
<1>3. ScopeInv' /\ LocalOnly'
  BY <1>1 DEF ProjectsInv, ScopeInv, LocalOnly
<1> QED
  BY <1>1, <1>2, <1>3 DEF ProjectsInv, LocateQuestionStep

LEMMA RefilteredInScope ==
    ASSUME ProjectsInv, NEW t \in Texts, Filter(t, scope), primary' = RowsOf(scope),
           UNCHANGED <<scope, fetches, fetchCount>>
    PROVE  ShownFor(t)
<1>1. scope \in Scopes /\ RowsOf(scope) \in Hosts \cup {"local", "loading"}
  BY DEF ProjectsInv, ScopeInv, RowsOf
<1>2. /\ LocateInv' /\ LocalOnly' /\ LocateQuestionStep
      /\ located' = NoneLocated
      /\ locatePending' # 0 => locateQuery' = t
  BY <1>1, Refiltered DEF ProjectsInv
<1>3. ScopeInv'
  BY <1>1 DEF ProjectsInv, ScopeInv
<1> QED
  BY <1>2, <1>3, NoneLocatedIsNone DEF ProjectsInv, ShownFor

LEMMA EscapeScopeKeeps ==
    ASSUME ProjectsInv, NEW t \in Texts, EscapeScope(t)
    PROVE  ShownFor(t)
<1>1. /\ scope' = Local /\ primary' = RowsOf(Local) /\ Filter(t, Local)
      /\ UNCHANGED <<fetches, fetchCount>>
  BY DEF EscapeScope, Refresh
<1>2. RowsOf(Local) = "local"
  BY LocalIsLocal DEF RowsOf
<1>3. /\ LocateInv' /\ LocalOnly' /\ LocateQuestionStep
      /\ located' = NoneLocated
      /\ locatePending' # 0 => locateQuery' = t
  BY <1>1, LocalIsLocal, Refiltered DEF ProjectsInv
<1>4. ScopeInv'
  BY <1>1, <1>2, LocalIsLocal DEF ProjectsInv, ScopeInv
<1> QED
  BY <1>1, <1>3, <1>4, NoneLocatedIsNone DEF ProjectsInv, ShownFor

LEMMA ModeLeftKeeps ==
    ASSUME Inv, ModeLeft
    PROVE  /\ ProjectsInv' /\ LocateQuestionStep
           /\ UNCHANGED <<primary, scope>>
<1>1. CASE mode = "command" /\ text # "" /\ tab = "projects"
  <2>1. Filter("", scope) /\ UNCHANGED <<primary, scope, fetches, fetchCount>>
    BY <1>1 DEF ModeLeft, ProjectsOnQueryChanged
  <2>2. primary' = RowsOf(scope)
    BY <1>1, <2>1 DEF Inv, RowsInScope
  <2>3. "" \in Texts
    BY TextsAssumption
  <2> QED
    BY <2>1, <2>2, <2>3, RefilteredInScope DEF Inv, ShownFor
<1>2. CASE ~(mode = "command" /\ text # "" /\ tab = "projects")
  <2>1. UNCHANGED projectsVars
    BY <1>2 DEF ModeLeft
  <2> QED
    BY <2>1, ProjectsUnchanged DEF Inv, projectsVars
<1> QED
  BY <1>1, <1>2

-----------------------------------------------------------------------------
(* One lemma for each action.                                              *)

(* An action that changes neither provider.                                *)
LEMMA WindowOnly ==
    ASSUME Inv, UNCHANGED <<filesVars, projectsVars>>, WindowInv',
           tab' = tab, visible' # visible => tab = "windows",
           mode' = "normal" /\ text' # "" => UNCHANGED <<mode, text>>
    PROVE  Kept
<1>1. FilesInv' /\ FilesQuestionStep /\ filesDirty' = filesDirty
  BY FilesUnchanged DEF Inv
<1>2. ProjectsInv' /\ LocateQuestionStep
  BY ProjectsUnchanged DEF Inv
<1>3. DrawnOnScreen'
  BY <1>1 DEF Inv, DrawnOnScreen, WindowInv
<1>4. RowsInScope' /\ QueryFits'
  BY DEF Inv, RowsInScope, RowsOf, QueryFits, projectsVars
<1> QED
  BY <1>1, <1>2, <1>3, <1>4 DEF Inv, Kept

LEMMA ShowKeeps == ASSUME Inv, Show PROVE Kept
<1>1. WindowInv' /\ UNCHANGED <<tab, mode, text>> /\ tab = "windows"
  BY DEF Show, Inv, WindowInv
<1> QED
  BY <1>1, WindowOnly DEF Show

LEMMA EnterCommandKeeps == ASSUME Inv, EnterCommand PROVE Kept
<1>1. WindowInv' /\ UNCHANGED <<tab, visible>> /\ mode' = "command"
  BY TextsAssumption DEF EnterCommand, Inv, WindowInv
<1> QED
  BY <1>1, WindowOnly DEF EnterCommand

LEMMA OpenOverlayKeeps == ASSUME Inv, OpenOverlay PROVE Kept
<1>1. WindowInv' /\ UNCHANGED <<tab, visible, mode, text>>
  BY DEF OpenOverlay, Inv, WindowInv
<1> QED
  BY <1>1, WindowOnly DEF OpenOverlay

LEMMA CloseOverlayKeeps == ASSUME Inv, CloseOverlay PROVE Kept
<1>1. WindowInv' /\ UNCHANGED <<tab, visible, mode, text>>
  BY DEF CloseOverlay, Inv, WindowInv
<1> QED
  BY <1>1, WindowOnly DEF CloseOverlay

(* The tabs to and from which a switch may lead.                           *)
LEMMA FilesSwitchedKeeps ==
    ASSUME Inv, NEW t \in Tabs, t # tab, FilesSwitched(tab, t)
    PROVE  /\ FilesInv' /\ FilesQuestionStep
           /\ t = "files" => ~filesDirty'
<1>1. CASE t = "files" /\ FilesOnEnter
  BY <1>1, FilesOnEnterKeeps DEF Inv
<1>2. CASE tab = "files" /\ FilesOnLeave
  BY <1>2, FilesOnLeaveKeeps DEF Inv
<1>3. CASE "files" \notin {tab, t} /\ UNCHANGED filesVars
  BY <1>3, FilesUnchanged DEF Inv
<1> QED
  BY <1>1, <1>2, <1>3 DEF FilesSwitched

LEMMA ProjectsSwitchedKeeps ==
    ASSUME Inv, NEW t \in Tabs, t # tab, ProjectsSwitched(tab, t)
    PROVE  /\ ProjectsInv' /\ LocateQuestionStep
           /\ t = "projects" => primary' = RowsOf(scope')
<1>1. CASE t = "projects" /\ ProjectsOnEnter
  <2>1. /\ Filter("", scope) /\ primary' = RowsOf(scope) /\ "" \in Texts
        /\ UNCHANGED <<scope, fetches, fetchCount>>
    BY <1>1, TextsAssumption DEF ProjectsOnEnter, Refresh
  <2> QED
    BY <2>1, RefilteredInScope DEF Inv, ShownFor
<1>2. CASE tab = "projects" /\ ProjectsOnLeave
  BY <1>2, ProjectsOnLeaveKeeps DEF Inv, ProjectsInv
<1>3. CASE "projects" \notin {tab, t} /\ UNCHANGED projectsVars
  BY <1>3, ProjectsUnchanged DEF Inv
<1> QED
  BY <1>1, <1>2, <1>3 DEF ProjectsSwitched

LEMMA SwitchTabKeeps == ASSUME Inv, NEW t \in Tabs, SwitchTab(t) PROVE Kept
<1>1. /\ visible /\ t # tab /\ FilesSwitched(tab, t) /\ ProjectsSwitched(tab, t)
      /\ tab' = t /\ text' = "" /\ UNCHANGED <<visible, mode, overlay>>
  BY DEF SwitchTab
<1>2. /\ FilesInv' /\ FilesQuestionStep
      /\ t = "files" => ~filesDirty'
  BY <1>1, FilesSwitchedKeeps
<1>3. /\ ProjectsInv' /\ LocateQuestionStep
      /\ t = "projects" => primary' = RowsOf(scope')
  BY <1>1, ProjectsSwitchedKeeps
<1>4. WindowInv' /\ DrawnOnScreen'
  BY <1>1, <1>2, TextsAssumption DEF Inv, WindowInv, DrawnOnScreen
<1>5. RowsInScope' /\ QueryFits'
  BY <1>1, <1>3 DEF RowsInScope, RowsOf, QueryFits
<1> QED
  BY <1>2, <1>3, <1>4, <1>5 DEF Inv, Kept

LEMMA HideKeeps == ASSUME Inv, Hide PROVE Kept
<1>1. /\ FilesSwitched(tab, "windows") /\ ProjectsSwitched(tab, "windows")
      /\ visible' = FALSE /\ tab' = "windows"
      /\ mode' = "normal" /\ text' = "" /\ overlay' = FALSE
  BY DEF Hide
<1>2. FilesInv' /\ FilesQuestionStep
  <2>1. CASE tab = "files" /\ FilesOnLeave
    BY <2>1, FilesOnLeaveKeeps DEF Inv
  <2>2. CASE UNCHANGED filesVars
    BY <2>2, FilesUnchanged DEF Inv
  <2> QED
    BY <1>1, <2>1, <2>2 DEF FilesSwitched
<1>3. ProjectsInv' /\ LocateQuestionStep
  <2>1. CASE tab = "projects" /\ ProjectsOnLeave
    BY <2>1, ProjectsOnLeaveKeeps DEF Inv, ProjectsInv
  <2>2. CASE UNCHANGED projectsVars
    BY <2>2, ProjectsUnchanged DEF Inv
  <2> QED
    BY <1>1, <2>1, <2>2 DEF ProjectsSwitched
<1>4. WindowInv' /\ DrawnOnScreen' /\ RowsInScope' /\ QueryFits'
  BY <1>1, TextsAssumption
  DEF WindowInv, Tabs, DrawnOnScreen, RowsInScope, QueryFits
<1> QED
  BY <1>2, <1>3, <1>4 DEF Inv, Kept

(* Both invocations replace the tab by the windows.                        *)
LEMMA BackKeeps ==
    ASSUME Inv, ModeLeft \/ UNCHANGED projectsVars, UNCHANGED filesVars,
           visible, visible' = visible, overlay' = overlay,
           tab' = "windows", mode' \in {"normal", "command"}, text' = ""
    PROVE  Kept
<1>1. FilesInv' /\ FilesQuestionStep
  BY FilesUnchanged DEF Inv
<1>2. ProjectsInv' /\ LocateQuestionStep
  BY ModeLeftKeeps, ProjectsUnchanged DEF Inv
<1>3. WindowInv' /\ DrawnOnScreen' /\ RowsInScope' /\ QueryFits'
  BY TextsAssumption DEF Inv, WindowInv, Tabs, DrawnOnScreen, RowsInScope, QueryFits
<1> QED
  BY <1>1, <1>2, <1>3 DEF Inv, Kept

LEMMA BackToWindowsKeeps == ASSUME Inv, BackToWindows PROVE Kept
  BY BackKeeps DEF BackToWindows

LEMMA BackToCommandKeeps == ASSUME Inv, BackToCommand PROVE Kept
  BY BackKeeps DEF BackToCommand

LEMMA ExitCommandKeeps == ASSUME Inv, ExitCommand PROVE Kept
<1>1. /\ ModeLeft /\ mode' = "normal" /\ text' = ""
      /\ UNCHANGED <<filesVars, tab, visible, overlay>>
  BY DEF ExitCommand
<1>2. FilesInv' /\ FilesQuestionStep /\ filesDirty' = filesDirty
  BY <1>1, FilesUnchanged DEF Inv
<1>3. ProjectsInv' /\ LocateQuestionStep /\ UNCHANGED <<primary, scope>>
  BY <1>1, ModeLeftKeeps
<1>4. WindowInv' /\ DrawnOnScreen' /\ RowsInScope' /\ QueryFits'
  BY <1>1, <1>2, <1>3, TextsAssumption
  DEF Inv, WindowInv, DrawnOnScreen, RowsInScope, RowsOf, QueryFits
<1> QED
  BY <1>2, <1>3, <1>4 DEF Inv, Kept

(* An action of the Projects tab that filters the rows for the new text.   *)
LEMMA ProjectsFiltered ==
    ASSUME Inv, ShownFor(text'), UNCHANGED <<filesVars, tab, visible, mode>>,
           text' \in Texts, overlay' \in BOOLEAN
    PROVE  Kept
<1>1. FilesInv' /\ FilesQuestionStep /\ filesDirty' = filesDirty
  BY FilesUnchanged DEF Inv
<1>2. WindowInv' /\ DrawnOnScreen'
  BY <1>1 DEF Inv, WindowInv, DrawnOnScreen
<1>3. RowsInScope' /\ QueryFits'
  BY DEF ShownFor, RowsInScope, RowsOf, QueryFits
<1> QED
  BY <1>1, <1>2, <1>3 DEF ShownFor, Inv, Kept

LEMMA TypeKeeps == ASSUME Inv, NEW new \in Texts, Type(new) PROVE Kept
<1>1. text' = new /\ UNCHANGED <<filesVars, tab, visible, mode, overlay>>
  BY DEF Type
<1>2. overlay' \in BOOLEAN
  BY <1>1 DEF Inv, WindowInv
<1>3. CASE tab = "projects" /\ mode = "normal"
  <2>1. Filter(new, scope) /\ UNCHANGED <<primary, scope, fetches, fetchCount>>
    BY <1>3 DEF Type, ProjectsOnQueryChanged
  <2>2. primary' = RowsOf(scope)
    BY <1>3, <2>1 DEF Inv, RowsInScope
  <2>3. ShownFor(new)
    BY <2>1, <2>2, RefilteredInScope DEF Inv
  <2> QED
    BY <1>1, <1>2, <2>3, ProjectsFiltered
<1>4. CASE ~(tab = "projects" /\ mode = "normal")
  <2>1. UNCHANGED projectsVars
    BY <1>4 DEF Type
  <2>2. FilesInv' /\ FilesQuestionStep /\ filesDirty' = filesDirty
    BY <1>1, FilesUnchanged DEF Inv
  <2>3. ProjectsInv' /\ LocateQuestionStep
    BY <2>1, ProjectsUnchanged DEF Inv
  <2>4. WindowInv' /\ DrawnOnScreen'
    BY <1>1, <2>2 DEF Inv, WindowInv, DrawnOnScreen
  <2>5. RowsInScope' /\ QueryFits'
    BY <1>1, <1>4, <2>1 DEF Inv, RowsInScope, RowsOf, QueryFits, projectsVars
  <2> QED
    BY <2>2, <2>3, <2>4, <2>5 DEF Inv, Kept
<1> QED
  BY <1>3, <1>4

LEMMA PressRefreshKeeps == ASSUME Inv, PressRefresh PROVE Kept
<1>1. /\ tab = "files" /\ visible /\ FilesRefresh /\ filesDirty' = filesDirty
      /\ UNCHANGED <<projectsVars, tab, visible, mode, text, overlay>>
  BY DEF PressRefresh, FilesRefresh
<1>2. FilesInv' /\ FilesQuestionStep
  BY <1>1, FilesRefreshKeeps DEF Inv, FilesQuestionStep, FilesQuestion!Next
<1>3. ProjectsInv' /\ LocateQuestionStep
  BY <1>1, ProjectsUnchanged DEF Inv
<1>4. WindowInv' /\ DrawnOnScreen' /\ RowsInScope' /\ QueryFits'
  BY <1>1 DEF Inv, WindowInv, DrawnOnScreen, RowsInScope, QueryFits
<1> QED
  BY <1>2, <1>3, <1>4 DEF Inv, Kept

LEMMA AskHostKeeps == ASSUME Inv, NEW host \in Hosts, AskHost(host) PROVE Kept
<1>1. /\ BeginFetch(host, text) /\ overlay' = FALSE
      /\ UNCHANGED <<filesVars, tab, visible, mode, text>>
  BY DEF AskHost
<1>2. text \in Texts /\ text' \in Texts
  BY <1>1 DEF Inv, WindowInv
<1>3. /\ LocateInv' /\ ScopeInv' /\ LocalOnly' /\ LocateQuestionStep
      /\ primary' = RowsOf(scope') /\ located' = NoneLocated
      /\ locatePending' # 0 => locateQuery' = text
  BY <1>1, <1>2, BeginFetchKeeps DEF Inv, ProjectsInv
<1>4. ShownFor(text)
  BY <1>3, NoneLocatedIsNone DEF ShownFor, ProjectsInv
<1> QED
  BY <1>1, <1>2, <1>4, ProjectsFiltered

LEMMA EditProjectsKeeps == ASSUME Inv, EditProjects PROVE Kept
<1>1. /\ Filter(text, scope) /\ primary' = RowsOf(scope) /\ overlay' = FALSE
      /\ UNCHANGED <<filesVars, scope, fetches, fetchCount, tab, visible, mode, text>>
  BY DEF EditProjects, Refresh
<1>2. text \in Texts /\ text' \in Texts
  BY <1>1 DEF Inv, WindowInv
<1>3. ShownFor(text)
  BY <1>1, <1>2, RefilteredInScope DEF Inv
<1> QED
  BY <1>1, <1>2, <1>3, ProjectsFiltered

LEMMA PressEscapeKeeps == ASSUME Inv, PressEscape PROVE Kept
<1>1. /\ EscapeScope(text)
      /\ UNCHANGED <<filesVars, tab, visible, mode, text, overlay>>
  BY DEF PressEscape
<1>2. text \in Texts /\ text' \in Texts /\ overlay' \in BOOLEAN
  BY <1>1 DEF Inv, WindowInv
<1>3. ShownFor(text)
  BY <1>1, <1>2, EscapeScopeKeeps DEF Inv
<1> QED
  BY <1>1, <1>2, <1>3, ProjectsFiltered

LEMMA TickKeeps == ASSUME Inv, Tick PROVE Kept
<1>1. /\ Filter(text, scope) /\ primary' = RowsOf(scope)
      /\ UNCHANGED <<scope, fetches, fetchCount>>
      /\ UNCHANGED <<filesVars, tab, visible, mode, text, overlay>>
  BY DEF Tick, ProjectsOnTick, Refresh
<1>2. text \in Texts /\ text' \in Texts /\ overlay' \in BOOLEAN
  BY <1>1 DEF Inv, WindowInv
<1>3. ShownFor(text)
  BY <1>1, <1>2, RefilteredInScope DEF Inv
<1> QED
  BY <1>1, <1>2, <1>3, ProjectsFiltered

LEMMA FetchEventKeeps == ASSUME Inv, FetchEvent PROVE Kept
<1>1. /\ UNCHANGED <<filesVars, tab, visible, mode, text, overlay>>
      /\ \E host \in Hosts : FetchAnswered(host, text)
  BY DEF FetchEvent
<1>2. text \in Texts /\ text' \in Texts /\ overlay' \in BOOLEAN
  BY <1>1 DEF Inv, WindowInv
<1>3. PICK host \in Hosts : FetchAnswered(host, text)
  BY <1>1
<1>4. /\ LocateInv' /\ ScopeInv' /\ LocalOnly' /\ LocateQuestionStep
      /\ primary' = RowsOf(scope') /\ located' = NoneLocated
      /\ locatePending' # 0 => locateQuery' = text
  BY <1>2, <1>3, FetchAnsweredKeeps DEF Inv, ProjectsInv
<1>5. ShownFor(text)
  BY <1>4, NoneLocatedIsNone DEF ShownFor, ProjectsInv
<1> QED
  BY <1>1, <1>2, <1>5, ProjectsFiltered

LEMMA FilesEventKeeps == ASSUME Inv, NEW g \in Id, FilesEvent(g) PROVE Kept
<1> DEFINE onScreen == visible /\ tab = "files"
<1>1. /\ UNCHANGED <<projectsVars, tab, visible, mode, text, overlay>>
      /\ \/ FilesOutputEnds(g, onScreen)
         \/ FilesProcessEnds(g, onScreen)
         \/ FilesTimeout(g)
  BY DEF FilesEvent
<1>2. onScreen \in BOOLEAN
  BY DEF Inv, WindowInv
<1> HIDE DEF onScreen
<1>3. FilesInv' /\ FilesQuestionStep /\ filesDirty' \in {filesDirty, ~onScreen}
  <2>1. CASE FilesOutputEnds(g, onScreen)
    BY <1>2, <2>1, FilesOutputEndsKeeps DEF Inv
  <2>2. CASE FilesProcessEnds(g, onScreen)
    BY <1>2, <2>2, FilesProcessEndsKeeps DEF Inv
  <2>3. CASE FilesTimeout(g)
    BY <2>3, FilesTimeoutKeeps DEF Inv
  <2> QED
    BY <1>1, <2>1, <2>2, <2>3
<1>4. ProjectsInv' /\ LocateQuestionStep
  BY <1>1, ProjectsUnchanged DEF Inv
<1>5. WindowInv' /\ RowsInScope' /\ QueryFits'
  BY <1>1 DEF Inv, WindowInv, RowsInScope, RowsOf, QueryFits, projectsVars
<1>6. DrawnOnScreen'
  BY <1>1, <1>3 DEF Inv, DrawnOnScreen, onScreen
<1> QED
  BY <1>3, <1>4, <1>5, <1>6 DEF Inv, Kept

LEMMA LocateEventKeeps == ASSUME Inv, NEW g \in Id, LocateEvent(g) PROVE Kept
<1>1. /\ LocateOutputEnds(g) \/ LocateProcessEnds(g) \/ LocateTimeout(g)
      /\ UNCHANGED <<filesVars, tab, visible, mode, text, overlay>>
  BY DEF LocateEvent
<1>2. LocateInv' /\ LocateQuestionStep /\ LocateCallback
  BY <1>1, LocateOutputEndsKeeps, LocateProcessEndsKeeps, LocateTimeoutKeeps
  DEF Inv, ProjectsInv
<1>3. FilesInv' /\ FilesQuestionStep /\ filesDirty' = filesDirty
  BY <1>1, FilesUnchanged DEF Inv
<1>4. ScopeInv' /\ LocalOnly'
  BY <1>2 DEF Inv, ProjectsInv, ScopeInv, LocalOnly, LocateCallback
<1>5. WindowInv' /\ DrawnOnScreen' /\ RowsInScope'
  BY <1>1, <1>2, <1>3
  DEF Inv, WindowInv, DrawnOnScreen, RowsInScope, RowsOf, LocateCallback
<1>6. QueryFits'
  BY <1>1, <1>2 DEF Inv, QueryFits, LocateCallback
<1> QED
  BY <1>2, <1>3, <1>4, <1>5, <1>6 DEF Inv, ProjectsInv, Kept

-----------------------------------------------------------------------------
(* The theorems.                                                           *)

LEMMA StepKeeps == Inv /\ [Next]_vars => Kept
<1> SUFFICES ASSUME Inv, [Next]_vars PROVE Kept
  OBVIOUS
<1>1. CASE UNCHANGED vars
  <2>1. WindowInv' /\ UNCHANGED <<filesVars, projectsVars, tab, visible, mode, text>>
    BY <1>1 DEF vars, Inv, WindowInv
  <2> QED
    BY <2>1, WindowOnly
<1>2. CASE User
  <2>1. CASE Show
    BY <2>1, ShowKeeps
  <2>2. CASE Hide
    BY <2>2, HideKeeps
  <2>3. CASE BackToWindows \/ BackToCommand
    BY <2>3, BackToWindowsKeeps, BackToCommandKeeps
  <2>4. CASE EnterCommand \/ ExitCommand
    BY <2>4, EnterCommandKeeps, ExitCommandKeeps
  <2>5. CASE PressRefresh \/ PressEscape \/ Tick
    BY <2>5, PressRefreshKeeps, PressEscapeKeeps, TickKeeps
  <2>6. CASE OpenOverlay \/ CloseOverlay \/ EditProjects
    BY <2>6, OpenOverlayKeeps, CloseOverlayKeeps, EditProjectsKeeps
  <2>7. CASE \E t \in Tabs : SwitchTab(t)
    BY <2>7, SwitchTabKeeps
  <2>8. CASE \E new \in Texts : Type(new)
    BY <2>8, TypeKeeps
  <2>9. CASE \E host \in Hosts : AskHost(host)
    BY <2>9, AskHostKeeps
  <2> QED
    BY <1>2, <2>1, <2>2, <2>3, <2>4, <2>5, <2>6, <2>7, <2>8, <2>9 DEF User
<1>3. CASE Event
  BY <1>3, FetchEventKeeps, FilesEventKeeps, LocateEventKeeps DEF Event
<1> QED
  BY <1>1, <1>2, <1>3 DEF Next

LEMMA NothingAsked ==
    ASSUME NEW ss, ss = [g \in Id |-> Freed]
    PROVE  ContextsInv(ss, 0, 0)
<1>1. Freed \in Search /\ ~Running(Freed)
  BY DEF Freed, Search, Running
<1>2. Freed.refcount = 0 /\ Holders(Freed, FALSE) = 0
  BY DEF Freed, Holders, Count
<1>3. \A g \in Id : g # 0 /\ ss[g] = Freed
  BY DEF Id
<1>4. 0 \in 0..MaxAsked
  BY MaxAskedAssumption
<1>5. Accounted(ss, 0)
  BY <1>1, <1>2, <1>3 DEF Accounted
<1> QED
  BY <1>1, <1>4, <1>5 DEF ContextsInv

LEMMA InitInv == Init => Inv
<1> SUFFICES ASSUME Init PROVE Inv
  OBVIOUS
<1>1. FilesInv
  <2>1. 0 \in 0..MaxAsked
    BY MaxAskedAssumption
  <2> QED
    BY <2>1, NothingAsked DEF Init, FilesInit, FilesInv
<1>2. LocateInv
  BY NothingAsked, NoneLocatedIsNone, TextsAssumption DEF Init, ProjectsInit, LocateInv
<1>3. ScopeInv
  <2>1. 0 \in 0..MaxAsked
    BY MaxAskedAssumption
  <2>2. /\ scope = Local /\ primary = "local" /\ fetchCount = 0
        /\ fetches = [h \in Hosts |-> 0]
    BY DEF Init, ProjectsInit
  <2>3. fetches \in [Hosts -> 0..MaxAsked] /\ \A h \in Hosts : fetches[h] <= fetchCount
    BY <2>1, <2>2
  <2> QED
    BY <2>1, <2>2, <2>3, LocalIsLocal DEF ScopeInv
<1>4. LocalOnly
  BY NoneLocatedIsNone DEF Init, ProjectsInit, LocalOnly
<1>5. WindowInv /\ DrawnOnScreen /\ RowsInScope /\ QueryFits
  BY TextsAssumption
  DEF Init, FilesInit, WindowInv, Tabs, DrawnOnScreen, RowsInScope, QueryFits
<1> QED
  BY <1>1, <1>2, <1>3, <1>4, <1>5 DEF Inv, ProjectsInv

(* Every step keeps the strengthening that the theorems below rest on.     *)
THEOREM Inductive == Spec => []Inv
<1>1. Inv /\ [Next]_vars => Inv'
  BY StepKeeps DEF Kept
<1> QED
  BY <1>1, InitInv, PTL DEF Spec

(* Every variable has the values the code allows.                          *)
THEOREM TypeCorrect == Spec => []TypeOK
<1>1. Inv => TypeOK
  <2> SUFFICES ASSUME Inv PROVE TypeOK
    OBVIOUS
  <2>1. /\ files \in [Id -> Search] /\ locate \in [Id -> Search]
        /\ filesGen \in 0..MaxAsked /\ locateGen \in 0..MaxAsked
        /\ filesPending \in 0..MaxAsked /\ locatePending \in 0..MaxAsked
    BY MaxAskedAssumption DEF Inv, FilesInv, ProjectsInv, LocateInv, ContextsInv
  <2>2. /\ filesCache \in 0..MaxAsked /\ filesLoading \in BOOLEAN /\ filesDirty \in BOOLEAN
    BY DEF Inv, FilesInv
  <2>3. /\ fetchCount \in 0..MaxAsked /\ fetches \in [Hosts -> 0..MaxAsked]
        /\ scope \in [active : BOOLEAN, loading : BOOLEAN, host : Hosts \cup {""}]
        /\ primary \in Hosts \cup {"local", "loading"}
    BY DEF Inv, ProjectsInv, ScopeInv, Scopes
  <2>4. locateQuery \in Texts /\ located \in [of : 0..MaxAsked, query : Texts]
    BY DEF Inv, ProjectsInv, LocateInv
  <2> QED
    BY <2>1, <2>2, <2>3, <2>4 DEF Inv, WindowInv, TypeOK
<1> QED
  BY <1>1, Inductive, PTL

(* In any interleaving of keys, tab changes and callbacks a reference of a *)
(* context has its holder and a context without one is freed, so that no   *)
(* callback finds a freed context and none is leaked; a child process that *)
(* is not the pending one is neither wanted nor running.                   *)
THEOREM EveryContextAccounted == Spec => []ContextsAccounted
<1>1. Inv => ContextsAccounted
  BY DEF Inv, FilesInv, ProjectsInv, LocateInv, ContextsInv, ContextsAccounted
<1> QED
  BY <1>1, Inductive, PTL

(* The Files tab says that it is loading only while the newest search is   *)
(* pending with its timer armed, whatever was refreshed, left or timed out *)
(* before.                                                                 *)
THEOREM LoadingEnds == Spec => []LoadingIsPending
<1>1. Inv => LoadingIsPending
  BY DEF Inv, FilesInv, ContextsInv, LoadingIsPending
<1> QED
  BY <1>1, Inductive, PTL

(* Paths that arrived off the screen are drawn on the way back to it.      *)
THEOREM CacheIsDrawn == Spec => []DrawnOnScreen
<1>1. Inv => DrawnOnScreen
  BY DEF Inv
<1> QED
  BY <1>1, Inductive, PTL

(* Locate rows shown on the Projects tab are local rows for the text of    *)
(* the entry, although a search answers after the tab, the scope and the   *)
(* text have gone on.                                                      *)
THEOREM LocatedRowsFit == Spec => []LocatedFits
<1>1. Inv => LocatedFits
  BY DEF Inv, ProjectsInv, LocalOnly, QueryFits, LocatedFits
<1> QED
  BY <1>1, Inductive, PTL

(* The rows of the Projects tab follow every change of the scope.          *)
THEOREM RowsFollowScope == Spec => []RowsInScope
<1>1. Inv => RowsInScope
  BY DEF Inv
<1> QED
  BY <1>1, Inductive, PTL

(* A scope that is loading waits for a fetch that is under way: no host is *)
(* loading for ever because its answer was applied before.                 *)
THEOREM LoadingIsFetched == Spec => []LoadingIsFetching
<1>1. Inv => LoadingIsFetching
  BY DEF Inv, ProjectsInv, ScopeInv, LoadingIsFetching
<1> QED
  BY <1>1, Inductive, PTL

(* The Files tab implements the safety half of LatestAnswer: its cache is  *)
(* replaced by the answer to the newest search only, and once for each.    *)
THEOREM FilesImplements == Spec => FilesQuestion!Safety
<1>1. Init => FilesQuestion!Init
  BY DEF Init, FilesInit, FilesQuestion!Init
<1>2. Inv /\ [Next]_vars => [FilesQuestion!Next]_FilesQuestion!vars
  BY StepKeeps DEF Kept, FilesQuestionStep, FilesQuestion!vars
<1> QED
  BY <1>1, <1>2, Inductive, PTL DEF Spec, FilesQuestion!Safety

(* So do the locate rows of the Projects tab.                              *)
THEOREM LocateImplements == Spec => LocateQuestion!Safety
<1>1. Init => LocateQuestion!Init
  BY NoneLocatedIsNone DEF Init, ProjectsInit, LocateQuestion!Init
<1>2. Inv /\ [Next]_vars => [LocateQuestion!Next]_LocateQuestion!vars
  BY StepKeeps DEF Kept, LocateQuestionStep, LocateQuestion!vars
<1> QED
  BY <1>1, <1>2, Inductive, PTL DEF Spec, LocateQuestion!Safety
=============================================================================
