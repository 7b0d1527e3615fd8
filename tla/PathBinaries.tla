---------------------------- MODULE PathBinaries ----------------------------
(* The executables of PATH (src/src/path/path_binaries.c) and their tab    *)
(* (src/src/path/path_provider.c): a thread reads the directories once and *)
(* queues what it finds in chunks, the main loop merges them, monitors of  *)
(* the directories report what changes, and the tab shows what the cache   *)
(* held when it was last filtered.  A file is a directory and a name; a    *)
(* directory is read in one step.  File system and monitors are external.  *)
EXTENDS Integers, Sequences, FiniteSets, SequencesExt, Places

CONSTANTS Files,         \* [dir : position in PATH, name : Nat in collation order]
          Initial,       \* files that are there at first
          Ranked,        \* query -> names that match it, best first
          MaxBins,       \* MAX_PATH_BINS
          MaxRows,       \* MAX_APPS
          MaxChanges     \* bound: changes of files

VARIABLE pb

Dirs == {f.dir : f \in Files}
NameAt(rows) == {f.name : f \in Range(rows)}
Orders(S) == {s \in [1..Cardinality(S) -> S] : IsInjective(s)}
ByName(rows) ==
    Sorted(Range(rows), [f \in Range(rows) |-> {g \in Range(rows) : g.name < f.name}])
Upto(rows, n) == SubSeq(rows, 1, IF Len(rows) < n THEN Len(rows) ELSE n)

(* filter_path_entries: the whole cache for an empty query, else what      *)
(* matches in the order of the scores; then the cap.                       *)
Filtered(cache, text) ==
    Upto(IF text = "" THEN cache
         ELSE LET found == Within(Ranked[text], NameAt(cache))
              IN  [i \in DOMAIN found |->
                      CHOOSE f \in Range(cache) : f.name = found[i]], MaxRows)

(* maybe_refresh_path_tab *)
Refreshed(s) == IF s.tab THEN [s EXCEPT !.rows = Filtered(s.cache, s.text)] ELSE s

\* Mutant: the last of a name wins.
MergedLatest(cache, chunk) ==
    LET old == {g \in Range(cache) : g.name \in NameAt(chunk)} IN
    Upto(Without(cache, old) \o chunk, MaxBins)

(* merge_entries: the first of a name wins, at the cap the rest is dropped. *)
Merged(cache, chunk) ==
    LET new == {n \in DOMAIN chunk : /\ chunk[n].name \notin NameAt(cache)
                                     /\ \A m \in 1..(n - 1) : chunk[m].name # chunk[n].name}
    IN  cache \o Upto(Picked(chunk, new), MaxBins - Len(cache))

Executable(f) == pb.disk[f] = "exec"

Init == pb = [disk |-> [f \in Files |-> IF f \in Initial THEN "exec" ELSE "absent"],
              events |-> <<>>, unread |-> {}, chunks |-> <<>>, scan |-> "none",
              cache |-> <<>>, tab |-> FALSE, text |-> "", rows |-> <<>>,
              changes |-> 0, touched |-> {}, ghosts |-> {}, full |-> FALSE]

-----------------------------------------------------------------------------
(* path_on_enter: path_binaries_ensure_loaded watches the directories and  *)
(* then starts the thread, once; the entry is empty when a tab is entered. *)
EnterTab ==
    /\ ~pb.tab
    /\ LET first == pb.scan = "none"
           cache == IF first THEN <<>> ELSE pb.cache
       IN  pb' = [pb EXCEPT !.scan = IF first THEN "running" ELSE @,
                            !.unread = IF first THEN Dirs ELSE @,
                            !.cache = cache,
                            !.tab = TRUE, !.text = "", !.rows = Filtered(cache, "")]
LeaveTab == pb.tab /\ pb' = [pb EXCEPT !.tab = FALSE]
QueryChanged(text) ==
    pb.tab /\ pb' = [pb EXCEPT !.text = text, !.rows = Filtered(pb.cache, text)]

-----------------------------------------------------------------------------
(* The thread: one directory after the other, then the final chunk.        *)
ReadDir ==
    /\ pb.scan = "running" /\ pb.unread # {}
    /\ LET d == CHOOSE n \in pb.unread : \A m \in pb.unread : n <= m
       IN  \E chunk \in Orders({f \in Files : f.dir = d /\ Executable(f)}) :
              pb' = [pb EXCEPT !.unread = @ \ {d},
                               !.chunks = IF chunk = <<>> THEN @ ELSE Append(@, chunk)]
EndScan ==
    /\ pb.scan = "running" /\ pb.unread = {}
    /\ pb' = [pb EXCEPT !.scan = "queued", !.chunks = Append(@, <<>>)]

(* merge_chunk_cb, on idle; the empty chunk is the final one. *)
MergeChunk ==
    /\ pb.chunks # <<>>
    /\ LET cache == Merged(pb.cache, Head(pb.chunks))
           final == Head(pb.chunks) = <<>>
       IN  pb' = Refreshed([pb EXCEPT !.chunks = Tail(@),
                                      !.scan = IF final THEN "done" ELSE @,
                                      !.full = @ \/ ~(NameAt(Head(pb.chunks)) \subseteq NameAt(cache)),
                                      !.cache = IF final THEN ByName(cache) ELSE cache])

-----------------------------------------------------------------------------
(* path_binaries_on_monitor_event *)
Added(cache, f) ==
    IF Len(cache) < MaxBins /\ f.name \notin NameAt(cache) /\ Executable(f)
    THEN ByName(Append(cache, f)) ELSE cache
Removed(cache, f) == Without(cache, {f})

Queued == UNION {Range(pb.chunks[i]) : i \in DOMAIN pb.chunks}

MonitorEvent ==
    /\ pb.events # <<>>
    /\ LET e == Head(pb.events)
           cache == IF e.type = "created" THEN Added(pb.cache, e.file)
                    ELSE Removed(pb.cache, e.file)
           next == [pb EXCEPT !.events = Tail(@), !.cache = cache,
                              !.full = @ \/ (e.type = "created" /\ Len(pb.cache) >= MaxBins),
                              !.ghosts = IF e.type = "created" \/ e.file \notin Queued THEN @
                                         ELSE @ \cup {e.file}]
       IN  pb' = IF cache = pb.cache THEN next ELSE Refreshed(next)

(* A file comes, becomes executable or not, or goes; the monitor reports   *)
(* only that it came or went, and only once the directories are watched.   *)
Change(f, to) ==
    /\ pb.changes < MaxChanges
    /\ pb.disk[f] # to
    /\ LET type == CASE to = "absent" -> "deleted"
                     [] to # "absent" /\ pb.disk[f] = "absent" -> "created"
                     [] OTHER -> "none"
       IN  pb' = [pb EXCEPT !.disk[f] = to, !.changes = @ + 1,
                            !.touched = @ \cup {f.name},
                            !.events = IF pb.scan = "none" \/ type = "none" THEN @
                                       ELSE Append(@, [type |-> type, file |-> f])]

Next == \/ EnterTab
        \/ LeaveTab
        \/ \E text \in DOMAIN Ranked \cup {""} : QueryChanged(text)
        \/ ReadDir
        \/ EndScan
        \/ MergeChunk
        \/ MonitorEvent
        \/ \E f \in Files, to \in {"absent", "plain", "exec"} : Change(f, to)

Spec == Init /\ [][Next]_pb

-----------------------------------------------------------------------------
First(name) ==
    LET found == {f \in Files : f.name = name /\ Executable(f)}
    IN  {f \in found : \A g \in found : f.dir <= g.dir}

Going == {pb.events[i].file : i \in {j \in DOMAIN pb.events : pb.events[j].type = "deleted"}}

(* However the thread, the main loop and the monitors take turns: the      *)
(* cache has one file of a name and no more than it can hold; a file it    *)
(* offers is there, or the report that it went is still to come, or came   *)
(* while the file was in a chunk not yet merged; after the scan the cache  *)
(* is sorted and has, for a name nothing happened to, the first file in    *)
(* the order of PATH unless it is full; and the tab shows the cache        *)
(* filtered by what the entry says.                                        *)
PathRowsAgree ==
    /\ Cardinality(NameAt(pb.cache)) = Len(pb.cache) /\ Len(pb.cache) <= MaxBins
    /\ \A f \in Range(pb.cache) :
          pb.disk[f] # "absent" \/ f \in Going \/ f \in pb.ghosts
    /\ pb.scan = "done" =>
          /\ pb.cache = ByName(pb.cache)
          /\ \A name \in {f.name : f \in Files} \ pb.touched :
                First(name) \subseteq Range(pb.cache) \/ pb.full
    /\ pb.tab => pb.rows = Filtered(pb.cache, pb.text)
=============================================================================
