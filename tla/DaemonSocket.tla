---------------------------- MODULE DaemonSocket ----------------------------
(***************************************************************************)
(* One resident daemon and the invocations that delegate to it, over the   *)
(* Unix socket cofi.sock (daemon_socket.c, daemon_socket_runtime.c and the *)
(* start and end of run_cofi).                                             *)
(*                                                                         *)
(* An invocation connects to the path; when a daemon accepts, it sends its *)
(* request and exits.  When none does, it binds the path itself.  A path   *)
(* that is bound but refuses is taken for stale and unlinked.  bind and    *)
(* listen are two system calls, and so are close and unlink at the end.    *)
(*                                                                         *)
(* Each socket file is named by the invocation that bound it.  A request   *)
(* is one opcode ("op"), or a header and a tab name ("tab"), which are two *)
(* sends.  The kernel looks the path up again when a full backlog delayed  *)
(* a connect, so a connect is one step that waits.                         *)
(***************************************************************************)
EXTENDS Naturals, Sequences, FiniteSets

CONSTANTS
    Proc,       \* invocations of the program
    NoProc,
    Backlog     \* connections that may wait to be accepted

ASSUME ConstantsAssumption ==
    /\ NoProc \notin Proc
    /\ Backlog \in Nat \ {0}

VARIABLES
    serial,     \* starts and ends never overlap (a property of the session)
    pc,         \* where run_cofi is
    want,       \* startup_delegate_opcode: "none", "op" or "tab"
    sock,       \* the listening socket of each invocation
    path,       \* whose socket the file cofi.sock is, or NoProc
    queue,      \* connections waiting to be accepted
    cur,        \* the connection being read, s_show_tab_client_fd included
    srv,        \* the daemon an invocation is connected to
    sent,       \* how many parts of the request it has sent
    handled     \* how often its request was dispatched

vars == <<serial, pc, want, sock, path, queue, cur, srv, sent, handled>>

Ended == {"done", "failed", "dead"}
Starting == {"connect", "bind", "listen", "probe", "unlink", "rebind"}
Ending == {"quit", "exiting"}
Talking == {"send", "leave"}
Phases == {"off", "init", "up", "recv", "name"} \cup Starting \cup Ending
              \cup Talking \cup Ended

Serving(p) == pc[p] \in {"init", "up", "recv", "name"}
Parts(p) == IF want[p] = "tab" THEN 2 ELSE 1

Go(p, where) == pc' = [pc EXCEPT ![p] = where]
Done(p) == cur' = [cur EXCEPT ![p] = NoProc]
Undisturbed == \A q \in Proc : pc[q] \notin Starting \cup Ending
MayOverlap == serial => Undisturbed

-----------------------------------------------------------------------------
(* connect: refused by a missing path, and by a socket that does not listen *)

\* Mutant: a connect that would have to wait counts as refused.
RefusedWhenFull ==
    path # NoProc => sock[path] # "listening" \/ Len(queue[path]) >= Backlog
Refused == path # NoProc => sock[path] # "listening"

Accepted ==
    /\ path # NoProc
    /\ sock[path] = "listening"
    /\ Len(queue[path]) < Backlog

Enqueue(p) ==
    /\ queue' = [queue EXCEPT ![path] = Append(@, p)]
    /\ srv' = [srv EXCEPT ![p] = path]

Start(p, w) ==
    /\ pc[p] = "off"
    /\ MayOverlap
    /\ want' = [want EXCEPT ![p] = w]
    /\ Go(p, "connect")
    /\ UNCHANGED <<serial, sock, path, queue, cur, srv, sent, handled>>

Connect(p) ==
    /\ pc[p] = "connect"
    /\ \/ /\ Accepted
          /\ Enqueue(p)
          /\ Go(p, IF want[p] = "none" THEN "leave" ELSE "send")
       \/ /\ Refused
          /\ Go(p, "bind")
          /\ UNCHANGED <<queue, srv>>
    /\ UNCHANGED <<serial, want, sock, path, cur, sent, handled>>

(* A send to a daemon that closed its end is answered with SIGPIPE.         *)
Send(p) ==
    /\ pc[p] = "send"
    /\ IF sock[srv[p]] = "listening"
       THEN /\ sent' = [sent EXCEPT ![p] = @ + 1]
            /\ Go(p, IF sent'[p] = Parts(p) THEN "done" ELSE "send")
       ELSE Go(p, "dead") /\ UNCHANGED sent
    /\ UNCHANGED <<serial, want, sock, path, queue, cur, srv, handled>>

(* "already running", or a bind that found a listening socket after all     *)
\* Mutant: the exit handler that unlinks the path is armed before the bind.
LeaveUnlinking(p) ==
    /\ pc[p] = "leave"
    /\ path' = NoProc
    /\ Go(p, "failed")
    /\ UNCHANGED <<serial, want, sock, queue, cur, srv, sent, handled>>
Leave(p) ==
    /\ pc[p] = "leave"
    /\ Go(p, "failed")
    /\ UNCHANGED <<serial, want, sock, path, queue, cur, srv, sent, handled>>

-----------------------------------------------------------------------------
(* daemon_socket_bind_listener                                              *)

BindPath(p) ==
    /\ path = NoProc
    /\ path' = p
    /\ sock' = [sock EXCEPT ![p] = "bound"]
    /\ Go(p, "listen")

Bind(p) ==
    /\ pc[p] = "bind"
    /\ \/ BindPath(p)
       \/ path # NoProc /\ Go(p, "probe") /\ UNCHANGED <<path, sock>>
    /\ UNCHANGED <<serial, want, queue, cur, srv, sent, handled>>

Listen(p) ==
    /\ pc[p] = "listen"
    /\ sock' = [sock EXCEPT ![p] = "listening"]
    /\ Go(p, "init")
    /\ UNCHANGED <<serial, want, path, queue, cur, srv, sent, handled>>

Probe(p) ==
    /\ pc[p] = "probe"
    /\ \/ Accepted /\ Enqueue(p) /\ Go(p, "leave")
       \/ Refused /\ Go(p, "unlink") /\ UNCHANGED <<queue, srv>>
    /\ UNCHANGED <<serial, want, sock, path, cur, sent, handled>>

\* Mutant: the stale path is left alone and the bind tried again.
UnlinkNothing(p) ==
    /\ pc[p] = "unlink"
    /\ Go(p, "bind")
    /\ UNCHANGED <<serial, want, sock, path, queue, cur, srv, sent, handled>>
Unlink(p) ==
    /\ pc[p] = "unlink"
    /\ path' = NoProc
    /\ Go(p, "rebind")
    /\ UNCHANGED <<serial, want, sock, queue, cur, srv, sent, handled>>

Rebind(p) ==
    /\ pc[p] = "rebind"
    /\ \/ BindPath(p)
       \/ path # NoProc /\ Go(p, "failed") /\ UNCHANGED <<path, sock>>
    /\ UNCHANGED <<serial, want, queue, cur, srv, sent, handled>>

-----------------------------------------------------------------------------
(* The daemon: the rest of the start, and process_daemon_socket_events      *)

Handle(q) == handled' = [handled EXCEPT ![q] = @ + 1]

InitDone(p) ==
    /\ pc[p] = "init"
    /\ Go(p, "up")
    /\ IF want[p] = "none" THEN UNCHANGED handled ELSE Handle(p)
    /\ UNCHANGED <<serial, want, sock, path, queue, cur, srv, sent>>

Accept(p) ==
    /\ pc[p] = "up"
    /\ queue[p] # <<>>
    /\ cur' = [cur EXCEPT ![p] = Head(queue[p])]
    /\ queue' = [queue EXCEPT ![p] = Tail(@)]
    /\ Go(p, "recv")
    /\ UNCHANGED <<serial, want, sock, path, srv, sent, handled>>

(* The accepted socket blocks: the daemon waits for the sender.             *)
\* Mutant: the opcode of a tab is dispatched before its name is read.
ReadOpcodeEarly(p) ==
    /\ pc[p] = "recv"
    /\ sent[cur[p]] >= 1
    /\ Handle(cur[p])
    /\ IF want[cur[p]] = "tab"
       THEN Go(p, "name") /\ UNCHANGED cur
       ELSE Go(p, "up") /\ Done(p)
    /\ UNCHANGED <<serial, want, sock, path, queue, srv, sent>>
ReadOpcode(p) ==
    /\ pc[p] = "recv"
    /\ sent[cur[p]] >= 1
    /\ IF want[cur[p]] = "tab"
       THEN Go(p, "name") /\ UNCHANGED <<handled, cur>>
       ELSE Go(p, "up") /\ Handle(cur[p]) /\ Done(p)
    /\ UNCHANGED <<serial, want, sock, path, queue, srv, sent>>

ReadName(p) ==
    /\ pc[p] = "name"
    /\ sent[cur[p]] = 2
    /\ Handle(cur[p])
    /\ Go(p, "up") /\ Done(p)
    /\ UNCHANGED <<serial, want, sock, path, queue, srv, sent>>

(* The sender closed before its request was complete.                       *)
ReadEnd(p) ==
    /\ \/ pc[p] = "recv" /\ sent[cur[p]] = 0
       \/ pc[p] = "name" /\ sent[cur[p]] = 1
    /\ pc[cur[p]] \in Ended
    /\ Go(p, "up") /\ Done(p)
    /\ UNCHANGED <<serial, want, sock, path, queue, srv, sent, handled>>

-----------------------------------------------------------------------------
(* The end of the daemon                                                    *)

CloseSocket(p) ==
    /\ sock' = [sock EXCEPT ![p] = IF @ = "none" THEN "none" ELSE "closed"]
    /\ queue' = [queue EXCEPT ![p] = <<>>]

(* daemon_socket_stop_monitor: close, then unlink, whoever has the path.    *)
ShutDown(p) ==
    /\ pc[p] \in {"init", "up"}
    /\ MayOverlap
    /\ CloseSocket(p)
    /\ Go(p, "quit")
    /\ UNCHANGED <<serial, want, path, cur, srv, sent, handled>>

Quit(p) ==
    /\ pc[p] = "quit"
    /\ path' = NoProc
    /\ Go(p, "done")
    /\ UNCHANGED <<serial, want, sock, queue, cur, srv, sent, handled>>

(* exit (no display, a hotkey that cannot be grabbed): the atexit handler   *)
(* unlinks, then the kernel closes.                                         *)
ExitEarly(p) ==
    /\ pc[p] \in {"init", "up"}
    /\ MayOverlap
    /\ path' = NoProc
    /\ Go(p, "exiting")
    /\ UNCHANGED <<serial, want, sock, queue, cur, srv, sent, handled>>

Exited(p) ==
    /\ pc[p] = "exiting"
    /\ CloseSocket(p)
    /\ Go(p, "failed")
    /\ UNCHANGED <<serial, want, path, cur, srv, sent, handled>>

(* Killed: the socket file stays.                                           *)
Crash(p) ==
    /\ pc[p] \notin Ended \cup {"off"}
    /\ CloseSocket(p)
    /\ Go(p, "dead") /\ Done(p)
    /\ UNCHANGED <<serial, want, path, srv, sent, handled>>

-----------------------------------------------------------------------------
Init ==
    /\ serial \in BOOLEAN
    /\ pc = [p \in Proc |-> "off"]
    /\ want = [p \in Proc |-> "none"]
    /\ sock = [p \in Proc |-> "none"]
    /\ path = NoProc
    /\ queue = [p \in Proc |-> <<>>]
    /\ cur = [p \in Proc |-> NoProc]
    /\ srv = [p \in Proc |-> NoProc]
    /\ sent = [p \in Proc |-> 0]
    /\ handled = [p \in Proc |-> 0]

(* What a process does of itself once it runs.                              *)
Step(p) ==
    \/ Connect(p) \/ Send(p) \/ Leave(p)
    \/ Bind(p) \/ Listen(p) \/ Probe(p) \/ Unlink(p) \/ Rebind(p)
    \/ InitDone(p) \/ Accept(p) \/ ReadOpcode(p) \/ ReadName(p) \/ ReadEnd(p)
    \/ Quit(p) \/ Exited(p)

Environment(p) ==
    \/ \E w \in {"none", "op", "tab"} : Start(p, w)
    \/ ShutDown(p) \/ ExitEarly(p) \/ Crash(p)

Next == \E p \in Proc : Step(p) \/ Environment(p)

(* The scheduler runs every process.                                        *)
Fairness == \A p \in Proc : WF_vars(Step(p))
Spec == Init /\ [][Next]_vars /\ Fairness

-----------------------------------------------------------------------------
(* Properties                                                               *)

(* When starts and ends do not overlap, a daemon that serves has the path: *)
(* later invocations find it, and there is one daemon, whatever was killed *)
(* before and whatever path that left behind.                              *)
Reachable == serial => \A p \in Proc : Serving(p) => path = p /\ sock[p] = "listening"

(* When starts and ends do not overlap, no step takes the path away from a *)
(* process that serves, but its own end.                                   *)
OnlyStaleRemoved ==
    [][serial => \A p \in Proc :
          path = p /\ path' # p => ~Serving(p) \/ pc'[p] = "exiting"]_vars

(* Every start comes to an end: again and again each process that was      *)
(* started serves or has exited.                                           *)
StartsEnd == []<>(\A p \in Proc : pc[p] = "off" \/ Serving(p) \/ pc[p] \in Ended)

(* The requests, as the abstract specification sees them.                  *)
Lost(p) ==
    \/ pc[p] \in {"failed", "dead"}
    \/ pc[p] \in {"done", "quit"} /\ (srv[p] # NoProc => sock[srv[p]] # "listening")
Fate(p) ==
    CASE want[p] = "none" -> "idle"
      [] want[p] # "none" /\ handled[p] = 1 -> "handled"
      [] want[p] # "none" /\ handled[p] = 0 -> IF Lost(p) THEN "ended" ELSE "asked"
      [] handled[p] > 1 -> "repeated"

D == INSTANCE Delegation WITH fate <- [p \in Proc |-> Fate(p)]

(* A request is dispatched once, by the daemon that was asked or by the    *)
(* daemon the invocation becomes, or never; and it does not stay open.     *)
Delegates == D!Spec
=============================================================================
