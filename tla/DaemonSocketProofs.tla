------------------------- MODULE DaemonSocketProofs -------------------------
(* For any number of invocations: a daemon is found where starts and ends   *)
(* do not overlap, and a request is handled at most once, by whoever it was *)
(* sent to, whatever overlaps or is killed.                                 *)
EXTENDS DaemonSocket, TLAPS

-----------------------------------------------------------------------------
(* The invariant. *)

Up == {"init", "up", "recv", "name"}
Reading == {"recv", "name"}

TypeOK ==
    /\ serial \in BOOLEAN
    /\ pc \in [Proc -> Phases]
    /\ want \in [Proc -> {"none", "op", "tab"}]
    /\ sock \in [Proc -> {"none", "bound", "listening", "closed"}]
    /\ path \in Proc \cup {NoProc}
    /\ queue \in [Proc -> Seq(Proc)]
    /\ cur \in [Proc -> Proc \cup {NoProc}]
    /\ srv \in [Proc -> Proc \cup {NoProc}]
    /\ sent \in [Proc -> Nat]
    /\ handled \in [Proc -> Nat]

(* The socket of an invocation goes with its place in run_cofi.             *)
SocketFits(p) ==
    /\ pc[p] \in Up \cup {"exiting"} <=> sock[p] = "listening"
    /\ pc[p] = "listen" <=> sock[p] = "bound"
    /\ sock[p] = "closed" => pc[p] \in {"quit"} \cup Ended

(* An invocation that is connected was accepted by a socket that listened,  *)
(* and never becomes a daemon.                                              *)
ClientFits(p) ==
    /\ pc[p] = "off" => want[p] = "none"
    /\ pc[p] \in Talking => srv[p] # NoProc
    /\ srv[p] # NoProc => /\ pc[p] \in Talking \cup Ended
                          /\ sock[srv[p]] \in {"listening", "closed"}

(* A request that was sent whole is that of an invocation that is done; it  *)
(* is handled once, after that.                                             *)
SentFits(p) ==
    /\ sent[p] <= Parts(p)
    /\ sent[p] > 0 => /\ srv[p] # NoProc /\ want[p] # "none"
                      /\ pc[p] \in {"send", "done", "dead"}
    /\ sent[p] = Parts(p) => pc[p] = "done"
    /\ pc[p] = "send" => want[p] # "none"
HandledFits(p) ==
    /\ handled[p] <= 1
    /\ pc[p] \in {"off", "init"} \cup Starting \cup Talking => handled[p] = 0

(* The connections of a daemon wait or are read, each once, and were not    *)
(* handled yet.                                                             *)
Waits(p, q) == srv[q] = p /\ handled[q] = 0
ReadFits(p) ==
    /\ cur[p] # NoProc <=> pc[p] \in Reading
    /\ cur[p] # NoProc => Waits(p, cur[p])
    /\ pc[p] = "name" => want[cur[p]] = "tab"
QueueFits(p) ==
    \A i \in 1..Len(queue[p]) :
        /\ Waits(p, queue[p][i]) /\ queue[p][i] # cur[p]
        /\ \A j \in 1..Len(queue[p]) : queue[p][i] = queue[p][j] => i = j

ProcInv(p) ==
    /\ SocketFits(p) /\ ClientFits(p) /\ SentFits(p) /\ HandledFits(p)
    /\ ReadFits(p) /\ QueueFits(p)

(* Where starts and ends do not overlap, one of them goes on at a time, and *)
(* once it has found no daemon there is none.                               *)
Busy == Starting \cup Ending
OneBusy(p, q) == pc[p] \in Busy /\ pc[q] \in Busy => p = q
NoneUp(p, q) == pc[p] \in Busy \ {"connect"} => pc[q] \notin Up
HasPath(p) == pc[p] \in Up \cup {"listen"} => path = p
Alone == serial => \A p, q \in Proc : OneBusy(p, q) /\ NoneUp(p, q) /\ HasPath(p)

IInv == TypeOK /\ (\A p \in Proc : ProcInv(p)) /\ Alone

-----------------------------------------------------------------------------
(* The steps, one part of the invariant after the other. *)

(* The mark for no invocation is none (an assumption on the constants).     *)
LEMMA NoProcIsNone == NoProc \notin Proc
  BY ConstantsAssumption

(* An invocation that is not connected is in no queue and not being read.   *)
LEMMA Unconnected ==
    ASSUME TypeOK, NEW p \in Proc, NEW q \in Proc, ReadFits(q), QueueFits(q), srv[p] = NoProc
    PROVE  cur[q] # p /\ \A i \in 1..Len(queue[q]) : queue[q][i] # p
<1>1. p # NoProc /\ q # NoProc
  BY NoProcIsNone
<1>2. ~Waits(q, p)
  BY <1>1 DEF Waits
<1> QED BY <1>1, <1>2 DEF ReadFits, QueueFits

(* A queue holds invocations.                                               *)
LEMMA Queued ==
    ASSUME TypeOK, NEW q \in Proc
    PROVE  /\ queue[q] \in Seq(Proc) /\ Len(queue[q]) \in Nat
           /\ \A i \in 1..Len(queue[q]) : queue[q][i] \in Proc
  BY DEF TypeOK

(* Every step keeps the types.  A connection that is read names an          *)
(* invocation, so what is handled is the request of one.                    *)
LEMMA TypeStays ==
    ASSUME IInv, NEW p \in Proc, NEW q \in Proc, Step(p) \/ Environment(p)
    PROVE  TypeOK'
<1>0. TypeOK /\ ReadFits(p)
  BY DEF IInv, ProcInv
<1>1. CASE Connect(p)
  <2>1. CASE Accepted /\ Enqueue(p)
    <3>1. path \in Proc /\ queue[path] \in Seq(Proc)
      BY <1>0, <2>1 DEF Accepted, TypeOK
    <3>2. queue' \in [Proc -> Seq(Proc)] /\ srv' \in [Proc -> Proc \cup {NoProc}]
      BY <1>0, <2>1, <3>1 DEF Enqueue, TypeOK
    <3> QED BY <1>0, <1>1, <3>2 DEF Connect, Go, TypeOK, Phases, Starting, Ending,
                Talking, Ended
  <2>2. CASE UNCHANGED <<queue, srv>>
    BY <1>0, <1>1, <2>2 DEF Connect, Go, TypeOK, Phases, Starting, Ending, Talking, Ended
  <2> QED BY <1>1, <2>1, <2>2 DEF Connect
<1>2. CASE Send(p)
  <2>1. sent' = sent \/ sent' = [sent EXCEPT ![p] = sent[p] + 1]
    BY <1>2 DEF Send
  <2>2. \E there \in {"send", "done", "dead"} : pc' = [pc EXCEPT ![p] = there]
    BY <1>2 DEF Send, Go
  <2>3. sent[p] + 1 \in Nat
    BY <1>0 DEF TypeOK
  <2>4. sent' \in [Proc -> Nat]
    BY <1>0, <2>1, <2>3 DEF TypeOK
  <2>5. pc' \in [Proc -> Phases]
    BY <1>0, <2>2 DEF TypeOK, Phases, Talking, Ended
  <2> QED BY <1>0, <1>2, <2>4, <2>5 DEF Send, TypeOK
<1>3. CASE Leave(p)
  BY <1>0, <1>3 DEF Leave, Go, TypeOK, Phases, Starting, Ending, Talking, Ended
<1>4. CASE Bind(p)
  BY <1>0, <1>4 DEF Bind, Go, BindPath, TypeOK, Phases, Starting, Ending, Talking, Ended
<1>5. CASE Listen(p)
  BY <1>0, <1>5 DEF Listen, Go, TypeOK, Phases, Starting, Ending, Talking, Ended
<1>6. CASE Probe(p)
  <2>1. CASE Accepted /\ Enqueue(p)
    <3>1. path \in Proc /\ queue[path] \in Seq(Proc)
      BY <1>0, <2>1 DEF Accepted, TypeOK
    <3>2. queue' \in [Proc -> Seq(Proc)] /\ srv' \in [Proc -> Proc \cup {NoProc}]
      BY <1>0, <2>1, <3>1 DEF Enqueue, TypeOK
    <3> QED BY <1>0, <1>6, <3>2 DEF Probe, Go, TypeOK, Phases, Starting, Ending,
                Talking, Ended
  <2>2. CASE UNCHANGED <<queue, srv>>
    BY <1>0, <1>6, <2>2 DEF Probe, Go, TypeOK, Phases, Starting, Ending, Talking, Ended
  <2> QED BY <1>6, <2>1, <2>2 DEF Probe
<1>7. CASE Unlink(p)
  BY <1>0, <1>7 DEF Unlink, Go, TypeOK, Phases, Starting, Ending, Talking, Ended
<1>8. CASE Rebind(p)
  BY <1>0, <1>8 DEF Rebind, Go, BindPath, TypeOK, Phases, Starting, Ending, Talking, Ended
<1>9. CASE InitDone(p)
  <2>1. \E there \in {"up"} : pc' = [pc EXCEPT ![p] = there]
    BY <1>9 DEF InitDone, Go
  <2>2. handled' = handled \/ handled' = [handled EXCEPT ![p] = handled[p] + 1]
    BY <1>9 DEF InitDone, Handle
  <2>3. p \in Proc /\ handled[p] + 1 \in Nat
    BY <1>0, <1>9 DEF InitDone, TypeOK, ReadFits, Reading
  <2>3a. handled' \in [Proc -> Nat]
    BY <1>0, <2>2, <2>3 DEF TypeOK
  <2>3b. pc' \in [Proc -> Phases]
    BY <1>0, <2>1 DEF TypeOK, Phases
  <2>4. handled' \in [Proc -> Nat] /\ pc' \in [Proc -> Phases]
    BY <2>3a, <2>3b
  <2> QED BY <1>0, <1>9, <2>4 DEF InitDone, Done, TypeOK
<1>10. CASE Accept(p)
  <2>1. Head(queue[p]) \in Proc /\ Tail(queue[p]) \in Seq(Proc)
    BY <1>0, <1>10 DEF Accept, TypeOK
  <2> QED BY <1>0, <1>10, <2>1 DEF Accept, Go, TypeOK, Phases, Starting, Ending,
              Talking, Ended
<1>11. CASE ReadOpcode(p)
  <2>1. \E there \in {"up", "name"} : pc' = [pc EXCEPT ![p] = there]
    BY <1>11 DEF ReadOpcode, Go
  <2>2. handled' = handled \/ handled' = [handled EXCEPT ![cur[p]] = handled[cur[p]] + 1]
    BY <1>11 DEF ReadOpcode, Handle
  <2>3. cur[p] \in Proc /\ handled[cur[p]] + 1 \in Nat
    BY <1>0, <1>11 DEF ReadOpcode, TypeOK, ReadFits, Reading
  <2>3a. handled' \in [Proc -> Nat]
    BY <1>0, <2>2, <2>3 DEF TypeOK
  <2>3b. pc' \in [Proc -> Phases]
    BY <1>0, <2>1 DEF TypeOK, Phases
  <2>4. handled' \in [Proc -> Nat] /\ pc' \in [Proc -> Phases]
    BY <2>3a, <2>3b
  <2> QED BY <1>0, <1>11, <2>4 DEF ReadOpcode, Done, TypeOK
<1>12. CASE ReadName(p)
  <2>1. \E there \in {"up"} : pc' = [pc EXCEPT ![p] = there]
    BY <1>12 DEF ReadName, Go
  <2>2. handled' = handled \/ handled' = [handled EXCEPT ![cur[p]] = handled[cur[p]] + 1]
    BY <1>12 DEF ReadName, Handle
  <2>3. cur[p] \in Proc /\ handled[cur[p]] + 1 \in Nat
    BY <1>0, <1>12 DEF ReadName, TypeOK, ReadFits, Reading
  <2>3a. handled' \in [Proc -> Nat]
    BY <1>0, <2>2, <2>3 DEF TypeOK
  <2>3b. pc' \in [Proc -> Phases]
    BY <1>0, <2>1 DEF TypeOK, Phases
  <2>4. handled' \in [Proc -> Nat] /\ pc' \in [Proc -> Phases]
    BY <2>3a, <2>3b
  <2> QED BY <1>0, <1>12, <2>4 DEF ReadName, Done, TypeOK
<1>13. CASE ReadEnd(p)
  BY <1>0, <1>13 DEF ReadEnd, Go, Done, TypeOK, Phases, Starting, Ending, Talking, Ended
<1>14. CASE Quit(p)
  BY <1>0, <1>14 DEF Quit, Go, TypeOK, Phases, Starting, Ending, Talking, Ended
<1>15. CASE Exited(p)
  BY <1>0, <1>15 DEF Exited, Go, CloseSocket, TypeOK, Phases, Starting, Ending,
      Talking, Ended
<1>16. CASE \E w \in {"none", "op", "tab"} : Start(p, w)
  BY <1>0, <1>16 DEF Start, Go, TypeOK, Phases, Starting, Ending, Talking, Ended
<1>17. CASE ShutDown(p)
  BY <1>0, <1>17 DEF ShutDown, Go, MayOverlap, CloseSocket, TypeOK, Phases, Starting,
      Ending, Talking, Ended
<1>18. CASE ExitEarly(p)
  BY <1>0, <1>18 DEF ExitEarly, Go, MayOverlap, TypeOK, Phases, Starting, Ending,
      Talking, Ended
<1>19. CASE Crash(p)
  BY <1>0, <1>19 DEF Crash, Go, CloseSocket, Done, TypeOK, Phases, Starting, Ending,
      Talking, Ended
<1> QED BY <1>1, <1>2, <1>3, <1>4, <1>5, <1>6, <1>7, <1>8, <1>9, <1>10, <1>11, <1>12,
           <1>13, <1>14, <1>15, <1>16, <1>17, <1>18, <1>19
        DEF Step, Environment

(* Every step keeps each socket with the place of its owner: bind, listen,  *)
(* close and the kernel's close are the only steps that change one.         *)
LEMMA SocketStays ==
    ASSUME IInv, NEW p \in Proc, NEW q \in Proc, Step(p) \/ Environment(p)
    PROVE  SocketFits(q)'
<1>0. TypeOK /\ SocketFits(p) /\ SocketFits(q)
  BY DEF IInv, ProcInv
<1>1. CASE Connect(p)
  BY <1>0, <1>1 DEF Connect, Go, Accepted, Refused, Enqueue, TypeOK, SocketFits, Up,
      Phases, Starting, Ending, Talking, Ended
<1>2. CASE Send(p)
  BY <1>0, <1>2 DEF Send, Go, TypeOK, SocketFits, Up, Phases, Starting, Ending,
      Talking, Ended
<1>3. CASE Leave(p)
  BY <1>0, <1>3 DEF Leave, Go, TypeOK, SocketFits, Up, Phases, Starting, Ending,
      Talking, Ended
<1>4. CASE Bind(p)
  BY <1>0, <1>4 DEF Bind, Go, BindPath, TypeOK, SocketFits, Up, Phases, Starting,
      Ending, Talking, Ended
<1>5. CASE Listen(p)
  BY <1>0, <1>5 DEF Listen, Go, TypeOK, SocketFits, Up, Phases, Starting, Ending,
      Talking, Ended
<1>6. CASE Probe(p)
  BY <1>0, <1>6 DEF Probe, Go, Accepted, Refused, Enqueue, TypeOK, SocketFits, Up,
      Phases, Starting, Ending, Talking, Ended
<1>7. CASE Unlink(p)
  BY <1>0, <1>7 DEF Unlink, Go, TypeOK, SocketFits, Up, Phases, Starting, Ending,
      Talking, Ended
<1>8. CASE Rebind(p)
  BY <1>0, <1>8 DEF Rebind, Go, BindPath, TypeOK, SocketFits, Up, Phases, Starting,
      Ending, Talking, Ended
<1>9. CASE InitDone(p)
  BY <1>0, <1>9 DEF InitDone, Go, Handle, TypeOK, SocketFits, Up, Phases, Starting,
      Ending, Talking, Ended
<1>10. CASE Accept(p)
  BY <1>0, <1>10 DEF Accept, Go, TypeOK, SocketFits, Up, Phases, Starting, Ending,
      Talking, Ended
<1>11. CASE ReadOpcode(p)
  BY <1>0, <1>11 DEF ReadOpcode, Go, Handle, Done, TypeOK, SocketFits, Up, Phases,
      Starting, Ending, Talking, Ended
<1>12. CASE ReadName(p)
  BY <1>0, <1>12 DEF ReadName, Go, Handle, Done, TypeOK, SocketFits, Up, Phases,
      Starting, Ending, Talking, Ended
<1>13. CASE ReadEnd(p)
  BY <1>0, <1>13 DEF ReadEnd, Go, Done, TypeOK, SocketFits, Up, Phases, Starting,
      Ending, Talking, Ended
<1>14. CASE Quit(p)
  BY <1>0, <1>14 DEF Quit, Go, TypeOK, SocketFits, Up, Phases, Starting, Ending,
      Talking, Ended
<1>15. CASE Exited(p)
  BY <1>0, <1>15 DEF Exited, Go, CloseSocket, TypeOK, SocketFits, Up, Phases, Starting,
      Ending, Talking, Ended
<1>16. CASE \E w \in {"none", "op", "tab"} : Start(p, w)
  BY <1>0, <1>16 DEF Start, Go, TypeOK, SocketFits, Up, Phases, Starting, Ending,
      Talking, Ended
<1>17. CASE ShutDown(p)
  BY <1>0, <1>17 DEF ShutDown, Go, MayOverlap, CloseSocket, TypeOK, SocketFits, Up,
      Phases, Starting, Ending, Talking, Ended
<1>18. CASE ExitEarly(p)
  BY <1>0, <1>18 DEF ExitEarly, Go, MayOverlap, TypeOK, SocketFits, Up, Phases,
      Starting, Ending, Talking, Ended
<1>19. CASE Crash(p)
  BY <1>0, <1>19 DEF Crash, Go, CloseSocket, Done, TypeOK, SocketFits, Up, Phases,
      Starting, Ending, Talking, Ended
<1> QED BY <1>1, <1>2, <1>3, <1>4, <1>5, <1>6, <1>7, <1>8, <1>9, <1>10, <1>11, <1>12,
           <1>13, <1>14, <1>15, <1>16, <1>17, <1>18, <1>19
        DEF Step, Environment

(* An invocation that was accepted stays a client until it ends, and the    *)
(* socket that accepted it listens or was closed for good.                  *)
LEMMA ClientStays ==
    ASSUME IInv, NEW p \in Proc, NEW q \in Proc, Step(p) \/ Environment(p)
    PROVE  ClientFits(q)'
<1>0. TypeOK /\ ClientFits(p) /\ ClientFits(q) /\ (\A r \in Proc : SocketFits(r))
  BY DEF IInv, ProcInv
<1>1. CASE Connect(p)
  <2>1. CASE Accepted /\ Enqueue(p)
    <3>1. path \in Proc /\ path # NoProc /\ sock[path] = "listening" /\ sock' = sock
      BY <1>0, <1>1, <2>1, NoProcIsNone DEF Connect, Accepted, TypeOK
    <3>2. srv' = [srv EXCEPT ![p] = path] /\ want' = want
      BY <1>1, <2>1 DEF Connect, Enqueue
    <3>3. \E there \in Talking : pc' = [pc EXCEPT ![p] = there]
      BY <1>0, <1>1, <2>1, NoProcIsNone DEF Connect, Go, Refused, Accepted, Talking
    <3>4. CASE q = p
      BY <1>0, <3>1, <3>2, <3>3, <3>4 DEF TypeOK, ClientFits, SocketFits,
           Up, Phases, Starting, Ending, Talking, Ended
    <3>5. CASE q # p
      BY <1>0, <3>1, <3>2, <3>3, <3>5 DEF TypeOK, ClientFits, SocketFits,
           Up, Phases, Starting, Ending, Talking, Ended
    <3> QED BY <3>4, <3>5
  <2>2. CASE Refused /\ UNCHANGED <<queue, srv>> /\ pc' = [pc EXCEPT ![p] = "bind"]
    BY <1>0, <1>1, <2>2 DEF Connect, TypeOK, ClientFits, SocketFits,
           Up, Phases, Starting, Ending, Talking, Ended
  <2> QED BY <1>1, <2>1, <2>2 DEF Connect, Go
<1>2. CASE Send(p)
  BY <1>0, <1>2 DEF Send, Go, TypeOK, ClientFits, SocketFits, Up, Phases, Starting,
      Ending, Talking, Ended
<1>3. CASE Leave(p)
  BY <1>0, <1>3 DEF Leave, Go, TypeOK, ClientFits, SocketFits, Up, Phases, Starting,
      Ending, Talking, Ended
<1>4. CASE Bind(p)
  <2>1. CASE BindPath(p)
    BY <1>0, <1>4, <2>1 DEF Bind, BindPath, Go, TypeOK, ClientFits, SocketFits,
           Up, Phases, Starting, Ending, Talking, Ended
  <2>2. CASE UNCHANGED sock /\ pc' = [pc EXCEPT ![p] = "probe"]
    BY <1>0, <1>4, <2>2 DEF Bind, TypeOK, ClientFits, SocketFits,
           Up, Phases, Starting, Ending, Talking, Ended
  <2> QED BY <1>4, <2>1, <2>2 DEF Bind, Go
<1>5. CASE Listen(p)
  BY <1>0, <1>5 DEF Listen, Go, TypeOK, ClientFits, SocketFits, Up, Phases, Starting,
      Ending, Talking, Ended
<1>6. CASE Probe(p)
  <2>1. CASE Accepted /\ Enqueue(p)
    <3>1. path \in Proc /\ path # NoProc /\ sock[path] = "listening" /\ sock' = sock
      BY <1>0, <1>6, <2>1, NoProcIsNone DEF Probe, Accepted, TypeOK
    <3>2. srv' = [srv EXCEPT ![p] = path] /\ want' = want
      BY <1>6, <2>1 DEF Probe, Enqueue
    <3>3. \E there \in Talking : pc' = [pc EXCEPT ![p] = there]
      BY <1>0, <1>6, <2>1, NoProcIsNone DEF Probe, Go, Refused, Accepted, Talking
    <3>4. CASE q = p
      BY <1>0, <3>1, <3>2, <3>3, <3>4 DEF TypeOK, ClientFits, SocketFits,
           Up, Phases, Starting, Ending, Talking, Ended
    <3>5. CASE q # p
      BY <1>0, <3>1, <3>2, <3>3, <3>5 DEF TypeOK, ClientFits, SocketFits,
           Up, Phases, Starting, Ending, Talking, Ended
    <3> QED BY <3>4, <3>5
  <2>2. CASE Refused /\ UNCHANGED <<queue, srv>> /\ pc' = [pc EXCEPT ![p] = "unlink"]
    BY <1>0, <1>6, <2>2 DEF Probe, TypeOK, ClientFits, SocketFits,
           Up, Phases, Starting, Ending, Talking, Ended
  <2> QED BY <1>6, <2>1, <2>2 DEF Probe, Go
<1>7. CASE Unlink(p)
  BY <1>0, <1>7 DEF Unlink, Go, TypeOK, ClientFits, SocketFits, Up, Phases, Starting,
      Ending, Talking, Ended
<1>8. CASE Rebind(p)
  <2>1. CASE BindPath(p)
    BY <1>0, <1>8, <2>1 DEF Rebind, BindPath, Go, TypeOK, ClientFits, SocketFits,
           Up, Phases, Starting, Ending, Talking, Ended
  <2>2. CASE UNCHANGED sock /\ pc' = [pc EXCEPT ![p] = "failed"]
    BY <1>0, <1>8, <2>2 DEF Rebind, TypeOK, ClientFits, SocketFits,
           Up, Phases, Starting, Ending, Talking, Ended
  <2> QED BY <1>8, <2>1, <2>2 DEF Rebind, Go
<1>9. CASE InitDone(p)
  BY <1>0, <1>9 DEF InitDone, Go, Handle, TypeOK, ClientFits, SocketFits, Up, Phases,
      Starting, Ending, Talking, Ended
<1>10. CASE Accept(p)
  BY <1>0, <1>10 DEF Accept, Go, TypeOK, ClientFits, SocketFits, Up, Phases, Starting,
      Ending, Talking, Ended
<1>11. CASE ReadOpcode(p)
  BY <1>0, <1>11 DEF ReadOpcode, Go, Handle, Done, TypeOK, ClientFits, SocketFits, Up,
      Phases, Starting, Ending, Talking, Ended
<1>12. CASE ReadName(p)
  BY <1>0, <1>12 DEF ReadName, Go, Handle, Done, TypeOK, ClientFits, SocketFits, Up,
      Phases, Starting, Ending, Talking, Ended
<1>13. CASE ReadEnd(p)
  BY <1>0, <1>13 DEF ReadEnd, Go, Done, TypeOK, ClientFits, SocketFits, Up, Phases,
      Starting, Ending, Talking, Ended
<1>14. CASE Quit(p)
  BY <1>0, <1>14 DEF Quit, Go, TypeOK, ClientFits, SocketFits, Up, Phases, Starting,
      Ending, Talking, Ended
<1>15. CASE Exited(p)
  BY <1>0, <1>15 DEF Exited, Go, CloseSocket, TypeOK, ClientFits, SocketFits, Up,
      Phases, Starting, Ending, Talking, Ended
<1>16. CASE \E w \in {"none", "op", "tab"} : Start(p, w)
  BY <1>0, <1>16 DEF Start, Go, TypeOK, ClientFits, SocketFits, Up, Phases, Starting,
      Ending, Talking, Ended
<1>17. CASE ShutDown(p)
  BY <1>0, <1>17 DEF ShutDown, Go, MayOverlap, CloseSocket, TypeOK, ClientFits,
      SocketFits, Up, Phases, Starting, Ending, Talking, Ended
<1>18. CASE ExitEarly(p)
  BY <1>0, <1>18 DEF ExitEarly, Go, MayOverlap, TypeOK, ClientFits, SocketFits, Up,
      Phases, Starting, Ending, Talking, Ended
<1>19. CASE Crash(p)
  BY <1>0, <1>19 DEF Crash, Go, CloseSocket, Done, TypeOK, ClientFits, SocketFits, Up,
      Phases, Starting, Ending, Talking, Ended
<1> QED BY <1>1, <1>2, <1>3, <1>4, <1>5, <1>6, <1>7, <1>8, <1>9, <1>10, <1>11, <1>12,
           <1>13, <1>14, <1>15, <1>16, <1>17, <1>18, <1>19
        DEF Step, Environment

(* Only a client with a request sends, and it is done with the last part.   *)
LEMMA SentStays ==
    ASSUME IInv, NEW p \in Proc, NEW q \in Proc, Step(p) \/ Environment(p)
    PROVE  SentFits(q)'
<1>0. TypeOK /\ SentFits(p) /\ SentFits(q) /\ ClientFits(p) /\ ClientFits(q)
  BY DEF IInv, ProcInv
<1>1. CASE Connect(p)
  BY <1>0, <1>1 DEF Connect, Go, Accepted, Refused, Enqueue, TypeOK, SentFits,
      ClientFits, Parts, Phases, Starting, Ending, Talking, Ended
<1>2. CASE Send(p)
  <2>1. pc[p] = "send" /\ want' = want /\ srv' = srv /\ srv[p] # NoProc /\ want[p] # "none"
    BY <1>0, <1>2 DEF Send, SentFits, ClientFits, Talking
  <2>2. Parts(p)' = Parts(p) /\ Parts(q)' = Parts(q) /\ sent[p] \in Nat /\ Parts(p) \in {1, 2}
    BY <1>0, <2>1 DEF Parts, TypeOK
  <2>3. sent[p] < Parts(p)
    BY <1>0, <2>1, <2>2 DEF SentFits
  <2>4. CASE q = p
    <3>1. CASE sock[srv[p]] = "listening"
      <4>1. /\ sent'[p] = sent[p] + 1
            /\ pc'[p] = IF sent'[p] = Parts(p) THEN "done" ELSE "send"
        BY <1>0, <1>2, <3>1 DEF Send, Go, TypeOK
      <4> QED BY <2>1, <2>2, <2>3, <2>4, <4>1 DEF SentFits
    <3>2. CASE sock[srv[p]] # "listening"
      <4>1. sent'[p] = sent[p] /\ pc'[p] = "dead"
        BY <1>0, <1>2, <3>2 DEF Send, Go, TypeOK
      <4> QED BY <1>0, <2>1, <2>2, <2>3, <2>4, <4>1 DEF SentFits
    <3> QED BY <3>1, <3>2
  <2>5. CASE q # p
    <3>1. sent'[q] = sent[q] /\ pc'[q] = pc[q]
      BY <1>0, <1>2, <2>5 DEF Send, Go, TypeOK
    <3> QED BY <1>0, <2>1, <2>2, <3>1 DEF SentFits
  <2> QED BY <2>4, <2>5
<1>3. CASE Leave(p)
  BY <1>0, <1>3 DEF Leave, Go, TypeOK, SentFits, ClientFits, Parts, Phases, Starting,
      Ending, Talking, Ended
<1>4. CASE Bind(p)
  BY <1>0, <1>4 DEF Bind, Go, BindPath, TypeOK, SentFits, ClientFits, Parts, Phases,
      Starting, Ending, Talking, Ended
<1>5. CASE Listen(p)
  BY <1>0, <1>5 DEF Listen, Go, TypeOK, SentFits, ClientFits, Parts, Phases, Starting,
      Ending, Talking, Ended
<1>6. CASE Probe(p)
  BY <1>0, <1>6 DEF Probe, Go, Accepted, Refused, Enqueue, TypeOK, SentFits,
      ClientFits, Parts, Phases, Starting, Ending, Talking, Ended
<1>7. CASE Unlink(p)
  BY <1>0, <1>7 DEF Unlink, Go, TypeOK, SentFits, ClientFits, Parts, Phases, Starting,
      Ending, Talking, Ended
<1>8. CASE Rebind(p)
  BY <1>0, <1>8 DEF Rebind, Go, BindPath, TypeOK, SentFits, ClientFits, Parts, Phases,
      Starting, Ending, Talking, Ended
<1>9. CASE InitDone(p)
  BY <1>0, <1>9 DEF InitDone, Go, Handle, TypeOK, SentFits, ClientFits, Parts, Phases,
      Starting, Ending, Talking, Ended
<1>10. CASE Accept(p)
  BY <1>0, <1>10 DEF Accept, Go, TypeOK, SentFits, ClientFits, Parts, Phases, Starting,
      Ending, Talking, Ended
<1>11. CASE ReadOpcode(p)
  BY <1>0, <1>11 DEF ReadOpcode, Go, Handle, Done, TypeOK, SentFits, ClientFits, Parts,
      Phases, Starting, Ending, Talking, Ended
<1>12. CASE ReadName(p)
  BY <1>0, <1>12 DEF ReadName, Go, Handle, Done, TypeOK, SentFits, ClientFits, Parts,
      Phases, Starting, Ending, Talking, Ended
<1>13. CASE ReadEnd(p)
  BY <1>0, <1>13 DEF ReadEnd, Go, Done, TypeOK, SentFits, ClientFits, Parts, Phases,
      Starting, Ending, Talking, Ended
<1>14. CASE Quit(p)
  BY <1>0, <1>14 DEF Quit, Go, TypeOK, SentFits, ClientFits, Parts, Phases, Starting,
      Ending, Talking, Ended
<1>15. CASE Exited(p)
  BY <1>0, <1>15 DEF Exited, Go, CloseSocket, TypeOK, SentFits, ClientFits, Parts,
      Phases, Starting, Ending, Talking, Ended
<1>16. CASE \E w \in {"none", "op", "tab"} : Start(p, w)
  BY <1>0, <1>16 DEF Start, Go, TypeOK, SentFits, ClientFits, Parts, Phases, Starting,
      Ending, Talking, Ended
<1>17. CASE ShutDown(p)
  BY <1>0, <1>17 DEF ShutDown, Go, MayOverlap, CloseSocket, TypeOK, SentFits,
      ClientFits, Parts, Phases, Starting, Ending, Talking, Ended
<1>18. CASE ExitEarly(p)
  BY <1>0, <1>18 DEF ExitEarly, Go, MayOverlap, TypeOK, SentFits, ClientFits, Parts,
      Phases, Starting, Ending, Talking, Ended
<1>19. CASE Crash(p)
  BY <1>0, <1>19 DEF Crash, Go, CloseSocket, Done, TypeOK, SentFits, ClientFits, Parts,
      Phases, Starting, Ending, Talking, Ended
<1> QED BY <1>1, <1>2, <1>3, <1>4, <1>5, <1>6, <1>7, <1>8, <1>9, <1>10, <1>11, <1>12,
           <1>13, <1>14, <1>15, <1>16, <1>17, <1>18, <1>19
        DEF Step, Environment

(* No request is handled twice: its connection is in one place at a time,   *)
(* and leaves it when the request is handled.                               *)
LEMMA HandledStays ==
    ASSUME IInv, NEW p \in Proc, NEW q \in Proc, Step(p) \/ Environment(p)
    PROVE  HandledFits(q)'
<1>0. TypeOK /\ (\A r \in Proc : HandledFits(r) /\ SentFits(r) /\ ClientFits(r) /\ ReadFits(r))
  BY DEF IInv, ProcInv
<1>1. CASE Connect(p)
  BY <1>0, <1>1 DEF Connect, Go, Accepted, Refused, Enqueue, TypeOK, HandledFits,
      SentFits, ClientFits, ReadFits, Waits, Reading, Parts, Phases, Starting, Ending,
      Talking, Ended
<1>2. CASE Send(p)
  BY <1>0, <1>2 DEF Send, Go, TypeOK, HandledFits, SentFits, ClientFits, ReadFits,
      Waits, Reading, Parts, Phases, Starting, Ending, Talking, Ended
<1>3. CASE Leave(p)
  BY <1>0, <1>3 DEF Leave, Go, TypeOK, HandledFits, SentFits, ClientFits, ReadFits,
      Waits, Reading, Parts, Phases, Starting, Ending, Talking, Ended
<1>4. CASE Bind(p)
  BY <1>0, <1>4 DEF Bind, Go, BindPath, TypeOK, HandledFits, SentFits, ClientFits,
      ReadFits, Waits, Reading, Parts, Phases, Starting, Ending, Talking, Ended
<1>5. CASE Listen(p)
  BY <1>0, <1>5 DEF Listen, Go, TypeOK, HandledFits, SentFits, ClientFits, ReadFits,
      Waits, Reading, Parts, Phases, Starting, Ending, Talking, Ended
<1>6. CASE Probe(p)
  BY <1>0, <1>6 DEF Probe, Go, Accepted, Refused, Enqueue, TypeOK, HandledFits,
      SentFits, ClientFits, ReadFits, Waits, Reading, Parts, Phases, Starting, Ending,
      Talking, Ended
<1>7. CASE Unlink(p)
  BY <1>0, <1>7 DEF Unlink, Go, TypeOK, HandledFits, SentFits, ClientFits, ReadFits,
      Waits, Reading, Parts, Phases, Starting, Ending, Talking, Ended
<1>8. CASE Rebind(p)
  BY <1>0, <1>8 DEF Rebind, Go, BindPath, TypeOK, HandledFits, SentFits, ClientFits,
      ReadFits, Waits, Reading, Parts, Phases, Starting, Ending, Talking, Ended
<1>9. CASE InitDone(p)
  BY <1>0, <1>9 DEF InitDone, Go, Handle, TypeOK, HandledFits, SentFits, ClientFits,
      ReadFits, Waits, Reading, Parts, Phases, Starting, Ending, Talking, Ended
<1>10. CASE Accept(p)
  BY <1>0, <1>10 DEF Accept, Go, TypeOK, HandledFits, SentFits, ClientFits, ReadFits,
      Waits, Reading, Parts, Phases, Starting, Ending, Talking, Ended
<1>11. CASE ReadOpcode(p)
  <2>1. cur[p] \in Proc /\ handled[cur[p]] = 0
    BY <1>0, <1>11 DEF ReadOpcode, TypeOK, ReadFits, Reading, Waits
  <2>2. CASE want[cur[p]] = "tab"
    BY <1>0, <1>11, <2>2 DEF ReadOpcode, Go, TypeOK, HandledFits, SentFits, ClientFits,
        Phases, Starting, Ending, Talking, Ended
  <2>3. CASE want[cur[p]] # "tab"
    <3>1. SentFits(cur[p]) /\ sent[cur[p]] \in Nat
      BY <1>0, <2>1 DEF TypeOK
    <3>2. pc[cur[p]] = "done"
      BY <1>11, <2>3, <3>1 DEF ReadOpcode, SentFits, Parts
    <3>3. handled' = [handled EXCEPT ![cur[p]] = 1] /\ pc' = [pc EXCEPT ![p] = "up"]
      BY <1>11, <2>1, <2>3 DEF ReadOpcode, Go, Handle
    <3> QED BY <1>0, <2>1, <3>2, <3>3 DEF TypeOK, HandledFits, SentFits, ClientFits,
                Phases, Starting, Ending, Talking, Ended
  <2> QED BY <2>2, <2>3
<1>12. CASE ReadName(p)
  BY <1>0, <1>12 DEF ReadName, Go, Handle, Done, TypeOK, HandledFits, SentFits,
      ClientFits, ReadFits, Waits, Reading, Parts, Phases, Starting, Ending, Talking,
      Ended
<1>13. CASE ReadEnd(p)
  BY <1>0, <1>13 DEF ReadEnd, Go, Done, TypeOK, HandledFits, SentFits, ClientFits,
      ReadFits, Waits, Reading, Parts, Phases, Starting, Ending, Talking, Ended
<1>14. CASE Quit(p)
  BY <1>0, <1>14 DEF Quit, Go, TypeOK, HandledFits, SentFits, ClientFits, ReadFits,
      Waits, Reading, Parts, Phases, Starting, Ending, Talking, Ended
<1>15. CASE Exited(p)
  BY <1>0, <1>15 DEF Exited, Go, CloseSocket, TypeOK, HandledFits, SentFits,
      ClientFits, ReadFits, Waits, Reading, Parts, Phases, Starting, Ending, Talking,
      Ended
<1>16. CASE \E w \in {"none", "op", "tab"} : Start(p, w)
  BY <1>0, <1>16 DEF Start, Go, TypeOK, HandledFits, SentFits, ClientFits, ReadFits,
      Waits, Reading, Parts, Phases, Starting, Ending, Talking, Ended
<1>17. CASE ShutDown(p)
  BY <1>0, <1>17 DEF ShutDown, Go, MayOverlap, CloseSocket, TypeOK, HandledFits,
      SentFits, ClientFits, ReadFits, Waits, Reading, Parts, Phases, Starting, Ending,
      Talking, Ended
<1>18. CASE ExitEarly(p)
  BY <1>0, <1>18 DEF ExitEarly, Go, MayOverlap, TypeOK, HandledFits, SentFits,
      ClientFits, ReadFits, Waits, Reading, Parts, Phases, Starting, Ending, Talking,
      Ended
<1>19. CASE Crash(p)
  BY <1>0, <1>19 DEF Crash, Go, CloseSocket, Done, TypeOK, HandledFits, SentFits,
      ClientFits, ReadFits, Waits, Reading, Parts, Phases, Starting, Ending, Talking,
      Ended
<1> QED BY <1>1, <1>2, <1>3, <1>4, <1>5, <1>6, <1>7, <1>8, <1>9, <1>10, <1>11, <1>12,
           <1>13, <1>14, <1>15, <1>16, <1>17, <1>18, <1>19
        DEF Step, Environment

(* What a daemon reads was sent to it and not handled yet.                  *)
LEMMA ReadStays ==
    ASSUME IInv, NEW p \in Proc, NEW q \in Proc, Step(p) \/ Environment(p)
    PROVE  ReadFits(q)'
<1>0. TypeOK /\ (\A r \in Proc : ReadFits(r) /\ QueueFits(r) /\ HandledFits(r) /\ ClientFits(r))
  BY DEF IInv, ProcInv
<1>1. CASE Connect(p)
  <2>1. CASE Accepted /\ Enqueue(p) /\ pc'[p] \in {"send", "leave"}
    <3>0. srv[p] = NoProc
      BY <1>0, <1>1 DEF Connect, ClientFits, TypeOK, Phases, Starting, Ending, Talking,
          Ended
    <3>1. cur[q] # p
      BY <1>0, <3>0, Unconnected
    <3>2. /\ pc'[q] \in Reading <=> pc[q] \in Reading
          /\ pc'[q] = "name" <=> pc[q] = "name"
      BY <1>0, <1>1, <2>1 DEF Connect, Go, TypeOK, Reading
    <3>3. \A r \in Proc \ {p} : srv'[r] = srv[r]
      BY <1>0, <2>1 DEF Enqueue, TypeOK
    <3> QED BY <1>0, <1>1, <3>1, <3>2, <3>3 DEF Connect, ReadFits, Waits, TypeOK
  <2>2. CASE UNCHANGED <<queue, srv>> /\ pc' = [pc EXCEPT ![p] = "bind"]
    BY <1>0, <1>1, <2>2 DEF Connect, TypeOK, ReadFits, ClientFits, Waits, Reading,
        Phases, Starting, Ending, Talking, Ended
  <2> QED BY <1>0, <1>1, <2>1, <2>2 DEF Connect, Go, TypeOK
<1>2. CASE Send(p)
  BY <1>0, <1>2 DEF Send, Go, TypeOK, ReadFits, HandledFits, ClientFits, QueueFits,
      Waits, Reading, Phases, Starting, Ending, Talking, Ended
<1>3. CASE Leave(p)
  BY <1>0, <1>3 DEF Leave, Go, TypeOK, ReadFits, HandledFits, ClientFits, QueueFits,
      Waits, Reading, Phases, Starting, Ending, Talking, Ended
<1>4. CASE Bind(p)
  BY <1>0, <1>4 DEF Bind, Go, BindPath, TypeOK, ReadFits, HandledFits, ClientFits,
      QueueFits, Waits, Reading, Phases, Starting, Ending, Talking, Ended
<1>5. CASE Listen(p)
  BY <1>0, <1>5 DEF Listen, Go, TypeOK, ReadFits, HandledFits, ClientFits, QueueFits,
      Waits, Reading, Phases, Starting, Ending, Talking, Ended
<1>6. CASE Probe(p)
  <2>1. CASE Accepted /\ Enqueue(p) /\ pc'[p] \in {"leave"}
    <3>0. srv[p] = NoProc
      BY <1>0, <1>6 DEF Probe, ClientFits, TypeOK, Phases, Starting, Ending, Talking, Ended
    <3>1. cur[q] # p
      BY <1>0, <3>0, Unconnected
    <3>2. /\ pc'[q] \in Reading <=> pc[q] \in Reading
          /\ pc'[q] = "name" <=> pc[q] = "name"
      BY <1>0, <1>6, <2>1 DEF Probe, Go, TypeOK, Reading
    <3>3. \A r \in Proc \ {p} : srv'[r] = srv[r]
      BY <1>0, <2>1 DEF Enqueue, TypeOK
    <3> QED BY <1>0, <1>6, <3>1, <3>2, <3>3 DEF Probe, ReadFits, Waits, TypeOK
  <2>2. CASE UNCHANGED <<queue, srv>> /\ pc' = [pc EXCEPT ![p] = "unlink"]
    BY <1>0, <1>6, <2>2 DEF Probe, TypeOK, ReadFits, ClientFits, Waits, Reading,
        Phases, Starting, Ending, Talking, Ended
  <2> QED BY <1>0, <1>6, <2>1, <2>2 DEF Probe, Go, TypeOK
<1>7. CASE Unlink(p)
  BY <1>0, <1>7 DEF Unlink, Go, TypeOK, ReadFits, HandledFits, ClientFits, QueueFits,
      Waits, Reading, Phases, Starting, Ending, Talking, Ended
<1>8. CASE Rebind(p)
  BY <1>0, <1>8 DEF Rebind, Go, BindPath, TypeOK, ReadFits, HandledFits, ClientFits,
      QueueFits, Waits, Reading, Phases, Starting, Ending, Talking, Ended
<1>9. CASE InitDone(p)
  <2>1. handled' = handled \/ handled' = [handled EXCEPT ![p] = handled[p] + 1]
    BY <1>9 DEF InitDone, Handle
  <2>0. srv[p] = NoProc
    BY <1>0, <1>9 DEF InitDone, ClientFits, TypeOK, Phases, Starting, Ending, Talking, Ended
  <2>2. cur[q] # p
    BY <1>0, <2>0, Unconnected
  <2>3. \A r \in Proc \ {p} : handled'[r] = handled[r]
    BY <1>0, <2>1 DEF TypeOK
  <2>4. /\ pc'[q] \in Reading <=> pc[q] \in Reading
        /\ pc'[q] = "name" <=> pc[q] = "name"
    BY <1>0, <1>9 DEF InitDone, Go, TypeOK, Reading
  <2> QED BY <1>0, <1>9, <2>2, <2>3, <2>4 DEF InitDone, ReadFits, Waits, TypeOK
<1>10. CASE Accept(p)
  <2>1. /\ Head(queue[p]) \in Proc /\ Head(queue[p]) = queue[p][1] /\ 1 \in 1..Len(queue[p])
        /\ Head(queue[p]) # NoProc
    <3>1. queue[p] \in Seq(Proc) /\ queue[p] # <<>>
      BY <1>0, <1>10 DEF Accept, TypeOK
    <3>2. Head(queue[p]) \in Proc /\ Head(queue[p]) = queue[p][1] /\ Len(queue[p]) \in Nat \ {0}
      BY <3>1
    <3> QED BY <3>2, NoProcIsNone
  <2>2. Waits(p, Head(queue[p]))
    BY <1>0, <2>1 DEF QueueFits
  <2>3. CASE q = p
    BY <1>0, <1>10, <2>1, <2>2, <2>3 DEF Accept, Go, ReadFits, Waits, Reading, TypeOK
  <2>4. CASE q # p
    <3>1. pc'[q] = pc[q] /\ cur'[q] = cur[q] /\ UNCHANGED <<want, srv, handled>>
      BY <1>0, <1>10, <2>4 DEF Accept, Go, TypeOK
    <3> QED BY <1>0, <3>1 DEF ReadFits, Waits
  <2> QED BY <2>3, <2>4
<1>11. CASE ReadOpcode(p)
  BY <1>0, <1>11 DEF ReadOpcode, Go, Handle, Done, TypeOK, ReadFits, HandledFits,
      ClientFits, QueueFits, Waits, Reading, Phases, Starting, Ending, Talking, Ended
<1>12. CASE ReadName(p)
  BY <1>0, <1>12 DEF ReadName, Go, Handle, Done, TypeOK, ReadFits, HandledFits,
      ClientFits, QueueFits, Waits, Reading, Phases, Starting, Ending, Talking, Ended
<1>13. CASE ReadEnd(p)
  BY <1>0, <1>13 DEF ReadEnd, Go, Done, TypeOK, ReadFits, HandledFits, ClientFits,
      QueueFits, Waits, Reading, Phases, Starting, Ending, Talking, Ended
<1>14. CASE Quit(p)
  BY <1>0, <1>14 DEF Quit, Go, TypeOK, ReadFits, HandledFits, ClientFits, QueueFits,
      Waits, Reading, Phases, Starting, Ending, Talking, Ended
<1>15. CASE Exited(p)
  BY <1>0, <1>15 DEF Exited, Go, CloseSocket, TypeOK, ReadFits, HandledFits,
      ClientFits, QueueFits, Waits, Reading, Phases, Starting, Ending, Talking, Ended
<1>16. CASE \E w \in {"none", "op", "tab"} : Start(p, w)
  BY <1>0, <1>16 DEF Start, Go, TypeOK, ReadFits, HandledFits, ClientFits, QueueFits,
      Waits, Reading, Phases, Starting, Ending, Talking, Ended
<1>17. CASE ShutDown(p)
  BY <1>0, <1>17 DEF ShutDown, Go, MayOverlap, CloseSocket, TypeOK, ReadFits,
      HandledFits, ClientFits, QueueFits, Waits, Reading, Phases, Starting, Ending,
      Talking, Ended
<1>18. CASE ExitEarly(p)
  BY <1>0, <1>18 DEF ExitEarly, Go, MayOverlap, TypeOK, ReadFits, HandledFits,
      ClientFits, QueueFits, Waits, Reading, Phases, Starting, Ending, Talking, Ended
<1>19. CASE Crash(p)
  BY <1>0, <1>19 DEF Crash, Go, CloseSocket, Done, TypeOK, ReadFits, HandledFits,
      ClientFits, QueueFits, Waits, Reading, Phases, Starting, Ending, Talking, Ended
<1> QED BY <1>1, <1>2, <1>3, <1>4, <1>5, <1>6, <1>7, <1>8, <1>9, <1>10, <1>11, <1>12,
           <1>13, <1>14, <1>15, <1>16, <1>17, <1>18, <1>19
        DEF Step, Environment

(* A connection that is accepted was nowhere before. *)
LEMMA Enqueued ==
    ASSUME TypeOK, NEW p \in Proc, NEW q \in Proc, \A r \in Proc : ReadFits(r) /\ QueueFits(r),
           ClientFits(p), HandledFits(p), pc[p] \in Starting, Accepted, Enqueue(p), UNCHANGED <<cur, handled>>
    PROVE  QueueFits(q)'
<1>1. srv[p] = NoProc /\ handled[p] = 0 /\ path \in Proc /\ queue[path] \in Seq(Proc)
  BY DEF ClientFits, HandledFits, Accepted, TypeOK, Starting, Talking, Ended
<1>2. \A i \in 1..Len(queue[q]) : queue[q][i] \in Proc \ {p}
  BY <1>1, Unconnected, Queued
<1>2a. cur[q] # p
  BY <1>1, Unconnected
<1>3. srv'[p] = path /\ \A r \in Proc \ {p} : srv'[r] = srv[r]
  BY <1>1 DEF Enqueue, TypeOK
<1>4. CASE q # path
  <2>1. queue'[q] = queue[q]
    BY <1>4 DEF Enqueue, TypeOK
  <2> QED BY <1>2, <1>3, <2>1 DEF QueueFits, Waits
<1>5. CASE q = path
  <2>1. queue'[q] = Append(queue[q], p) /\ queue[q] \in Seq(Proc) /\ Len(queue[q]) \in Nat
    BY <1>1, <1>5 DEF Enqueue, TypeOK
  <2>2. /\ Len(queue'[q]) = Len(queue[q]) + 1 /\ queue'[q][Len(queue[q]) + 1] = p
        /\ \A i \in 1..Len(queue[q]) : queue'[q][i] = queue[q][i]
    BY <2>1
  <2>3. ASSUME NEW i \in 1..Len(queue'[q])
        PROVE  i \in 1..Len(queue[q]) \/ i = Len(queue[q]) + 1
    BY <2>1, <2>2
  <2>4. ASSUME NEW i \in 1..Len(queue'[q])
        PROVE  srv'[queue'[q][i]] = q /\ handled'[queue'[q][i]] = 0 /\ queue'[q][i] # cur'[q]
    <3>1. CASE i \in 1..Len(queue[q])
      BY <1>2, <1>3, <2>2, <3>1 DEF QueueFits, Waits
    <3>2. CASE i = Len(queue[q]) + 1
      BY <1>1, <1>2a, <1>3, <1>5, <2>2, <3>2
    <3> QED BY <2>3, <3>1, <3>2
  <2>5. ASSUME NEW i \in 1..Len(queue'[q]), NEW j \in 1..Len(queue'[q]), queue'[q][i] = queue'[q][j]
        PROVE  i = j
    <3>1. CASE i \in 1..Len(queue[q]) /\ j \in 1..Len(queue[q])
      BY <2>2, <2>5, <3>1 DEF QueueFits
    <3>2. CASE i \in 1..Len(queue[q]) /\ j = Len(queue[q]) + 1
      BY <1>2, <2>2, <2>5, <3>2
    <3>3. CASE i = Len(queue[q]) + 1 /\ j \in 1..Len(queue[q])
      BY <1>2, <2>2, <2>5, <3>3
    <3> QED BY <2>3, <3>1, <3>2, <3>3
  <2> QED BY <2>4, <2>5 DEF QueueFits, Waits
<1> QED BY <1>4, <1>5

(* What waits for a daemon was sent to it, waits once and is not handled.   *)
LEMMA QueueStays ==
    ASSUME IInv, NEW p \in Proc, NEW q \in Proc, Step(p) \/ Environment(p)
    PROVE  QueueFits(q)'
<1>0. TypeOK /\ (\A r \in Proc : ReadFits(r) /\ QueueFits(r) /\ HandledFits(r) /\ ClientFits(r))
  BY DEF IInv, ProcInv
<1>1. CASE Connect(p)
  <2>1. CASE UNCHANGED <<queue, srv>>
    BY <1>0, <1>1, <2>1 DEF Connect, QueueFits, Waits
  <2>2. CASE Accepted /\ Enqueue(p)
    BY <1>0, <1>1, <2>2, Enqueued DEF Connect, Phases, Starting, Ending, Talking, Ended
  <2> QED BY <1>1, <2>1, <2>2 DEF Connect
<1>2. CASE Send(p)
  <2>1. UNCHANGED <<queue, cur, srv, handled>>
    BY <1>2 DEF Send
  <2> QED BY <1>0, <2>1 DEF QueueFits, Waits
<1>3. CASE Leave(p)
  <2>1. UNCHANGED <<queue, cur, srv, handled>>
    BY <1>3 DEF Leave
  <2> QED BY <1>0, <2>1 DEF QueueFits, Waits
<1>4. CASE Bind(p)
  <2>1. UNCHANGED <<queue, cur, srv, handled>>
    BY <1>4 DEF Bind
  <2> QED BY <1>0, <2>1 DEF QueueFits, Waits
<1>5. CASE Listen(p)
  <2>1. UNCHANGED <<queue, cur, srv, handled>>
    BY <1>5 DEF Listen
  <2> QED BY <1>0, <2>1 DEF QueueFits, Waits
<1>6. CASE Probe(p)
  <2>1. CASE UNCHANGED <<queue, srv>>
    BY <1>0, <1>6, <2>1 DEF Probe, QueueFits, Waits
  <2>2. CASE Accepted /\ Enqueue(p)
    BY <1>0, <1>6, <2>2, Enqueued DEF Probe, Phases, Starting, Ending, Talking, Ended
  <2> QED BY <1>6, <2>1, <2>2 DEF Probe
<1>7. CASE Unlink(p)
  <2>1. UNCHANGED <<queue, cur, srv, handled>>
    BY <1>7 DEF Unlink
  <2> QED BY <1>0, <2>1 DEF QueueFits, Waits
<1>8. CASE Rebind(p)
  <2>1. UNCHANGED <<queue, cur, srv, handled>>
    BY <1>8 DEF Rebind
  <2> QED BY <1>0, <2>1 DEF QueueFits, Waits
<1>9. CASE InitDone(p)
  <2>1. handled' = handled \/ handled' = [handled EXCEPT ![p] = handled[p] + 1]
    BY <1>9 DEF InitDone, Handle
  <2>2. UNCHANGED <<queue, srv>> /\ cur'[q] \in {cur[q], NoProc}
    BY <1>0, <1>9 DEF InitDone, Done, TypeOK
  <2>a. srv[p] = NoProc
    BY <1>0, <1>9 DEF InitDone, ClientFits, TypeOK, Phases, Starting, Ending, Talking, Ended
  <2>3. \A i \in 1..Len(queue[q]) : queue[q][i] # p
    BY <1>0, <2>a, Unconnected
  <2>4. \A i \in 1..Len(queue[q]) : queue[q][i] \in Proc /\ queue[q][i] # p
    BY <1>0, <2>3, Queued
  <2>5. \A r \in Proc : r # p => handled'[r] = handled[r]
    BY <1>0, <2>1 DEF TypeOK
  <2> QED BY <1>0, <2>2, <2>4, <2>5, NoProcIsNone DEF QueueFits, Waits
<1>10. CASE Accept(p)
  <2>1. UNCHANGED <<srv, handled>>
    BY <1>10 DEF Accept
  <2>2. CASE q = p
    <3>1. /\ queue[p] \in Seq(Proc) /\ queue[p] # <<>>
          /\ queue'[p] = Tail(queue[p]) /\ cur'[p] = Head(queue[p])
      BY <1>0, <1>10 DEF Accept, TypeOK
    <3>2. /\ Len(queue[p]) \in Nat /\ Len(queue[p]) # 0
          /\ Len(queue'[p]) = Len(queue[p]) - 1
      BY <3>1
    <3>3. cur'[p] = queue[p][1] /\ 1 \in 1..Len(queue[p])
      BY <3>1, <3>2
    <3>4. ASSUME NEW i \in 1..Len(queue'[p])
          PROVE  queue'[p][i] = queue[p][i + 1] /\ i + 1 \in 1..Len(queue[p])
      BY <3>1, <3>2
    <3>5. QueueFits(p)
      BY <1>0
    <3>6. ASSUME NEW i \in 1..Len(queue[p])
          PROVE  srv'[queue[p][i]] = p /\ handled'[queue[p][i]] = 0
      BY <2>1, <3>5 DEF QueueFits, Waits
    <3>7. ASSUME NEW i \in 1..Len(queue[p]), NEW j \in 1..Len(queue[p]), queue[p][i] = queue[p][j]
          PROVE  i = j
      BY <3>5, <3>7 DEF QueueFits
    <3>8. ASSUME NEW i \in 1..Len(queue'[p])
          PROVE  /\ srv'[queue'[p][i]] = p /\ handled'[queue'[p][i]] = 0
                 /\ queue'[p][i] # cur'[p]
      <4>1. queue'[p][i] = queue[p][i + 1] /\ i + 1 \in 1..Len(queue[p])
        BY <3>4
      <4>2. i + 1 # 1
        OBVIOUS
      <4>3. queue[p][i + 1] # queue[p][1]
        BY <3>3, <3>7, <4>1, <4>2
      <4> QED BY <3>3, <3>6, <4>1, <4>3
    <3>9. ASSUME NEW i \in 1..Len(queue'[p]), NEW j \in 1..Len(queue'[p]), queue'[p][i] = queue'[p][j]
          PROVE  i = j
      <4>1. i + 1 = j + 1
        BY <3>4, <3>7, <3>9
      <4> QED BY <4>1
    <3>10. QueueFits(p)'
      BY <3>8, <3>9 DEF QueueFits, Waits
    <3> QED BY <2>2, <3>10
  <2>3. CASE q # p
    <3>1. queue'[q] = queue[q] /\ cur'[q] = cur[q]
      BY <1>0, <1>10, <2>3 DEF Accept, TypeOK
    <3> QED BY <1>0, <2>1, <3>1 DEF QueueFits, Waits
  <2> QED BY <2>2, <2>3
<1>11. CASE ReadOpcode(p)
  <2>1. handled' = handled \/ handled' = [handled EXCEPT ![cur[p]] = handled[cur[p]] + 1]
    BY <1>11 DEF ReadOpcode, Handle
  <2>2. UNCHANGED <<queue, srv>> /\ cur'[q] \in {cur[q], NoProc}
    BY <1>0, <1>11 DEF ReadOpcode, Done, TypeOK
  <2>a. srv[cur[p]] = p
    BY <1>0, <1>11 DEF ReadOpcode, ReadFits, Waits, Reading
  <2>3. \A i \in 1..Len(queue[q]) : queue[q][i] # cur[p]
    BY <1>0, <2>a DEF QueueFits, Waits
  <2>4. \A i \in 1..Len(queue[q]) : queue[q][i] \in Proc /\ queue[q][i] # cur[p]
    BY <1>0, <2>3, Queued
  <2>5. \A r \in Proc : r # cur[p] => handled'[r] = handled[r]
    BY <1>0, <2>1 DEF TypeOK
  <2> QED BY <1>0, <2>2, <2>4, <2>5, NoProcIsNone DEF QueueFits, Waits
<1>12. CASE ReadName(p)
  <2>1. handled' = handled \/ handled' = [handled EXCEPT ![cur[p]] = handled[cur[p]] + 1]
    BY <1>12 DEF ReadName, Handle
  <2>2. UNCHANGED <<queue, srv>> /\ cur'[q] \in {cur[q], NoProc}
    BY <1>0, <1>12 DEF ReadName, Done, TypeOK
  <2>a. srv[cur[p]] = p
    BY <1>0, <1>12 DEF ReadName, ReadFits, Waits, Reading
  <2>3. \A i \in 1..Len(queue[q]) : queue[q][i] # cur[p]
    BY <1>0, <2>a DEF QueueFits, Waits
  <2>4. \A i \in 1..Len(queue[q]) : queue[q][i] \in Proc /\ queue[q][i] # cur[p]
    BY <1>0, <2>3, Queued
  <2>5. \A r \in Proc : r # cur[p] => handled'[r] = handled[r]
    BY <1>0, <2>1 DEF TypeOK
  <2> QED BY <1>0, <2>2, <2>4, <2>5, NoProcIsNone DEF QueueFits, Waits
<1>13. CASE ReadEnd(p)
  <2>1. UNCHANGED <<queue, srv, handled>> /\ cur'[q] \in {cur[q], NoProc}
    BY <1>0, <1>13 DEF ReadEnd, Done, TypeOK
  <2>2. \A i \in 1..Len(queue[q]) : queue[q][i] \in Proc
    BY <1>0 DEF TypeOK
  <2> QED BY <1>0, <2>1, <2>2, NoProcIsNone DEF QueueFits, Waits
<1>14. CASE Quit(p)
  <2>1. UNCHANGED <<queue, cur, srv, handled>>
    BY <1>14 DEF Quit
  <2> QED BY <1>0, <2>1 DEF QueueFits, Waits
<1>15. CASE Exited(p)
  <2>1. UNCHANGED <<srv, handled>> /\ cur'[q] \in {cur[q], NoProc}
    BY <1>0, <1>15 DEF Exited, Done, TypeOK
  <2>2. queue'[q] = queue[q] \/ queue'[q] = <<>>
    BY <1>0, <1>15 DEF Exited, CloseSocket, TypeOK
  <2>3. \A i \in 1..Len(queue[q]) : queue[q][i] \in Proc
    BY <1>0 DEF TypeOK
  <2> QED BY <1>0, <2>1, <2>2, <2>3, NoProcIsNone DEF QueueFits, Waits
<1>16. CASE \E w \in {"none", "op", "tab"} : Start(p, w)
  <2>1. UNCHANGED <<queue, cur, srv, handled>>
    BY <1>16 DEF Start
  <2> QED BY <1>0, <2>1 DEF QueueFits, Waits
<1>17. CASE ShutDown(p)
  <2>1. UNCHANGED <<srv, handled>> /\ cur'[q] \in {cur[q], NoProc}
    BY <1>0, <1>17 DEF ShutDown, Done, TypeOK
  <2>2. queue'[q] = queue[q] \/ queue'[q] = <<>>
    BY <1>0, <1>17 DEF ShutDown, CloseSocket, TypeOK
  <2>3. \A i \in 1..Len(queue[q]) : queue[q][i] \in Proc
    BY <1>0 DEF TypeOK
  <2> QED BY <1>0, <2>1, <2>2, <2>3, NoProcIsNone DEF QueueFits, Waits
<1>18. CASE ExitEarly(p)
  <2>1. UNCHANGED <<queue, cur, srv, handled>>
    BY <1>18 DEF ExitEarly
  <2> QED BY <1>0, <2>1 DEF QueueFits, Waits
<1>19. CASE Crash(p)
  <2>1. UNCHANGED <<srv, handled>> /\ cur'[q] \in {cur[q], NoProc}
    BY <1>0, <1>19 DEF Crash, Done, TypeOK
  <2>2. queue'[q] = queue[q] \/ queue'[q] = <<>>
    BY <1>0, <1>19 DEF Crash, CloseSocket, TypeOK
  <2>3. \A i \in 1..Len(queue[q]) : queue[q][i] \in Proc
    BY <1>0 DEF TypeOK
  <2> QED BY <1>0, <2>1, <2>2, <2>3, NoProcIsNone DEF QueueFits, Waits
<1> QED BY <1>1, <1>2, <1>3, <1>4, <1>5, <1>6, <1>7, <1>8, <1>9, <1>10, <1>11, <1>12,
           <1>13, <1>14, <1>15, <1>16, <1>17, <1>18, <1>19
        DEF Step, Environment

(* In a session whose starts and ends do not overlap, a process that found   *)
(* no daemon stays the only one without a listening socket, and the path    *)
(* goes to it alone.                                                        *)
LEMMA AloneStays ==
    ASSUME IInv, NEW p \in Proc, NEW q \in Proc, NEW r \in Proc, serial, Step(p) \/ Environment(p)
    PROVE  (OneBusy(q, r) /\ NoneUp(q, r) /\ HasPath(q))'
<1>0. TypeOK /\ (\A a, b \in Proc : OneBusy(a, b) /\ NoneUp(a, b) /\ HasPath(a)) /\ (\A a \in Proc : SocketFits(a))
  BY DEF IInv, ProcInv, Alone
<1>1. CASE Connect(p)
  <2>1. CASE \E there \in {"send", "leave"} : pc' = [pc EXCEPT ![p] = there]
    BY <1>0, <1>1, <2>1 DEF Connect, TypeOK, OneBusy, NoneUp, HasPath, Busy, Up,
        Phases, Starting, Ending, Talking, Ended
  <2>2. CASE Refused /\ pc' = [pc EXCEPT ![p] = "bind"]
    BY <1>0, <1>1, <2>2, NoProcIsNone DEF Connect, Refused, SocketFits, TypeOK,
        OneBusy, NoneUp, HasPath, Busy, Up, Phases, Starting, Ending, Talking, Ended
  <2> QED BY <1>1, <2>1, <2>2 DEF Connect, Go
<1>2. CASE Send(p)
  <2>1. \E there \in {"send", "done", "dead"} : pc' = [pc EXCEPT ![p] = there]
    BY <1>2 DEF Send, Go
  <2>2. path' = path /\ serial' = serial
    BY <1>2 DEF Send
  <2>3. /\ pc[p] = "send" /\ pc'[p] \notin Busy \cup Up
        /\ \A a \in Proc \ {p} : pc'[a] = pc[a]
    BY <1>0, <1>2, <2>1 DEF Send, TypeOK, Busy, Up, Starting, Ending
  <2> QED BY <1>0, <2>2, <2>3 DEF OneBusy, NoneUp, HasPath, Busy, Up, Starting, Ending
<1>3. CASE Leave(p)
  BY <1>0, <1>3 DEF Leave, Go, TypeOK, OneBusy, NoneUp, HasPath, Busy, Up, MayOverlap,
      Undisturbed, Phases, Starting, Ending, Talking, Ended
<1>4. CASE Bind(p)
  <2>1. CASE BindPath(p)
    BY <1>0, <1>4, <2>1 DEF Bind, BindPath, Go, TypeOK, OneBusy, NoneUp, HasPath, Busy,
        Up, Phases, Starting, Ending, Talking, Ended
  <2>2. CASE path' = path /\ pc' = [pc EXCEPT ![p] = "probe"]
    BY <1>0, <1>4, <2>2 DEF Bind, TypeOK, OneBusy, NoneUp, HasPath, Busy, Up, Phases,
        Starting, Ending, Talking, Ended
  <2> QED BY <1>4, <2>1, <2>2 DEF Bind, Go
<1>5. CASE Listen(p)
  BY <1>0, <1>5 DEF Listen, Go, TypeOK, OneBusy, NoneUp, HasPath, Busy, Up, MayOverlap,
      Undisturbed, Phases, Starting, Ending, Talking, Ended
<1>6. CASE Probe(p)
  <2>1. CASE \E there \in {"leave"} : pc' = [pc EXCEPT ![p] = there]
    BY <1>0, <1>6, <2>1 DEF Probe, TypeOK, OneBusy, NoneUp, HasPath, Busy, Up, Phases,
        Starting, Ending, Talking, Ended
  <2>2. CASE Refused /\ pc' = [pc EXCEPT ![p] = "unlink"]
    BY <1>0, <1>6, <2>2, NoProcIsNone DEF Probe, Refused, SocketFits, TypeOK, OneBusy,
        NoneUp, HasPath, Busy, Up, Phases, Starting, Ending, Talking, Ended
  <2> QED BY <1>6, <2>1, <2>2 DEF Probe, Go
<1>7. CASE Unlink(p)
  BY <1>0, <1>7 DEF Unlink, Go, TypeOK, OneBusy, NoneUp, HasPath, Busy, Up, MayOverlap,
      Undisturbed, Phases, Starting, Ending, Talking, Ended
<1>8. CASE Rebind(p)
  <2>1. CASE BindPath(p)
    BY <1>0, <1>8, <2>1 DEF Rebind, BindPath, Go, TypeOK, OneBusy, NoneUp, HasPath,
        Busy, Up, Phases, Starting, Ending, Talking, Ended
  <2>2. CASE path' = path /\ pc' = [pc EXCEPT ![p] = "failed"]
    BY <1>0, <1>8, <2>2 DEF Rebind, TypeOK, OneBusy, NoneUp, HasPath, Busy, Up, Phases,
        Starting, Ending, Talking, Ended
  <2> QED BY <1>8, <2>1, <2>2 DEF Rebind, Go
<1>9. CASE InitDone(p)
  BY <1>0, <1>9 DEF InitDone, Go, Handle, TypeOK, OneBusy, NoneUp, HasPath, Busy, Up,
      MayOverlap, Undisturbed, Phases, Starting, Ending, Talking, Ended
<1>10. CASE Accept(p)
  <2>1. pc[p] = "up" /\ pc' = [pc EXCEPT ![p] = "recv"] /\ path' = path
    BY <1>10 DEF Accept, Go
  <2>2. pc'[p] = "recv" /\ \A a \in Proc \ {p} : pc'[a] = pc[a]
    BY <1>0, <2>1 DEF TypeOK
  <2> QED BY <1>0, <2>1, <2>2 DEF OneBusy, NoneUp, HasPath, Busy, Up, Starting, Ending
<1>11. CASE ReadOpcode(p)
  <2>1. \E there \in {"up", "name"} : pc' = [pc EXCEPT ![p] = there]
    BY <1>11 DEF ReadOpcode, Go
  <2>2. path' = path /\ serial' = serial
    BY <1>11 DEF ReadOpcode
  <2> QED BY <1>0, <1>11, <2>1, <2>2 DEF ReadOpcode, TypeOK, OneBusy, NoneUp, HasPath,
              Busy, Up, Phases, Starting, Ending, Talking, Ended
<1>12. CASE ReadName(p)
  BY <1>0, <1>12 DEF ReadName, Go, Handle, Done, TypeOK, OneBusy, NoneUp, HasPath,
      Busy, Up, MayOverlap, Undisturbed, Phases, Starting, Ending, Talking, Ended
<1>13. CASE ReadEnd(p)
  BY <1>0, <1>13 DEF ReadEnd, Go, Done, TypeOK, OneBusy, NoneUp, HasPath, Busy, Up,
      MayOverlap, Undisturbed, Phases, Starting, Ending, Talking, Ended
<1>14. CASE Quit(p)
  BY <1>0, <1>14 DEF Quit, Go, TypeOK, OneBusy, NoneUp, HasPath, Busy, Up, MayOverlap,
      Undisturbed, Phases, Starting, Ending, Talking, Ended
<1>15. CASE Exited(p)
  BY <1>0, <1>15 DEF Exited, Go, CloseSocket, TypeOK, OneBusy, NoneUp, HasPath, Busy,
      Up, MayOverlap, Undisturbed, Phases, Starting, Ending, Talking, Ended
<1>16. CASE \E w \in {"none", "op", "tab"} : Start(p, w)
  BY <1>0, <1>16 DEF Start, Go, TypeOK, OneBusy, NoneUp, HasPath, Busy, Up, MayOverlap,
      Undisturbed, Phases, Starting, Ending, Talking, Ended
<1>17. CASE ShutDown(p)
  BY <1>0, <1>17 DEF ShutDown, Go, MayOverlap, CloseSocket, TypeOK, OneBusy, NoneUp,
      HasPath, Busy, Up, MayOverlap, Undisturbed, Phases, Starting, Ending, Talking,
      Ended
<1>18. CASE ExitEarly(p)
  BY <1>0, <1>18 DEF ExitEarly, Go, MayOverlap, TypeOK, OneBusy, NoneUp, HasPath, Busy,
      Up, MayOverlap, Undisturbed, Phases, Starting, Ending, Talking, Ended
<1>19. CASE Crash(p)
  BY <1>0, <1>19 DEF Crash, Go, CloseSocket, Done, TypeOK, OneBusy, NoneUp, HasPath,
      Busy, Up, MayOverlap, Undisturbed, Phases, Starting, Ending, Talking, Ended
<1> QED BY <1>1, <1>2, <1>3, <1>4, <1>5, <1>6, <1>7, <1>8, <1>9, <1>10, <1>11, <1>12,
           <1>13, <1>14, <1>15, <1>16, <1>17, <1>18, <1>19
        DEF Step, Environment

(* The invariant is kept by every step. *)
LEMMA StepKeeps ==
    ASSUME IInv, NEW p \in Proc, Step(p) \/ Environment(p)
    PROVE  IInv'
<1>1. TypeOK'
  BY TypeStays
<1>2. ASSUME NEW q \in Proc PROVE ProcInv(q)'
  BY SocketStays, ClientStays, SentStays, HandledStays, ReadStays, QueueStays DEF ProcInv
<1>3. serial' = serial
  BY DEF Step, Environment, Connect, Send, Leave, Bind, Listen, Probe, Unlink, Rebind, InitDone, Accept,
         ReadOpcode, ReadName, ReadEnd, Quit, Exited, Start, ShutDown, ExitEarly, Crash
<1>4. Alone'
  BY <1>3, AloneStays DEF Alone
<1> QED BY <1>1, <1>2, <1>4 DEF IInv

(* It holds at the start: nothing was started.                              *)
LEMMA InitHolds == ASSUME Init PROVE IInv
<1>1. TypeOK
  BY DEF Init, TypeOK, Phases
<1>2. ASSUME NEW p \in Proc PROVE ProcInv(p)
  BY <1>1 DEF Init, ProcInv, SocketFits, ClientFits, SentFits, HandledFits, ReadFits,
      QueueFits, Waits,
          Up, Reading, Talking, Ended, Starting, Parts
<1>3. Alone
  BY DEF Init, Alone, OneBusy, NoneUp, HasPath, Busy, Starting, Ending, Up
<1> QED BY <1>1, <1>2, <1>3 DEF IInv

(* Between them the parts say what is needed of one step: who listens, who  *)
(* is connected to whom, and which requests may still be handled.           *)
THEOREM Inductive == Spec => []IInv
<1>1. IInv /\ [Next]_vars => IInv'
  <2> SUFFICES ASSUME IInv, [Next]_vars PROVE IInv'
    OBVIOUS
  <2>1. CASE Next
    BY <2>1, StepKeeps DEF Next
  <2>2. CASE UNCHANGED vars
    BY <2>2 DEF vars, IInv, TypeOK, ProcInv, SocketFits, ClientFits, SentFits,
        HandledFits, ReadFits,
            QueueFits, Waits, Parts, Alone, OneBusy, NoneUp, HasPath
  <2> QED BY <2>1, <2>2
<1> QED BY <1>1, InitHolds, PTL DEF Spec

-----------------------------------------------------------------------------
(* When starts and ends do not overlap, a daemon that serves has the path   *)
(* and listens, whatever was killed before (daemon_socket_runtime.c).       *)
THEOREM DaemonIsReachable == Spec => []Reachable
<1>1. IInv => Reachable
  BY DEF IInv, ProcInv, SocketFits, Alone, HasPath, Reachable, Serving, Up
<1> QED BY <1>1, Inductive, PTL

(* Then no step takes the path away from a daemon that serves, but its own  *)
(* end (daemon_socket.c: the unlink of a stale path).                       *)
THEOREM OnlyStaleIsRemoved == Spec => OnlyStaleRemoved
<1> DEFINE Kept == serial => \A p \in Proc :
                       path = p /\ path' # p => ~Serving(p) \/ pc'[p] = "exiting"
<1>1. IInv /\ [Next]_vars => [Kept]_vars
  <2> SUFFICES ASSUME IInv, NEW r \in Proc, Step(r) \/ Environment(r), serial, NEW p \in Proc,
                      path = p, path' # p, Serving(p)
               PROVE  pc'[p] = "exiting"
    BY DEF Next
  <2>0. /\ NoneUp(r, p) /\ HasPath(r) /\ pc[p] \in Up /\ p # NoProc /\ pc \in [Proc -> Phases]
    BY NoProcIsNone DEF IInv, Alone, Serving, Up, TypeOK
  <2>1. CASE Bind(r) \/ Rebind(r)
    BY <2>0, <2>1 DEF Bind, Rebind, BindPath
  <2>2. CASE Unlink(r) \/ Quit(r)
    BY <2>0, <2>2 DEF Unlink, Quit, NoneUp, Busy, Starting, Ending
  <2>3. CASE ExitEarly(r)
    BY <2>0, <2>3 DEF ExitEarly, Go, HasPath, Up
  <2>4. CASE UNCHANGED path
    BY <2>4
  <2> QED BY <2>1, <2>2, <2>3, <2>4 DEF Step, Environment, Connect, Send, Leave,
              Listen, Probe, InitDone,
         Accept, ReadOpcode, ReadName, ReadEnd, Exited, Start, ShutDown, Crash
<1> QED BY <1>1, Inductive, PTL DEF Spec, OnlyStaleRemoved

-----------------------------------------------------------------------------
(* The requests. *)

(* What is lost stays lost: a socket that was closed never listens again. *)
LEMMA LostStays ==
    ASSUME IInv, NEW p \in Proc, NEW q \in Proc, Step(p) \/ Environment(p), Lost(q)
    PROVE  Lost(q)'
<1>0. /\ TypeOK /\ ClientFits(q) /\ ClientFits(p) /\ (\A r \in Proc : SocketFits(r))
      /\ pc[q] \in {"failed", "dead"}
         \/ (pc[q] \in {"done", "quit"} /\ (srv[q] # NoProc => sock[srv[q]] # "listening"))
  BY DEF IInv, ProcInv, Lost
<1>1. CASE Connect(p)
  BY <1>0, <1>1 DEF Connect, Go, Accepted, Refused, Enqueue, Lost, TypeOK, ClientFits,
      SocketFits, Up, Phases, Starting, Ending, Talking, Ended
<1>2. CASE Send(p)
  BY <1>0, <1>2 DEF Send, Go, Lost, TypeOK, ClientFits, SocketFits, Up, Phases,
      Starting, Ending, Talking, Ended
<1>3. CASE Leave(p)
  BY <1>0, <1>3 DEF Leave, Go, Lost, TypeOK, ClientFits, SocketFits, Up, Phases,
      Starting, Ending, Talking, Ended
<1>4. CASE Bind(p)
  <2>1. CASE BindPath(p)
    BY <1>0, <1>4, <2>1 DEF Bind, BindPath, Go, Lost, TypeOK, ClientFits, SocketFits,
        Up, Phases, Starting, Ending, Talking, Ended
  <2>2. CASE UNCHANGED <<sock, srv>> /\ pc' = [pc EXCEPT ![p] = "probe"]
    BY <1>0, <1>4, <2>2 DEF Bind, Lost, TypeOK, ClientFits, SocketFits, Up, Phases,
        Starting, Ending, Talking, Ended
  <2> QED BY <1>4, <2>1, <2>2 DEF Bind, Go
<1>5. CASE Listen(p)
  BY <1>0, <1>5 DEF Listen, Go, Lost, TypeOK, ClientFits, SocketFits, Up, Phases,
      Starting, Ending, Talking, Ended
<1>6. CASE Probe(p)
  BY <1>0, <1>6 DEF Probe, Go, Accepted, Refused, Enqueue, Lost, TypeOK, ClientFits,
      SocketFits, Up, Phases, Starting, Ending, Talking, Ended
<1>7. CASE Unlink(p)
  BY <1>0, <1>7 DEF Unlink, Go, Lost, TypeOK, ClientFits, SocketFits, Up, Phases,
      Starting, Ending, Talking, Ended
<1>8. CASE Rebind(p)
  BY <1>0, <1>8 DEF Rebind, Go, BindPath, Lost, TypeOK, ClientFits, SocketFits, Up,
      Phases, Starting, Ending, Talking, Ended
<1>9. CASE InitDone(p)
  BY <1>0, <1>9 DEF InitDone, Go, Handle, Lost, TypeOK, ClientFits, SocketFits, Up,
      Phases, Starting, Ending, Talking, Ended
<1>10. CASE Accept(p)
  BY <1>0, <1>10 DEF Accept, Go, Lost, TypeOK, ClientFits, SocketFits, Up, Phases,
      Starting, Ending, Talking, Ended
<1>11. CASE ReadOpcode(p)
  BY <1>0, <1>11 DEF ReadOpcode, Go, Handle, Done, Lost, TypeOK, ClientFits,
      SocketFits, Up, Phases, Starting, Ending, Talking, Ended
<1>12. CASE ReadName(p)
  BY <1>0, <1>12 DEF ReadName, Go, Handle, Done, Lost, TypeOK, ClientFits, SocketFits,
      Up, Phases, Starting, Ending, Talking, Ended
<1>13. CASE ReadEnd(p)
  BY <1>0, <1>13 DEF ReadEnd, Go, Done, Lost, TypeOK, ClientFits, SocketFits, Up,
      Phases, Starting, Ending, Talking, Ended
<1>14. CASE Quit(p)
  BY <1>0, <1>14 DEF Quit, Go, Lost, TypeOK, ClientFits, SocketFits, Up, Phases,
      Starting, Ending, Talking, Ended
<1>15. CASE Exited(p)
  BY <1>0, <1>15 DEF Exited, Go, CloseSocket, Lost, TypeOK, ClientFits, SocketFits, Up,
      Phases, Starting, Ending, Talking, Ended
<1>16. CASE \E w \in {"none", "op", "tab"} : Start(p, w)
  BY <1>0, <1>16 DEF Start, Go, Lost, TypeOK, ClientFits, SocketFits, Up, Phases,
      Starting, Ending, Talking, Ended
<1>17. CASE ShutDown(p)
  BY <1>0, <1>17 DEF ShutDown, Go, MayOverlap, CloseSocket, Lost, TypeOK, ClientFits,
      SocketFits, Up, Phases, Starting, Ending, Talking, Ended
<1>18. CASE ExitEarly(p)
  BY <1>0, <1>18 DEF ExitEarly, Go, MayOverlap, Lost, TypeOK, ClientFits, SocketFits,
      Up, Phases, Starting, Ending, Talking, Ended
<1>19. CASE Crash(p)
  BY <1>0, <1>19 DEF Crash, Go, CloseSocket, Done, Lost, TypeOK, ClientFits,
      SocketFits, Up, Phases, Starting, Ending, Talking, Ended
<1> QED BY <1>1, <1>2, <1>3, <1>4, <1>5, <1>6, <1>7, <1>8, <1>9, <1>10, <1>11, <1>12,
           <1>13, <1>14, <1>15, <1>16, <1>17, <1>18, <1>19
        DEF Step, Environment

(* What became of a request, without the case that never is. *)
FateAs(q) == IF want[q] = "none" THEN "idle" ELSE IF handled[q] = 1 THEN "handled"
             ELSE IF Lost(q) THEN "ended" ELSE "asked"
Fates == [q \in Proc |-> Fate(q)]

(* It is the fate of each request, before a step and after it.              *)
LEMMA FateIs ==
    ASSUME NEW q \in Proc, handled[q] \in {0, 1}
    PROVE  Fate(q) = FateAs(q)
  BY DEF Fate, FateAs

LEMMA FateIsThen ==
    ASSUME NEW q \in Proc, handled'[q] \in {0, 1}
    PROVE  Fate(q)' = FateAs(q)'
  BY DEF Fate, FateAs

(* A request was handled once or never.                                     *)
LEMMA HandledOnce ==
    ASSUME IInv, NEW q \in Proc
    PROVE  handled[q] \in {0, 1}
<1>1. handled[q] \in Nat /\ handled[q] <= 1
  BY DEF IInv, ProcInv, HandledFits, TypeOK
<1> QED BY <1>1

(* The same of every step that starts where the invariant holds.            *)
LEMMA FatesAreThese ==
    ASSUME IInv, NEW p \in Proc, Step(p) \/ Environment(p)
    PROVE  \A q \in Proc : Fate(q) = FateAs(q) /\ Fate(q)' = FateAs(q)'
<1>1. IInv'
  BY StepKeeps
<1>2. ASSUME NEW q \in Proc PROVE handled'[q] \in {0, 1}
  <2>1. handled'[q] \in Nat /\ handled'[q] <= 1
    BY <1>1 DEF IInv, ProcInv, HandledFits, TypeOK
  <2> QED BY <2>1
<1> QED BY <1>2, HandledOnce, FateIs, FateIsThen

(* A step that neither asks nor handles lets requests end, or does nothing. *)
LEMMA RequestsEnd ==
    ASSUME IInv, NEW p \in Proc, Step(p) \/ Environment(p), UNCHANGED <<want, handled>>
    PROVE  [D!Next]_Fates
<1> DEFINE P == {q \in Proc : Fate(q)' # Fate(q)}
<1>1. ASSUME NEW q \in P PROVE Fate(q) = "asked" /\ Fate(q)' = "ended"
  BY FatesAreThese, LostStays DEF FateAs
<1>2. CASE P = {}
  BY <1>2 DEF Fates
<1>3. CASE P # {}
  <2>1. Fates' = [q \in Proc |-> IF q \in P THEN "ended" ELSE Fates[q]]
    BY <1>1 DEF Fates
  <2>2. \A q \in P : Fates[q] = "asked"
    BY <1>1 DEF Fates
  <2>3. D!End(P)
    BY <1>3, <2>1, <2>2 DEF D!End, Fates
  <2> QED BY <2>3 DEF D!Next
<1> QED BY <1>2, <1>3

(* The daemon, or the invocation that becomes one, handles what was asked. *)
LEMMA RequestIsHandled ==
    ASSUME IInv, NEW p \in Proc, Step(p) \/ Environment(p), UNCHANGED want,
           NEW r \in Proc, Handle(r), handled[r] = 0, want[r] # "none", ~Lost(r),
           \A q \in Proc : Lost(q)' = Lost(q)
    PROVE  D!Handle(r)
<1>1. handled' = [handled EXCEPT ![r] = 1] /\ handled \in [Proc -> Nat]
  BY DEF Handle, IInv, TypeOK
<1>2. Fate(r) = "asked" /\ Fate(r)' = "handled"
  BY <1>1, FatesAreThese DEF FateAs
<1>3. \A q \in Proc \ {r} : Fate(q)' = Fate(q)
  BY <1>1, FatesAreThese DEF FateAs
<1>4. Fates' = [Fates EXCEPT ![r] = "handled"] /\ Fates[r] = "asked"
  BY <1>2, <1>3 DEF Fates
<1> QED BY <1>4 DEF D!Handle, Fates

(* The requests go as Delegation says, whatever overlaps or is killed       *)
(* (run_cofi, daemon_socket.c): each is handled at most once, by the        *)
(* process it was sent to or by the daemon its sender becomes, and what     *)
(* ended is never handled.                                                  *)
THEOREM HandledAtMostOnce == Spec => D!Safety
<1>1. Init => D!Init
  BY DEF Init, D!Init, Fate
<1>2. IInv /\ [Next]_vars => [D!Next]_Fates
  <2> SUFFICES ASSUME IInv, [Next]_vars PROVE [D!Next]_Fates
    OBVIOUS
  <2>1. CASE UNCHANGED vars
    BY <2>1 DEF vars, Fates, Fate, Lost
  <2>2. ASSUME NEW p \in Proc, Step(p) \/ Environment(p) PROVE [D!Next]_Fates
    <3>0. TypeOK /\ ProcInv(p)
      BY DEF IInv
    <3>1. CASE UNCHANGED <<want, handled>>
      BY <2>2, <3>1, RequestsEnd
    <3>2. ASSUME NEW w \in {"none", "op", "tab"}, Start(p, w) PROVE [D!Next]_Fates
      <4>1. /\ want[p] = "none" /\ handled[p] = 0 /\ ~Lost(p) /\ ~Lost(p)'
            /\ want' = [want EXCEPT ![p] = w] /\ handled' = handled
            /\ want \in [Proc -> {"none", "op", "tab"}]
        BY <3>0, <3>2 DEF Start, Go, ProcInv, ClientFits, HandledFits, TypeOK, Lost
      <4>2. \A q \in Proc \ {p} : Lost(q)' = Lost(q)
        BY <3>0, <3>2 DEF Start, Go, TypeOK, Lost
      <4>3. \A q \in Proc \ {p} : Fate(q)' = Fate(q)
        BY <2>2, <4>1, <4>2, FatesAreThese DEF FateAs
      <4>4. Fate(p) = "idle" /\ Fate(p)' = IF w = "none" THEN "idle" ELSE "asked"
        BY <2>2, <4>1, FatesAreThese DEF FateAs
      <4>5. CASE w = "none"
        BY <4>3, <4>4, <4>5 DEF Fates
      <4>6. CASE w # "none"
        <5>1. Fates' = [Fates EXCEPT ![p] = "asked"] /\ Fates[p] = "idle"
          BY <4>3, <4>4, <4>6 DEF Fates
        <5> QED BY <5>1 DEF D!Next, D!Ask, Fates
      <4> QED BY <4>5, <4>6
    <3>3. ASSUME InitDone(p), want[p] # "none" PROVE [D!Next]_Fates
      <4>1. Handle(p) /\ UNCHANGED want /\ handled[p] = 0 /\ ~Lost(p)
        BY <3>0, <3>3 DEF InitDone, ProcInv, HandledFits, Lost
      <4>2. \A q \in Proc : Lost(q)' = Lost(q)
        BY <3>0, <3>3 DEF InitDone, Go, TypeOK, Lost
      <4> QED BY <2>2, <3>3, <4>1, <4>2, RequestIsHandled DEF D!Next
    <3>4. ASSUME ReadOpcode(p) \/ ReadName(p), Handle(cur[p]) PROVE [D!Next]_Fates
      <4>1. pc[p] \in Reading
        BY <3>4 DEF ReadOpcode, ReadName, Reading
      <4>2. /\ cur[p] \in Proc /\ srv[cur[p]] = p /\ handled[cur[p]] = 0
            /\ sock[p] = "listening" /\ p # NoProc
        BY <3>0, <4>1, NoProcIsNone DEF ProcInv, ReadFits, Waits, SocketFits, Up,
            Reading, TypeOK
      <4>3. SentFits(cur[p]) /\ sent[cur[p]] \in Nat
        BY <4>2 DEF IInv, ProcInv, TypeOK
      <4>4. want[cur[p]] # "none" /\ pc[cur[p]] \in {"send", "done", "dead"}
        BY <3>4, <4>3 DEF ReadOpcode, ReadName, SentFits
      <4>5. ~Lost(cur[p])
        <5>1. CASE ReadName(p)
          <6>1. pc[cur[p]] = "done"
            BY <3>0, <4>3, <5>1 DEF ReadName, ProcInv, ReadFits, Waits, SentFits,
                Parts, Reading
          <6> QED BY <4>2, <6>1 DEF Lost
        <5>2. CASE ReadOpcode(p)
          <6>1. want[cur[p]] # "tab"
            <7>1. handled'[cur[p]] = 1
              BY <3>0, <3>4, <4>2 DEF Handle, TypeOK
            <7> QED BY <4>2, <5>2, <7>1 DEF ReadOpcode
          <6>2. sent[cur[p]] = Parts(cur[p])
            BY <4>3, <5>2, <6>1 DEF ReadOpcode, SentFits, Parts
          <6> QED BY <4>2, <4>3, <6>2 DEF SentFits, Lost
        <5> QED BY <3>4, <5>1, <5>2
      <4>6. \A q \in Proc : Lost(q)' = Lost(q)
        BY <3>0, <3>4 DEF ReadOpcode, ReadName, Go, TypeOK, Lost
      <4>7. UNCHANGED want
        BY <3>4 DEF ReadOpcode, ReadName
      <4> QED BY <2>2, <3>4, <4>2, <4>4, <4>5, <4>6, <4>7, RequestIsHandled DEF D!Next
    <3> QED BY <2>2, <3>1, <3>2, <3>3, <3>4 DEF Step, Environment, Connect, Send,
                Leave, Bind, Listen,
           Probe, Unlink, Rebind, InitDone, Accept, ReadOpcode, ReadName, ReadEnd, Quit, Exited,
           ShutDown, ExitEarly, Crash
  <2> QED BY <2>1, <2>2 DEF Next
<1>3. IInv /\ [Next]_vars => [D!Next]_([p \in Proc |-> Fate(p)])
  BY <1>2 DEF Fates
<1> QED BY <1>1, <1>3, Inductive, PTL DEF Spec, D!Safety

=============================================================================
