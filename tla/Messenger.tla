----------------------------- MODULE Messenger ------------------------------
(***************************************************************************)
(* The messengers of cmd/messenger/main.go and node/messenger/messenger.go *)
(* as the registration node sees them: one process per node whose main     *)
(* goroutine registers, whose calculatePathsWhenReady goroutine turns the  *)
(* pushed overlay into connections and reports READY, and whose doTask     *)
(* goroutine sends the messages of the task and reports COMPLETE.  What is *)
(* in the messages and where they go is MessageTraffic's subject.          *)
(*                                                                         *)
(* A log.Fatal or a panic of any goroutine ends the whole process.  The    *)
(* stages of a dead process are kept as they were, for the calls it has    *)
(* made outlive it; "left" is a process that has called DeregisterNode.    *)
(***************************************************************************)
EXTENDS Integers

CONSTANTS
  Node,      \* the host:port ids of messengers
  Retries    \* NodeFinished attempts after a failed first one, 3 in the code

VARIABLES
  main,      \* the main goroutine, "left" or "gone" once the process has ended
  paths,     \* the calculatePathsWhenReady goroutine
  broken,    \* the nodes on the edges that streams left before they broke off
  view,      \* the nodes on the edges s.nodePathDict was computed from
  conns,     \* keys of s.nodeConns
  task,      \* the doTask goroutine
  attempt,   \* the latest NodeFinished attempt
  blocked    \* the handlers that wait for a channel nobody receives from

Running(n) == main[n] \in {"registering", "joined", "leaving"}
PeersOf(n) == view[n] \ {n}

MessengerTypeOK ==
  /\ main \in [Node -> {"off", "registering", "joined", "leaving", "left", "gone"}]
  /\ paths \in [Node -> {"waiting", "dialing", "reporting", "done"}]
  /\ broken \in [Node -> SUBSET Node]
  /\ view \in [Node -> SUBSET Node]
  /\ conns \in [Node -> SUBSET Node]
  /\ task \in [Node -> {"waiting", "sending", "reporting", "done"}]
  /\ attempt \in [Node -> 0..Retries]
  /\ blocked \in [Node -> SUBSET {"PushPaths", "StartTask"}]

MessengerInit ==
  /\ main = [n \in Node |-> "off"]
  /\ paths = [n \in Node |-> "waiting"]
  /\ broken = [n \in Node |-> {}]
  /\ view = [n \in Node |-> {}]
  /\ conns = [n \in Node |-> {}]
  /\ task = [n \in Node |-> "waiting"]
  /\ attempt = [n \in Node |-> 0]
  /\ blocked = [n \in Node |-> {}]

(* Faults the properties must tell from the code, see RegistrationServer.  *)
FaultyReadyEarly(n) == TRUE                                  \* Dialed
FaultyFinishEarly(h) ==                                      \* Reported
  IF h.status = "READY" THEN paths[h.id] \in {"reporting", "done"}
  ELSE task[h.id] # "waiting" /\ h.attempt <= attempt[h.id]

\* The status calls a messenger has made so far.
Reported(h) ==
  IF h.status = "READY" THEN paths[h.id] \in {"reporting", "done"}
  ELSE task[h.id] \in {"reporting", "done"} /\ h.attempt <= attempt[h.id]

-----------------------------------------------------------------------------
(* The process and its main goroutine *)

\* log.Fatal, a panic or os.Exit: all goroutines end.
End(n) ==
  /\ main' = [main EXCEPT ![n] = IF @ = "leaving" THEN "left" ELSE "gone"]
  /\ blocked' = [blocked EXCEPT ![n] = {}]

\* The peer service listens, the goroutines start, RegisterNode is called.
Join(n) ==
  /\ main[n] = "off"
  /\ main' = [main EXCEPT ![n] = "registering"]
  /\ UNCHANGED <<paths, broken, view, conns, task, attempt, blocked>>

Registered(n) ==
  /\ main[n] = "registering"
  /\ main' = [main EXCEPT ![n] = "joined"]
  /\ UNCHANGED <<paths, broken, view, conns, task, attempt, blocked>>

\* RegisterNode answers with an error or its deadline of 2 s passes.
RegistrationFails(n) ==
  /\ main[n] = "registering"
  /\ End(n)
  /\ UNCHANGED <<paths, broken, view, conns, task, attempt>>

\* The operator types "exit": DeregisterNode is called, without a deadline.
Leave(n) ==
  /\ main[n] = "joined"
  /\ main' = [main EXCEPT ![n] = "leaving"]
  /\ UNCHANGED <<paths, broken, view, conns, task, attempt, blocked>>

\* The call has been answered or has failed: os.Exit.
Exit(n) ==
  /\ main[n] = "leaving"
  /\ End(n)
  /\ UNCHANGED <<paths, broken, view, conns, task, attempt>>

\* The input ends: main returns without a call.
Quit(n) ==
  /\ main[n] = "joined"
  /\ End(n)
  /\ UNCHANGED <<paths, broken, view, conns, task, attempt>>

-----------------------------------------------------------------------------
(* PushPaths and calculatePathsWhenReady *)

\* The edges of an overlay of nodes have arrived, after those of broken streams.
\* calculatePathsWhenReady receives from pathChan once: a later handler blocks.
\* A node to which the edges give no path makes it call log.Fatal: the node is on
\* none of them itself, or the broken streams left edges of another overlay.
PushPaths(n, nodes) ==
  /\ Running(n)
  /\ \/ /\ paths[n] = "waiting"
        /\ n \in nodes \cup broken[n] \/ nodes \cup broken[n] = {}
        /\ nodes \cap broken[n] = {} => nodes = {} \/ broken[n] = {}
        /\ paths' = [paths EXCEPT ![n] = "dialing"]
        /\ view' = [view EXCEPT ![n] = nodes \cup broken[n]]
        /\ UNCHANGED <<main, blocked>>
     \/ /\ paths[n] = "waiting"
        /\ nodes \cup broken[n] # {}
        /\ n \notin nodes \cup broken[n] \/ ~(broken[n] \subseteq nodes)
        /\ End(n)
        /\ UNCHANGED <<paths, view>>
     \/ /\ paths[n] # "waiting"
        /\ blocked' = [blocked EXCEPT ![n] = @ \cup {"PushPaths"}]
        /\ UNCHANGED <<main, paths, view>>
  /\ UNCHANGED <<broken, conns, task, attempt>>

\* The stream breaks off after some edges, which stay in s.overlayEdges.
PushBreaks(n, nodes) ==
  /\ Running(n)
  /\ broken' = [broken EXCEPT ![n] = @ \cup nodes]
  /\ UNCHANGED <<main, paths, view, conns, task, attempt, blocked>>

\* grpc.Dial with WithBlock returns once the peer serves.
Dial(n, m) ==
  /\ Running(n)
  /\ paths[n] = "dialing"
  /\ m \in PeersOf(n) \ conns[n]
  /\ Running(m)
  /\ conns' = [conns EXCEPT ![n] = @ \cup {m}]
  /\ UNCHANGED <<main, paths, broken, view, task, attempt, blocked>>

Dialed(n) == PeersOf(n) \subseteq conns[n]

\* NodeReady is called.
ReportReady(n) ==
  /\ Running(n)
  /\ paths[n] = "dialing"
  /\ Dialed(n)
  /\ paths' = [paths EXCEPT ![n] = "reporting"]
  /\ UNCHANGED <<main, broken, view, conns, task, attempt, blocked>>

ReadyAnswered(n) ==
  /\ Running(n)
  /\ paths[n] = "reporting"
  /\ paths' = [paths EXCEPT ![n] = "done"]
  /\ UNCHANGED <<main, broken, view, conns, task, attempt, blocked>>

\* The deadline of 100 ms passes first: log.Fatal.
ReadyTimesOut(n) ==
  /\ Running(n)
  /\ paths[n] = "reporting"
  /\ End(n)
  /\ UNCHANGED <<paths, broken, view, conns, task, attempt>>

-----------------------------------------------------------------------------
(* StartTask and doTask *)

\* doTask picks a random destination and the connection to its first hop: it
\* panics without a destination, and may if a connection is still missing.
\* doTask receives from startTaskChan once: a second handler blocks.
StartTask(n) ==
  /\ Running(n)
  /\ \/ /\ task[n] = "waiting"
        /\ conns[n] # {}
        /\ task' = [task EXCEPT ![n] = "sending"]
        /\ UNCHANGED <<main, blocked>>
     \/ /\ task[n] = "waiting"
        /\ PeersOf(n) = {} \/ ~Dialed(n)
        /\ End(n)
        /\ UNCHANGED task
     \/ /\ task[n] # "waiting"
        /\ blocked' = [blocked EXCEPT ![n] = @ \cup {"StartTask"}]
        /\ UNCHANGED <<main, task>>
  /\ UNCHANGED <<paths, broken, view, conns, attempt>>

\* The send loop can end only if some peer still answers.
MaySend(n) == \E m \in conns[n] : Running(m)

\* messagesSent has met the requirement; NodeFinished is called.
ReportFinished(n) ==
  /\ Running(n)
  /\ task[n] = "sending"
  /\ MaySend(n)
  /\ task' = [task EXCEPT ![n] = "reporting"]
  /\ UNCHANGED <<main, paths, broken, view, conns, attempt, blocked>>

FinishAnswered(n) ==
  /\ Running(n)
  /\ task[n] = "reporting"
  /\ task' = [task EXCEPT ![n] = "done"]
  /\ UNCHANGED <<main, paths, broken, view, conns, attempt, blocked>>

\* The deadline of 100 ms passes first: the call is made again, Retries times.
FinishTimesOut(n) ==
  /\ Running(n)
  /\ task[n] = "reporting"
  /\ \/ /\ attempt[n] < Retries
        /\ attempt' = [attempt EXCEPT ![n] = @ + 1]
        /\ UNCHANGED task
     \/ /\ attempt[n] = Retries
        /\ task' = [task EXCEPT ![n] = "done"]
        /\ UNCHANGED attempt
  /\ UNCHANGED <<main, paths, broken, view, conns, blocked>>
=============================================================================
