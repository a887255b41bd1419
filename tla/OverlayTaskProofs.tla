-------------------------- MODULE OverlayTaskProofs --------------------------
(***************************************************************************)
(* Theorems about OverlayTask: what the registration node believes of the  *)
(* messengers is true of them, for any messengers, deadlines and exits;    *)
(* and when exactly Peers messengers run and none leaves, the system       *)
(* implements TaskRun.                                                     *)
(***************************************************************************)
EXTENDS OverlayTask, FiniteSetTheorems, TLAPS

Ready(n) == paths[n] \in {"reporting", "done"}
Finished(n) == task[n] \in {"reporting", "done"}

\* The types the arguments below need.
Types ==
  /\ paths \in [Node -> {"waiting", "dialing", "reporting", "done"}]
  /\ task \in [Node -> {"waiting", "sending", "reporting", "done"}]
  /\ metadata \in [Node -> {"none", "data", "nil"}]
  /\ registeredNodes \subseteq Node
  /\ idleNodes \subseteq Node /\ finishedNodes \subseteq Node
  /\ held \in S!StatusCall \cup {None}

\* A status that the registration node has in hand or has applied is the
\* stage of its messenger, or an earlier one.
ReportInv ==
  /\ held # None => IF held.status = "READY" THEN Ready(held.id) ELSE Finished(held.id)
  /\ \A n \in idleNodes : Ready(n)
  /\ \A n \in finishedNodes : Finished(n)
  /\ \A n \in Node : metadata[n] = "data" => n \in finishedNodes

\* Only a startTasks goroutine makes a node send, and it exists only since the
\* count of idle nodes met Peers.
StartInv ==
  /\ \A s \in Node : starter[s].pc = "range" => Cardinality(idleNodes) >= Peers
  /\ \A n \in Node : task[n] # "waiting" => Cardinality(idleNodes) >= Peers

IInv == Types /\ ReportInv /\ StartInv

\* Peers messengers are started, and none leaves.
ExactRun == MayExit = {} /\ Cardinality(Node) = Peers

RegisterStages == {"none", "waiting", "dialing", "announcing", "ok", "exists", "failed"}

\* Then connected nodes stay registered, only they get paths, and statistics
\* are collected only of all.
ExactInv ==
  /\ register \in [Node -> RegisterStages]
  /\ \A n \in Node : register[n] = "dialing" => n \in registeredNodes
  /\ nodeConnections \subseteq registeredNodes
  /\ \A n \in Node : paths[n] # "waiting" => n \in registeredNodes
  /\ \A k \in S!CompleteCall : collector[k].pc = "range" => finishedNodes = Node
  /\ printed => finishedNodes = Node

-----------------------------------------------------------------------------
(* Counting *)

\* The instance S counts as this module does.
LEMMA SameCard ==
  ASSUME NEW X
  PROVE  S!Cardinality(X) = Cardinality(X)
  BY DEF S!Cardinality, Cardinality

LEMMA SameFinite ==
  ASSUME NEW X
  PROVE  S!IsFiniteSet(X) <=> IsFiniteSet(X)
  BY DEF S!IsFiniteSet, IsFiniteSet

LEMMA Constants ==
  /\ IsFiniteSet(Node) /\ Peers \in Nat /\ None \notin S!StatusCall
  /\ \A X \in SUBSET Node : IsFiniteSet(X) /\ Cardinality(X) \in Nat
<1>1. IsFiniteSet(Node) /\ Peers \in Nat /\ None \notin S!StatusCall
  BY TaskAssumption, SameFinite DEF TaskAssumption, S!ServerAssumption
<1>2. ASSUME NEW X \in SUBSET Node
      PROVE  IsFiniteSet(X) /\ Cardinality(X) \in Nat
  BY <1>1, FS_Subset, FS_CardinalityType
<1> QED
  BY <1>1, <1>2

LEMMA CallTypes ==
  ASSUME NEW h \in S!StatusCall
  PROVE  /\ h.id \in Node /\ h.status \in {"READY", "COMPLETE"}
         /\ h \in S!CompleteCall <=> h.status = "COMPLETE"
  BY DEF S!StatusCall, S!CompleteCall

LEMMA Counts ==
  ASSUME NEW X \in SUBSET Node, NEW Y \in SUBSET X
  PROVE  /\ Cardinality(Y) <= Cardinality(X)
         /\ Cardinality(Y) = Cardinality(X) => Y = X
  BY Constants, FS_Subset

-----------------------------------------------------------------------------
(* The steps, by what they do to the variables of IInv *)

serverCore == <<metadata, registeredNodes, idleNodes, finishedNodes, held, starter>>

\* The calls a messenger has made are never taken back.
Forward ==
  /\ paths' \in [Node -> {"waiting", "dialing", "reporting", "done"}]
  /\ task' \in [Node -> {"waiting", "sending", "reporting", "done"}]
  /\ \A n \in Node : /\ Ready(n) => Ready(n)'
                     /\ Finished(n) => Finished(n)'
                     /\ task[n] = "waiting" => task'[n] = "waiting"

LEMMA ForwardStep ==
  ASSUME IInv, Forward, UNCHANGED serverCore
  PROVE  IInv'
<1>1. Types'
  BY DEF IInv, Types, Forward, serverCore
<1>2. ReportInv'
  <2>1. held # None => held.id \in Node
    BY CallTypes DEF IInv, Types
  <2> QED
    BY <2>1 DEF IInv, Types, ReportInv, Forward, serverCore
<1>3. StartInv'
  BY DEF IInv, StartInv, Forward, serverCore
<1> QED
  BY <1>1, <1>2, <1>3 DEF IInv

LEMMA StandStill ==
  ASSUME Types, UNCHANGED <<paths, task>>
  PROVE  Forward
  BY DEF Types, Forward, Ready, Finished

LEMMA MessengerForward ==
  ASSUME Types, NEW n \in Node,
         \/ M!Join(n) \/ M!Registered(n) \/ M!RegistrationFails(n)
         \/ M!Leave(n) \/ M!Exit(n) \/ M!Quit(n)
         \/ (\E nodes : M!PushPaths(n, nodes)) \/ (\E nodes : M!PushBreaks(n, nodes))
         \/ (\E m : M!Dial(n, m))
         \/ M!ReportReady(n) \/ M!ReadyAnswered(n) \/ M!ReadyTimesOut(n)
         \/ M!ReportFinished(n) \/ M!FinishAnswered(n) \/ M!FinishTimesOut(n)
  PROVE  Forward
<1>1. CASE \/ M!Join(n) \/ M!Registered(n) \/ M!RegistrationFails(n)
           \/ M!Leave(n) \/ M!Exit(n) \/ M!Quit(n) \/ (\E nodes : M!PushBreaks(n, nodes))
  BY <1>1, StandStill
     DEF M!Join, M!Registered, M!RegistrationFails, M!Leave, M!Exit, M!Quit, M!PushBreaks
<1>2. CASE \/ (\E nodes : M!PushPaths(n, nodes)) \/ (\E m : M!Dial(n, m))
           \/ M!ReportReady(n) \/ M!ReadyAnswered(n) \/ M!ReadyTimesOut(n)
  <2>1. task' = task
    BY <1>2 DEF M!PushPaths, M!Dial, M!ReportReady, M!ReadyAnswered, M!ReadyTimesOut
  <2>2. \/ paths' = paths
        \/ paths[n] = "waiting" /\ paths' = [paths EXCEPT ![n] = "dialing"]
        \/ paths' = [paths EXCEPT ![n] = "reporting"]
        \/ paths' = [paths EXCEPT ![n] = "done"]
    BY <1>2 DEF M!PushPaths, M!Dial, M!ReportReady, M!ReadyAnswered, M!ReadyTimesOut
  <2> QED
    BY <2>1, <2>2 DEF Types, Forward, Ready, Finished
<1>3. CASE M!ReportFinished(n) \/ M!FinishAnswered(n) \/ M!FinishTimesOut(n)
  BY <1>3 DEF M!ReportFinished, M!FinishAnswered, M!FinishTimesOut,
              Types, Forward, Ready, Finished
<1> QED
  BY <1>1, <1>2, <1>3

LEMMA StatusTaken ==
  ASSUME IInv, NEW h \in S!StatusCall, TakeStatus(h)
  PROVE  IInv'
<1>1. /\ UNCHANGED <<paths, task, metadata, registeredNodes, idleNodes,
                     finishedNodes, starter>>
      /\ held' = h /\ M!Reported(h)
  BY DEF TakeStatus, ServerStep, S!TakeStatus, S!membership, S!pushing, S!starting, S!results,
         mvars
<1>2. h.id \in Node /\ h.status \in {"READY", "COMPLETE"}
  BY CallTypes
<1> QED
  BY <1>1, <1>2 DEF IInv, Types, ReportInv, StartInv, M!Reported, Ready, Finished

LEMMA ReadyApplied ==
  ASSUME IInv, S!ApplyReady, UNCHANGED mvars
  PROVE  IInv'
<1>1. /\ UNCHANGED <<paths, task, metadata, registeredNodes, finishedNodes>>
      /\ held # None /\ held.status = "READY" /\ held' = None
      /\ idleNodes' = idleNodes \cup {held.id}
  BY DEF S!ApplyReady, S!membership, S!pushing, S!results, mvars
<1>2. held \in S!StatusCall /\ held.id \in Node
  BY <1>1, CallTypes DEF IInv, Types
<1>3. Types' /\ ReportInv'
  BY <1>1, <1>2 DEF IInv, Types, ReportInv, Ready, Finished
<1>4. Cardinality(idleNodes) <= Cardinality(idleNodes')
      /\ Cardinality(idleNodes) \in Nat /\ Cardinality(idleNodes') \in Nat
  BY <1>1, <1>3, Counts, Constants DEF Types
<1>5. starter' = starter \/ Cardinality(idleNodes') = Peers
  BY SameCard DEF S!ApplyReady, S!AllIdle
<1>6. StartInv'
  BY <1>1, <1>4, <1>5, Constants DEF IInv, StartInv
<1> QED
  BY <1>3, <1>6 DEF IInv

LEMMA CompleteApplied ==
  ASSUME IInv, S!ApplyComplete, UNCHANGED mvars
  PROVE  IInv'
<1>1. /\ UNCHANGED <<paths, task, metadata, registeredNodes, idleNodes, starter>>
      /\ held # None /\ held.status = "COMPLETE" /\ held' = None
      /\ finishedNodes' = finishedNodes \cup {held.id}
  BY DEF S!ApplyComplete, S!membership, S!pushing, S!starting, mvars
<1>2. held \in S!StatusCall /\ held.id \in Node
  BY <1>1, CallTypes DEF IInv, Types
<1> QED
  BY <1>1, <1>2 DEF IInv, Types, ReportInv, StartInv, Ready, Finished

\* A StartTask call at n, whatever becomes of it.
LEMMA StartCalled ==
  ASSUME IInv, NEW s \in Node, NEW n \in Node, NEW answered, S!StartTask(s, n, answered),
         UNCHANGED paths,
         UNCHANGED task \/ task' = [task EXCEPT ![n] = "sending"],
         task[n] # "waiting" => UNCHANGED task
  PROVE  IInv'
<1>1. /\ UNCHANGED <<metadata, registeredNodes, idleNodes, finishedNodes, held>>
      /\ starter[s].pc = "range"
  BY DEF S!StartTask, S!membership, S!pushing, S!statuses, S!results
<1>2. Cardinality(idleNodes') >= Peers
  BY <1>1 DEF IInv, StartInv
<1>3. Types'
  BY <1>1 DEF IInv, Types
<1>4. ReportInv'
  <2>1. held # None => held.id \in Node
    BY CallTypes DEF IInv, Types
  <2>2. \A m \in Node : (Ready(m) => Ready(m)') /\ (Finished(m) => Finished(m)')
    BY DEF IInv, Types, Ready, Finished
  <2> QED
    BY <1>1, <2>1, <2>2 DEF IInv, Types, ReportInv
<1> QED
  BY <1>2, <1>3, <1>4 DEF IInv, StartInv

LEMMA Collected ==
  ASSUME IInv, NEW k, NEW n \in Node, NEW answer \in {"data", "nil"},
         S!CollectMetadata(k, n, answer), UNCHANGED mvars
  PROVE  IInv'
<1>1. /\ UNCHANGED <<paths, task, registeredNodes, idleNodes, finishedNodes, held,
                     starter>>
      /\ metadata' = [metadata EXCEPT ![n] = answer] /\ n \in finishedNodes
  BY DEF S!CollectMetadata, S!membership, S!pushing, S!statuses, S!starting, S!Unvisited, mvars
<1> QED
  BY <1>1 DEF IInv, Types, ReportInv, StartInv, Ready, Finished

\* The steps of the registration node that concern none of these variables, or
\* only the nodes registered.
LEMMA Registering ==
  ASSUME IInv, UNCHANGED mvars,
         \/ \E n \in Node : \/ S!RegisterCheck(n) \/ S!RegisterStore(n) \/ S!RegisterConnect(n)
                            \/ S!DeregisterNode(n) \/ S!Announce(n) \/ S!ListNode(n)
         \/ S!BuildOverlay \/ S!PushEnds \/ S!MapRaceCrash
         \/ \E k \in S!CompleteCall : S!CollectEnds(k)
  PROVE  IInv'
<1>1. /\ UNCHANGED <<paths, task, metadata, idleNodes, finishedNodes, held, starter>>
      /\ registeredNodes' \subseteq Node
  BY DEF IInv, Types, mvars, S!RegisterCheck, S!RegisterStore, S!RegisterConnect,
         S!DeregisterNode, S!Announce, S!ListNode, S!BuildOverlay, S!PushEnds, S!MapRaceCrash,
         S!CollectEnds, S!PrintMetadata,
         S!membership, S!pushing, S!statuses, S!starting, S!results
<1> QED
  BY <1>1 DEF IInv, Types, ReportInv, StartInv, Ready, Finished

LEMMA Retrying ==
  ASSUME IInv, UNCHANGED mvars, NEW s \in Node, S!StartRetry(s) \/ S!StartEnds(s)
  PROVE  IInv'
<1>1. /\ UNCHANGED <<paths, task, metadata, registeredNodes, idleNodes,
                     finishedNodes, held>>
      /\ starter[s].pc = "range"
  BY DEF mvars, S!StartRetry, S!StartEnds, S!membership, S!pushing, S!statuses, S!results
<1> QED
  BY <1>1 DEF IInv, Types, ReportInv, StartInv, Ready, Finished

-----------------------------------------------------------------------------
(* The invariant *)

LEMMA InitialInv == Init => IInv
<1> SUFFICES ASSUME Init PROVE IInv
  OBVIOUS
<1> QED
  BY DEF Init, S!Init, M!MessengerInit, IInv, Types, ReportInv, StartInv

LEMMA InvStep == IInv /\ [Next]_vars => IInv'
<1> SUFFICES ASSUME IInv, [Next]_vars PROVE IInv'
  OBVIOUS
<1> USE DEF ServerStep, MessengerStep, Fault
<1>t. Types
  BY DEF IInv
<1>1. ASSUME UNCHANGED svars, Forward
      PROVE  IInv'
  BY <1>1, ForwardStep DEF svars, serverCore
<1>2. ASSUME NEW n \in Node, Progress(n) \/ Leave(n) \/ Quit(n)
      PROVE  IInv'
  <2>1. CASE HandleRegister(n) \/ Connect(n) \/ HandleDeregister(n)
    BY <2>1, Registering DEF HandleRegister, Connect, HandleDeregister
  <2>2. CASE \/ Join(n) \/ RegisterAnswer(n) \/ Exit(n) \/ (\E m \in Node : Dial(n, m))
             \/ ReportReady(n) \/ ReadyAnswered(n) \/ ReportFinished(n) \/ FinishAnswered(n)
             \/ Leave(n) \/ Quit(n)
    BY <1>t, <1>1, <2>2, MessengerForward
       DEF Join, RegisterAnswer, Exit, Dial, ReportReady, ReadyAnswered, ReportFinished,
           FinishAnswered, Leave, Quit
  <2> QED
    BY <1>2, <2>1, <2>2 DEF Progress
<1>3. ASSUME NEW n \in Node, RegisterTimesOut(n) \/ ReadyTimesOut(n) \/ FinishTimesOut(n)
                             \/ ExitFails(n)
      PROVE  IInv'
  BY <1>t, <1>1, <1>3, MessengerForward
    DEF RegisterTimesOut, ReadyTimesOut, FinishTimesOut, ExitFails
<1>4. ASSUME Monitor
      PROVE  IInv'
  <2>1. ASSUME NEW n \in Node, PushPaths(n) \/ PushBreaks(n)
        PROVE  IInv'
    <3>1. UNCHANGED serverCore
      BY <2>1 DEF PushPaths, PushBreaks, S!PushPaths, S!membership, S!statuses, S!starting,
                  S!results, serverCore
    <3>2. \/ M!PushPaths(n, OnEdges) \/ UNCHANGED <<paths, task>>
          \/ \E nodes : M!PushBreaks(n, nodes)
      BY <2>1 DEF PushPaths, PushBreaks, mvars
    <3> QED
      BY <1>t, <3>1, <3>2, ForwardStep, MessengerForward, StandStill
  <2>2. ASSUME S!ApplyReady \/ S!ApplyComplete, UNCHANGED mvars
        PROVE  IInv'
    BY <2>2, ReadyApplied, CompleteApplied
  <2> QED
    BY <1>4, <2>1, <2>2, Registering, StatusTaken DEF Monitor
<1>5. ASSUME NEW s \in Node, Starting(s)
      PROVE  IInv'
  <2>1. ASSUME NEW n \in Node, StartArrives(s, n)
        PROVE  IInv'
    <3>1. /\ UNCHANGED paths
          /\ UNCHANGED task \/ task' = [task EXCEPT ![n] = "sending"]
          /\ task[n] # "waiting" => UNCHANGED task
      BY <2>1 DEF StartArrives, M!StartTask
    <3>2. S!StartTask(s, n, TRUE) \/ S!StartTask(s, n, FALSE)
      BY <2>1 DEF StartArrives
    <3> QED
      BY <3>1, <3>2, StartCalled
  <2>2. ASSUME NEW n \in Node, StartMissed(s, n)
        PROVE  IInv'
    <3>1. S!StartTask(s, n, FALSE) /\ UNCHANGED <<paths, task>>
      BY <2>2 DEF StartMissed, mvars
    <3> QED
      BY <3>1, StartCalled
  <2>3. CASE StartOther(s)
    BY <2>3, Retrying DEF StartOther
  <2> QED
    BY <1>5, <2>1, <2>2, <2>3 DEF Starting
<1>6. ASSUME NEW k \in S!CompleteCall, Collecting(k)
      PROVE  IInv'
  <2>1. ASSUME NEW n \in Node, Collect(k, n)
        PROVE  IInv'
    BY <2>1, Collected DEF Collect
  <2> QED
    BY <1>6, <2>1, Registering DEF Collecting
<1>7. CASE ServerStep(S!MapRaceCrash)
  BY <1>7, Registering
<1>8. CASE UNCHANGED vars
  BY <1>t, <1>1, <1>8, StandStill DEF vars, mvars
<1> QED
  BY <1>2, <1>3, <1>4, <1>5, <1>6, <1>7, <1>8 DEF Next

\* What the registration node knows of the messengers is true of them.
THEOREM Inductive == Spec => []IInv
  BY InitialInv, InvStep, PTL DEF Spec

\* Nobody sends before Peers messengers are ready, whoever registers, leaves or
\* dies, and whatever deadlines pass.
THEOREM BarrierHolds == Spec => []SendsAfterReady
<1>1. IInv => SendsAfterReady
  <2> SUFFICES ASSUME IInv, NEW n \in Node, task[n] # "waiting"
               PROVE  Cardinality({m \in Node : paths[m] \in {"reporting", "done"}}) >= Peers
    BY DEF SendsAfterReady
  <2> DEFINE ready == {m \in Node : paths[m] \in {"reporting", "done"}}
  <2>1. idleNodes \subseteq ready /\ ready \subseteq Node /\ idleNodes \subseteq Node
    BY DEF IInv, Types, ReportInv, Ready
  <2>2. /\ Cardinality(idleNodes) <= Cardinality(ready)
        /\ Cardinality(idleNodes) \in Nat /\ Cardinality(ready) \in Nat
    BY <2>1, Counts, Constants
  <2> QED
    BY <2>2, Constants DEF IInv, StartInv
<1> QED
  BY <1>1, Inductive, PTL

\* No statistics are those of a messenger that is still sending, although a
\* COMPLETE may be repeated and membership changes.
THEOREM CollectsLast == Spec => []CollectsReported
<1>1. IInv => CollectsReported
  BY DEF IInv, Types, ReportInv, CollectsReported, Finished
<1> QED
  BY <1>1, Inductive, PTL

-----------------------------------------------------------------------------
(* Exactly Peers messengers, none of which leaves *)

\* Once tasks may start, all nodes are ready.
LEMMA AllReady ==
  ASSUME ExactRun, IInv, Cardinality(idleNodes) >= Peers
  PROVE  \A m \in Node : Ready(m)
<1>1. idleNodes \subseteq Node /\ Cardinality(idleNodes) >= Cardinality(Node)
  BY DEF ExactRun, IInv, Types
<1>2. idleNodes = Node
  BY <1>1, Counts, Constants
<1> QED
  BY <1>2 DEF IInv, ReportInv

\* All are then registered too, so when the counts of finished and registered
\* nodes agree, all have finished.
LEMMA AllCounted ==
  ASSUME ExactRun, IInv, ExactInv, S!ApplyComplete
  PROVE  S!AllFinished(finishedNodes') => finishedNodes' = Node
<1>1. /\ held # None /\ held.status = "COMPLETE"
      /\ finishedNodes' = finishedNodes \cup {held.id}
  BY DEF S!ApplyComplete
<1>2. held \in S!StatusCall /\ held.id \in Node
  BY <1>1, CallTypes DEF IInv, Types
<1>3. Cardinality(idleNodes) >= Peers
  BY <1>1, <1>2 DEF IInv, ReportInv, StartInv, Finished
<1>4. registeredNodes = Node
  BY <1>2, <1>3, AllReady DEF ExactInv, IInv, Types, Ready
<1>5. finishedNodes' \subseteq Node
  BY <1>1, <1>2 DEF IInv, Types
<1> QED
  BY <1>4, <1>5, SameCard, Counts DEF S!AllFinished

exactCore == <<register, registeredNodes, nodeConnections, collector, finishedNodes, printed>>

\* A messenger gets paths only by a push to its connection.
LEMMA OnlyPushed ==
  ASSUME ExactInv, IInv, UNCHANGED exactCore, NEW n \in Node,
         \A m \in Node \ {n} : paths'[m] = paths[m],
         paths[n] = "waiting" => n \in nodeConnections \/ UNCHANGED paths
  PROVE  ExactInv'
  BY DEF ExactInv, exactCore

LEMMA PathsKept ==
  ASSUME ExactInv, UNCHANGED exactCore, UNCHANGED paths
  PROVE  ExactInv'
  BY DEF ExactInv, exactCore

LEMMA MessengerExact ==
  ASSUME ExactInv, IInv, UNCHANGED exactCore, NEW n \in Node,
         \/ M!Join(n) \/ M!Registered(n) \/ M!RegistrationFails(n)
         \/ M!Leave(n) \/ M!Exit(n) \/ M!Quit(n)
         \/ (\E m : M!Dial(n, m))
         \/ M!ReportReady(n) \/ M!ReadyAnswered(n) \/ M!ReadyTimesOut(n)
         \/ M!ReportFinished(n) \/ M!FinishAnswered(n) \/ M!FinishTimesOut(n)
  PROVE  ExactInv'
<1>1. \/ UNCHANGED paths
      \/ paths[n] # "waiting" /\ \A m \in Node \ {n} : paths'[m] = paths[m]
  BY DEF M!Join, M!Registered, M!RegistrationFails, M!Leave, M!Exit, M!Quit, M!Dial, M!ReportReady,
         M!ReadyAnswered, M!ReadyTimesOut, M!ReportFinished, M!FinishAnswered, M!FinishTimesOut,
         IInv, Types
<1> QED
  BY <1>1, OnlyPushed, PathsKept

LEMMA RegisteringExact ==
  ASSUME ExactRun, ExactInv, IInv, UNCHANGED mvars,
         \/ \E n \in Node : \/ S!RegisterCheck(n) \/ S!RegisterStore(n) \/ S!RegisterConnect(n)
                            \/ S!DeregisterNode(n) \/ S!Announce(n) \/ S!ListNode(n)
         \/ S!BuildOverlay \/ S!PushEnds \/ S!MapRaceCrash
  PROVE  ExactInv'
<1> USE DEF S!membership, S!pushing, S!statuses, S!starting, S!results, mvars, ExactInv
<1>1. ASSUME NEW n \in Node, S!RegisterCheck(n) \/ S!RegisterStore(n) \/ S!RegisterConnect(n)
                               \/ S!Announce(n)
      PROVE  ExactInv'
  <2>1. /\ registeredNodes \subseteq registeredNodes'
        /\ UNCHANGED <<paths, collector, finishedNodes, printed>>
        /\ register' \in [Node -> RegisterStages]
    BY <1>1 DEF RegisterStages, S!RegisterCheck, S!RegisterStore, S!RegisterConnect, S!Announce
  <2>2. nodeConnections' \subseteq registeredNodes'
    BY <1>1 DEF S!RegisterCheck, S!RegisterStore, S!RegisterConnect, S!Announce
  <2>3. \A m \in Node : register'[m] = "dialing" => m \in registeredNodes'
    BY <1>1 DEF S!RegisterCheck, S!RegisterStore, S!RegisterConnect, S!Announce
  <2> QED
    BY <2>1, <2>2, <2>3
<1>2. ASSUME NEW n \in Node, S!DeregisterNode(n)
      PROVE  ExactInv'
  BY <1>2 DEF S!DeregisterNode, ExactRun
<1>3. CASE (\E n \in Node : S!ListNode(n)) \/ S!BuildOverlay \/ S!PushEnds \/ S!MapRaceCrash
  BY <1>3 DEF S!ListNode, S!BuildOverlay, S!PushEnds, S!MapRaceCrash
<1> QED
  BY <1>1, <1>2, <1>3

LEMMA ExactStep == ExactRun /\ IInv /\ ExactInv /\ [Next]_vars => ExactInv'
<1> SUFFICES ASSUME ExactRun, IInv, ExactInv, [Next]_vars PROVE ExactInv'
  OBVIOUS
<1> USE DEF ServerStep, MessengerStep, Fault
<1>1. ASSUME UNCHANGED svars
      PROVE  UNCHANGED exactCore
  BY <1>1 DEF svars, exactCore
<1>2. ASSUME NEW n \in Node, Progress(n) \/ Leave(n) \/ Quit(n)
      PROVE  ExactInv'
  <2>1. CASE HandleRegister(n) \/ Connect(n) \/ HandleDeregister(n)
    BY <2>1, RegisteringExact DEF HandleRegister, Connect, HandleDeregister
  <2>2. CASE \/ Join(n) \/ RegisterAnswer(n) \/ Exit(n) \/ (\E m \in Node : Dial(n, m))
             \/ ReportReady(n) \/ ReadyAnswered(n) \/ ReportFinished(n) \/ FinishAnswered(n)
             \/ Leave(n) \/ Quit(n)
    BY <1>1, <2>2, MessengerExact
       DEF Join, RegisterAnswer, Exit, Dial, ReportReady, ReadyAnswered, ReportFinished,
           FinishAnswered, Leave, Quit
  <2> QED
    BY <1>2, <2>1, <2>2 DEF Progress
<1>3. ASSUME NEW n \in Node, RegisterTimesOut(n) \/ ReadyTimesOut(n) \/ FinishTimesOut(n)
                             \/ ExitFails(n)
      PROVE  ExactInv'
  BY <1>1, <1>3, MessengerExact DEF RegisterTimesOut, ReadyTimesOut, FinishTimesOut, ExitFails
<1>4. ASSUME Monitor
      PROVE  ExactInv'
  <2>1. ASSUME NEW n \in Node, PushPaths(n) \/ PushBreaks(n)
        PROVE  ExactInv'
    <3>1. n \in nodeConnections /\ UNCHANGED exactCore
      BY <2>1 DEF PushPaths, PushBreaks, S!PushPaths, S!Unvisited, S!membership, S!statuses,
          S!starting,
                  S!results, exactCore
    <3>2. \A m \in Node \ {n} : paths'[m] = paths[m]
      BY <2>1 DEF PushPaths, PushBreaks, M!PushPaths, M!PushBreaks, mvars, IInv, Types
    <3> QED
      BY <3>1, <3>2, OnlyPushed
  <2>2. ASSUME UNCHANGED mvars, S!ApplyReady \/ \E h \in S!StatusCall : S!TakeStatus(h)
        PROVE  ExactInv'
    <3>1. UNCHANGED exactCore /\ UNCHANGED paths
      BY <2>2 DEF S!ApplyReady, S!TakeStatus, S!membership, S!pushing, S!statuses, S!starting,
                  S!results, mvars, exactCore
    <3> QED
      BY <3>1, PathsKept
  <2>3. ASSUME UNCHANGED mvars, S!ApplyComplete
        PROVE  ExactInv'
    <3>1. /\ UNCHANGED <<register, registeredNodes, nodeConnections, paths, printed>>
          /\ finishedNodes \subseteq finishedNodes'
      BY <2>3 DEF S!ApplyComplete, S!membership, S!pushing, S!statuses, S!starting, S!results,
                  mvars
    <3>2. finishedNodes' = Node \/ collector' = collector
      BY <2>3, AllCounted DEF S!ApplyComplete
    <3>3. finishedNodes' \subseteq Node
      BY InvStep DEF IInv, Types
    <3> QED
      BY <3>1, <3>2, <3>3 DEF ExactInv
  <2> QED
    BY <1>4, <2>1, <2>2, <2>3, RegisteringExact DEF Monitor, TakeStatus
<1>5. ASSUME NEW s \in Node, Starting(s)
      PROVE  ExactInv'
  <2>1. UNCHANGED paths
    BY <1>5 DEF Starting, StartArrives, StartMissed, StartOther, M!StartTask, mvars
  <2>2. UNCHANGED exactCore
    BY <1>5 DEF Starting, StartArrives, StartMissed, StartOther, S!StartTask, S!StartRetry,
                S!StartEnds, S!membership, S!pushing, S!statuses, S!results, exactCore
  <2> QED
    BY <2>1, <2>2, PathsKept
<1>6. ASSUME NEW k \in S!CompleteCall, Collecting(k)
      PROVE  ExactInv'
  <2>1. /\ UNCHANGED <<register, registeredNodes, nodeConnections, paths, finishedNodes>>
        /\ collector[k].pc = "range"
    BY <1>6 DEF Collecting, Collect, S!CollectMetadata, S!CollectEnds,
                S!membership, S!pushing, S!statuses, S!starting, mvars
  <2> QED
    BY <2>1 DEF ExactInv
<1>7. CASE ServerStep(S!MapRaceCrash)
  BY <1>7, RegisteringExact
<1>8. CASE UNCHANGED vars
  BY <1>8, PathsKept DEF vars, svars, mvars, exactCore
<1> QED
  BY <1>2, <1>3, <1>4, <1>5, <1>6, <1>7, <1>8 DEF Next

LEMMA ExactInit == Init => ExactInv
  BY DEF Init, S!Init, M!MessengerInit, ExactInv, RegisterStages

LEMMA ExactInductive == ASSUME ExactRun PROVE Spec => []ExactInv
  BY ExactInit, ExactStep, Inductive, PTL DEF Spec

-----------------------------------------------------------------------------
(* Routes *)

AllEdges == IF Cardinality(Node) > 1 THEN Node ELSE {}

\* The overlay is built of all nodes.
BuiltOfAll ==
  /\ register \in [Node -> RegisterStages]
  /\ (\E n \in Node : register[n] = "announcing") \/ monitor = "building" => registeredNodes = Node
  /\ monitor = "building" => monitorLoop.must = Node /\ monitorLoop.seen \subseteq Node
  /\ monitor = "pushing" => overlay = Node

\* Its edges are all that each of them is pushed, broken streams included, and a
\* node is connected to all others before it is ready.
ConnectedInv ==
  /\ view \in [Node -> SUBSET Node] /\ conns \in [Node -> SUBSET Node]
  /\ broken \in [Node -> SUBSET AllEdges]
  /\ \A n \in Node : /\ paths[n] # "waiting" => view[n] = AllEdges
                     /\ Ready(n) => M!Dialed(n)

RouteInv == BuiltOfAll /\ ConnectedInv

routeCore ==
  <<paths, broken, view, conns, registeredNodes, register, monitor, monitorLoop, overlay>>

LEMMA RoutesKept ==
  ASSUME RouteInv, UNCHANGED routeCore
  PROVE  RouteInv'
  BY DEF RouteInv, BuiltOfAll, ConnectedInv, routeCore, Ready, M!Dialed, M!PeersOf

LEMMA ServerRoutes ==
  ASSUME ExactRun, IInv, RouteInv, UNCHANGED mvars,
         \/ \E n \in Node : \/ S!RegisterCheck(n) \/ S!RegisterStore(n) \/ S!RegisterConnect(n)
                            \/ S!DeregisterNode(n) \/ S!Announce(n) \/ S!ListNode(n)
         \/ S!BuildOverlay \/ S!PushEnds
  PROVE  RouteInv'
<1>1. BuiltOfAll'
  <2> USE DEF RouteInv, BuiltOfAll, IInv, Types, RegisterStages, S!membership, S!pushing
  <2>1. ASSUME NEW n \in Node, S!RegisterConnect(n)
        PROVE  BuiltOfAll'
    <3>1. S!PeersRegistered => registeredNodes = Node
      BY SameCard, Counts DEF S!PeersRegistered, ExactRun
    <3> QED
      BY <2>1, <3>1 DEF S!RegisterConnect
  <2>2. ASSUME NEW n \in Node, S!RegisterCheck(n) \/ S!RegisterStore(n) \/ S!Announce(n)
        PROVE  BuiltOfAll'
    BY <2>2 DEF S!RegisterCheck, S!RegisterStore, S!Announce, S!RangeOver
  <2>3. ASSUME NEW n \in Node, S!DeregisterNode(n)
        PROVE  BuiltOfAll'
    BY <2>3 DEF S!DeregisterNode, ExactRun
  <2>4. ASSUME NEW n \in Node, S!ListNode(n)
        PROVE  BuiltOfAll'
    BY <2>4 DEF S!ListNode, S!Visit
  <2>5. CASE S!BuildOverlay \/ S!PushEnds
    BY <2>5 DEF S!BuildOverlay, S!PushEnds, S!Exhausted
  <2> QED
    BY <2>1, <2>2, <2>3, <2>4, <2>5
<1>2. ConnectedInv'
  BY DEF mvars, RouteInv, ConnectedInv, Ready, M!Dialed, M!PeersOf
<1> QED
  BY <1>1, <1>2 DEF RouteInv

LEMMA PushRoutes ==
  ASSUME RouteInv, IInv, NEW n \in Node, PushPaths(n) \/ PushBreaks(n)
  PROVE  RouteInv'
<1>1. /\ overlay = Node /\ monitor = "pushing"
      /\ UNCHANGED <<register, registeredNodes, monitor, overlay>>
  BY DEF RouteInv, BuiltOfAll, PushPaths, PushBreaks, Fault, S!PushPaths, S!membership
<1>2. OnEdges = AllEdges /\ AllEdges \in SUBSET Node
  BY <1>1 DEF OnEdges, AllEdges
<1>3. BuiltOfAll'
  BY <1>1 DEF RouteInv, BuiltOfAll
<1>4. CASE UNCHANGED mvars
  BY <1>3, <1>4 DEF mvars, RouteInv, ConnectedInv, Ready, M!Dialed, M!PeersOf
<1>5. CASE M!PushPaths(n, OnEdges)
  <2>1. broken[n] \subseteq AllEdges
    BY DEF RouteInv, ConnectedInv
  <2>2. UNCHANGED <<conns, broken>>
        /\ \/ UNCHANGED <<paths, view>>
           \/ /\ paths' = [paths EXCEPT ![n] = "dialing"]
              /\ view' = [view EXCEPT ![n] = AllEdges]
    BY <1>2, <1>5, <2>1 DEF M!PushPaths
  <2>3. ConnectedInv'
    BY <1>2, <2>2 DEF RouteInv, ConnectedInv, IInv, Types, Ready, M!Dialed, M!PeersOf
  <2> QED
    BY <1>3, <2>3 DEF RouteInv
<1>6. ASSUME NEW nodes \in SUBSET OnEdges, M!PushBreaks(n, nodes)
      PROVE  RouteInv'
  <2>1. UNCHANGED <<paths, view, conns>> /\ broken' \in [Node -> SUBSET AllEdges]
    BY <1>2, <1>6 DEF M!PushBreaks, RouteInv, ConnectedInv
  <2> QED
    BY <1>3, <2>1 DEF RouteInv, ConnectedInv, Ready, M!Dialed, M!PeersOf
<1> QED
  BY <1>3, <1>4, <1>5, <1>6 DEF PushPaths, PushBreaks, Fault, RouteInv

LEMMA MessengerRoutes ==
  ASSUME RouteInv, IInv, UNCHANGED svars, NEW n \in Node,
         \/ (\E m \in Node : M!Dial(n, m)) \/ M!ReportReady(n) \/ M!ReadyAnswered(n)
  PROVE  RouteInv'
<1>1. BuiltOfAll'
  BY DEF svars, RouteInv, BuiltOfAll
<1>2. UNCHANGED <<broken, view>>
  BY DEF M!Dial, M!ReportReady, M!ReadyAnswered
<1>3. ASSUME NEW m \in Node, M!Dial(n, m)
      PROVE  ConnectedInv'
  BY <1>2, <1>3 DEF M!Dial, RouteInv, ConnectedInv, Ready, M!Dialed, M!PeersOf
<1>4. ASSUME M!ReportReady(n) \/ M!ReadyAnswered(n)
      PROVE  ConnectedInv'
  BY <1>2, <1>4 DEF M!ReportReady, M!ReadyAnswered, IInv, Types, RouteInv, ConnectedInv, Ready,
                    M!Dialed, M!PeersOf
<1> QED
  BY <1>1, <1>3, <1>4 DEF RouteInv

LEMMA RouteStep == ExactRun /\ IInv /\ RouteInv /\ [Next]_vars => RouteInv'
<1> SUFFICES ASSUME ExactRun, IInv, RouteInv, [Next]_vars PROVE RouteInv'
  OBVIOUS
<1> USE DEF ServerStep, MessengerStep, Fault
<1>1. ASSUME NEW n \in Node, Progress(n) \/ Leave(n) \/ Quit(n)
      PROVE  RouteInv'
  <2>1. CASE HandleRegister(n) \/ Connect(n) \/ HandleDeregister(n)
    BY <2>1, ServerRoutes DEF HandleRegister, Connect, HandleDeregister
  <2>2. CASE (\E m \in Node : Dial(n, m)) \/ ReportReady(n) \/ ReadyAnswered(n)
    BY <2>2, MessengerRoutes DEF Dial, ReportReady, ReadyAnswered
  <2>3. CASE \/ Join(n) \/ RegisterAnswer(n) \/ Exit(n) \/ ReportFinished(n)
             \/ FinishAnswered(n) \/ Leave(n) \/ Quit(n)
    BY <2>3, RoutesKept
       DEF Join, RegisterAnswer, Exit, ReportFinished, FinishAnswered, Leave, Quit, M!Join,
           M!Registered, M!Exit, M!Quit, M!ReportFinished, M!FinishAnswered, M!Leave,
           svars, routeCore
  <2> QED
    BY <1>1, <2>1, <2>2, <2>3 DEF Progress
<1>2. ASSUME NEW n \in Node, RegisterTimesOut(n) \/ ReadyTimesOut(n) \/ FinishTimesOut(n)
                             \/ ExitFails(n)
      PROVE  RouteInv'
  BY <1>2, RoutesKept DEF RegisterTimesOut, ReadyTimesOut, FinishTimesOut, ExitFails,
                          M!RegistrationFails, M!ReadyTimesOut, M!FinishTimesOut, M!Exit, svars,
                          routeCore
<1>3. ASSUME Monitor
      PROVE  RouteInv'
  <2>1. ASSUME UNCHANGED mvars,
               S!ApplyReady \/ S!ApplyComplete \/ \E h \in S!StatusCall : S!TakeStatus(h)
        PROVE  RouteInv'
    BY <2>1, RoutesKept DEF S!ApplyReady, S!ApplyComplete, S!TakeStatus, S!membership, S!pushing,
                            mvars, routeCore
  <2> QED
    BY <1>3, <2>1, ServerRoutes, PushRoutes DEF Monitor, TakeStatus
<1>4. ASSUME NEW s \in Node, Starting(s)
      PROVE  RouteInv'
  BY <1>4, RoutesKept DEF Starting, StartArrives, StartMissed, StartOther, M!StartTask,
         S!StartTask, S!StartRetry, S!StartEnds, S!membership, S!pushing, mvars, routeCore
<1>5. ASSUME NEW k \in S!CompleteCall, Collecting(k)
      PROVE  RouteInv'
  BY <1>5, RoutesKept DEF Collecting, Collect, S!CollectMetadata, S!CollectEnds, S!membership,
                          S!pushing, mvars, routeCore
<1>6. CASE ServerStep(S!MapRaceCrash)
  BY <1>6, RoutesKept DEF S!MapRaceCrash, S!membership, S!pushing, mvars, routeCore
<1>7. CASE UNCHANGED vars
  BY <1>7, RoutesKept DEF vars, svars, mvars, routeCore
<1> QED
  BY <1>1, <1>2, <1>3, <1>4, <1>5, <1>6, <1>7 DEF Next

\* With exactly Peers messengers none of which leaves, no message meets a node
\* that cannot pass it on: whoever sends, all others have computed their paths
\* on the same edges and are connected.
THEOREM Routes == ASSUME ExactRun PROVE Spec => []Routable
<1>1. Init => RouteInv
  BY DEF Init, S!Init, M!MessengerInit, RouteInv, BuiltOfAll, ConnectedInv, RegisterStages, Ready
<1>2. IInv /\ RouteInv => Routable
  <2> SUFFICES ASSUME IInv, RouteInv, NEW n \in Node, NEW m \in view[n], task[n] = "sending"
               PROVE  /\ paths[m] \in {"reporting", "done"}
                      /\ view[m] = view[n]
                      /\ view[m] \ {m} \subseteq conns[m]
    BY DEF Routable
  <2>1. Cardinality(idleNodes) >= Peers
    BY DEF IInv, StartInv
  <2>2. m \in Node /\ Ready(m) /\ Ready(n)
    BY <2>1, AllReady DEF RouteInv, ConnectedInv
  <2> QED
    BY <2>2 DEF RouteInv, ConnectedInv, Ready, M!Dialed, M!PeersOf
<1> QED
  BY <1>1, <1>2, RouteStep, Inductive, PTL DEF Spec

-----------------------------------------------------------------------------
(* The system implements TaskRun *)

stages == [n \in Node |-> Stage(n)]

\* Nothing happens, in the terms of TaskRun.
LEMMA Stutters ==
  ASSUME \A n \in Node : Stage(n)' = Stage(n), printed' = printed
  PROVE  UNCHANGED <<stages, printed>>
  BY DEF stages

LEMMA SameStages ==
  ASSUME UNCHANGED <<paths, task, printed>>
  PROVE  UNCHANGED <<stages, printed>>
  BY DEF stages, Stage

\* One node goes on to its next stage.
LEMMA StageMoves ==
  ASSUME NEW n \in Node, NEW to, \A m \in Node \ {n} : Stage(m)' = Stage(m), Stage(n)' = to
  PROVE  stages' = [stages EXCEPT ![n] = to]
  BY DEF stages

LEMMA PathsStep ==
  ASSUME ExactRun, IInv, NEW n \in Node, UNCHANGED <<task, printed>>,
         \/ paths[n] = "waiting" /\ paths' = [paths EXCEPT ![n] = "dialing"]
         \/ paths[n] = "dialing" /\ paths' = [paths EXCEPT ![n] = "reporting"]
         \/ paths[n] = "reporting" /\ paths' = [paths EXCEPT ![n] = "done"]
  PROVE  [Run!Next]_<<stages, printed>>
<1>1. \A m \in Node \ {n} : Stage(m)' = Stage(m)
  BY DEF IInv, Types, Stage
<1>2. CASE paths[n] = "dialing" /\ paths' = [paths EXCEPT ![n] = "reporting"]
  <2>1. task[n] = "waiting"
    BY <1>2, AllReady DEF IInv, StartInv, Ready
  <2>2. Stage(n) = "joining" /\ Stage(n)' = "ready"
    BY <1>2, <2>1 DEF IInv, Types, Stage
  <2>3. Run!GetReady(n)
    BY <1>1, <2>2, StageMoves DEF Run!GetReady, stages
  <2> QED
    BY <2>3 DEF Run!Next
<1>3. CASE ~(paths[n] = "dialing" /\ paths' = [paths EXCEPT ![n] = "reporting"])
  <2>1. Stage(n)' = Stage(n)
    BY <1>3 DEF IInv, Types, Stage
  <2> QED
    BY <1>1, <2>1, Stutters
<1> QED
  BY <1>2, <1>3

LEMMA StartStep ==
  ASSUME ExactRun, IInv, Cardinality(idleNodes) >= Peers, NEW n \in Node,
         task[n] = "waiting", task' = [task EXCEPT ![n] = "sending"], UNCHANGED <<paths, printed>>
  PROVE  Run!Next
<1>1. \A m \in Node \ {n} : Stage(m)' = Stage(m)
  BY DEF IInv, Types, Stage
<1>2. Stage(n) = "ready" /\ Stage(n)' = "working" /\ \A m \in Node : Stage(m) # "joining"
  BY AllReady DEF IInv, Types, Ready, Stage
<1>3. Run!Start(n)
  BY <1>1, <1>2, StageMoves DEF Run!Start, stages
<1> QED
  BY <1>3 DEF Run!Next

LEMMA FinishStep ==
  ASSUME IInv, NEW n \in Node, UNCHANGED <<paths, printed>>,
         M!ReportFinished(n) \/ M!FinishAnswered(n) \/ M!FinishTimesOut(n)
  PROVE  [Run!Next]_<<stages, printed>>
<1>1. \A m \in Node \ {n} : Stage(m)' = Stage(m)
  BY DEF IInv, Types, Stage, M!ReportFinished, M!FinishAnswered, M!FinishTimesOut
<1>2. CASE M!ReportFinished(n)
  <2>1. Stage(n) = "working" /\ Stage(n)' = "finished"
    BY <1>2 DEF IInv, Types, Stage, M!ReportFinished
  <2>2. Run!Finish(n)
    BY <1>1, <2>1, StageMoves DEF Run!Finish, stages
  <2> QED
    BY <2>2 DEF Run!Next
<1>3. CASE M!FinishAnswered(n) \/ M!FinishTimesOut(n)
  <2>1. Stage(n)' = Stage(n)
    BY <1>3 DEF IInv, Types, Stage, M!FinishAnswered, M!FinishTimesOut
  <2> QED
    BY <1>1, <2>1, Stutters
<1> QED
  BY <1>2, <1>3

LEMMA ReportStep ==
  ASSUME IInv, ExactInv, NEW k \in S!CompleteCall, S!CollectEnds(k), UNCHANGED mvars
  PROVE  [Run!Next]_<<stages, printed>>
<1>1. collector[k].pc = "range" /\ UNCHANGED <<paths, task>> /\ printed' \in {printed, TRUE}
  BY DEF S!CollectEnds, S!PrintMetadata, mvars
<1>2. \A n \in Node : Stage(n) = "finished" /\ Stage(n)' = Stage(n)
  BY <1>1 DEF ExactInv, IInv, ReportInv, Finished, Stage
<1>3. CASE printed' = printed
  BY <1>2, <1>3, Stutters
<1>4. CASE printed' = TRUE
  <2>1. Run!Report
    BY <1>2, <1>4 DEF Run!Report, stages
  <2> QED
    BY <2>1 DEF Run!Next
<1> QED
  BY <1>1, <1>3, <1>4

LEMMA RunStep ==
  ExactRun /\ IInv /\ ExactInv /\ [Next]_vars => [Run!Next]_<<stages, printed>>
<1> SUFFICES ASSUME ExactRun, IInv, ExactInv, [Next]_vars
             PROVE  [Run!Next]_<<stages, printed>>
  OBVIOUS
<1> USE DEF ServerStep, MessengerStep, Fault
<1>1. ASSUME NEW n \in Node, Progress(n) \/ Leave(n) \/ Quit(n)
      PROVE  [Run!Next]_<<stages, printed>>
  <2>1. CASE \/ HandleRegister(n) \/ Connect(n) \/ HandleDeregister(n)
             \/ Join(n) \/ RegisterAnswer(n) \/ Exit(n) \/ (\E m \in Node : Dial(n, m))
             \/ Leave(n) \/ Quit(n)
    <3>1. UNCHANGED <<paths, task, printed>>
      BY <2>1 DEF HandleRegister, Connect, HandleDeregister, Join, RegisterAnswer, Exit, Dial,
                  Leave, Quit,
                  S!RegisterCheck, S!RegisterStore, S!RegisterConnect, S!DeregisterNode, S!results,
                  M!Join, M!Registered, M!Exit, M!Quit, M!Dial, M!Leave, mvars, svars
    <3> QED
      BY <3>1, SameStages
  <2>2. CASE ReportReady(n) \/ ReadyAnswered(n)
    BY <2>2, PathsStep DEF ReportReady, ReadyAnswered, M!ReportReady, M!ReadyAnswered, svars
  <2>3. CASE ReportFinished(n) \/ FinishAnswered(n)
    <3>1. UNCHANGED <<paths, printed>> /\ (M!ReportFinished(n) \/ M!FinishAnswered(n))
      BY <2>3 DEF ReportFinished, FinishAnswered, M!ReportFinished, M!FinishAnswered, svars
    <3> QED
      BY <3>1, FinishStep
  <2> QED
    BY <1>1, <2>1, <2>2, <2>3 DEF Progress
<1>2. ASSUME NEW n \in Node, RegisterTimesOut(n) \/ ReadyTimesOut(n) \/ ExitFails(n)
      PROVE  [Run!Next]_<<stages, printed>>
  <2>1. UNCHANGED <<paths, task, printed>>
    BY <1>2 DEF RegisterTimesOut, ReadyTimesOut, ExitFails, M!RegistrationFails,
                M!ReadyTimesOut, M!Exit, svars
  <2> QED
    BY <2>1, SameStages
<1>3. ASSUME NEW n \in Node, FinishTimesOut(n)
      PROVE  [Run!Next]_<<stages, printed>>
  <2>1. M!FinishTimesOut(n) /\ UNCHANGED <<paths, printed>>
    BY <1>3 DEF FinishTimesOut, M!FinishTimesOut, svars
  <2> QED
    BY <2>1, FinishStep
<1>4. ASSUME Monitor
      PROVE  [Run!Next]_<<stages, printed>>
  <2>1. ASSUME NEW n \in Node, PushPaths(n) \/ PushBreaks(n)
        PROVE  [Run!Next]_<<stages, printed>>
    <3>1. printed' = printed /\ task' = task
      BY <2>1 DEF PushPaths, PushBreaks, S!PushPaths, S!results, M!PushPaths, M!PushBreaks, mvars
    <3>2. \/ paths' = paths
          \/ paths[n] = "waiting" /\ paths' = [paths EXCEPT ![n] = "dialing"]
      BY <2>1 DEF PushPaths, PushBreaks, M!PushPaths, M!PushBreaks, mvars
    <3> QED
      BY <3>1, <3>2, PathsStep, SameStages
  <2>2. CASE ~\E n \in Node : PushPaths(n) \/ PushBreaks(n)
    <3>1. UNCHANGED <<paths, task, printed>>
      BY <1>4, <2>2 DEF Monitor, TakeStatus, S!Announce, S!ListNode, S!BuildOverlay, S!PushEnds,
                        S!ApplyReady, S!ApplyComplete, S!TakeStatus, S!results, mvars
    <3> QED
      BY <3>1, SameStages
  <2> QED
    BY <2>1, <2>2
<1>5. ASSUME NEW s \in Node, Starting(s)
      PROVE  [Run!Next]_<<stages, printed>>
  <2>1. starter[s].pc = "range" /\ printed' = printed
    BY <1>5 DEF Starting, StartArrives, StartMissed, StartOther, S!StartTask, S!StartRetry,
                S!StartEnds, S!results
  <2>2. Cardinality(idleNodes) >= Peers
    BY <2>1 DEF IInv, StartInv
  <2>3. paths' = paths
        /\ \/ task' = task
           \/ \E n \in Node : task[n] = "waiting" /\ task' = [task EXCEPT ![n] = "sending"]
    BY <1>5 DEF Starting, StartArrives, StartMissed, StartOther, M!StartTask, mvars
  <2> QED
    BY <2>1, <2>2, <2>3, StartStep, SameStages
<1>6. ASSUME NEW k \in S!CompleteCall, Collecting(k)
      PROVE  [Run!Next]_<<stages, printed>>
  <2>1. ASSUME NEW n \in Node, Collect(k, n)
        PROVE  UNCHANGED <<paths, task, printed>>
    BY <2>1 DEF Collect, S!CollectMetadata, mvars
  <2> QED
    BY <1>6, <2>1, ReportStep, SameStages DEF Collecting
<1>7. CASE ServerStep(S!MapRaceCrash)
  BY <1>7, SameStages DEF S!MapRaceCrash, mvars
<1>8. CASE UNCHANGED vars
  BY <1>8, SameStages DEF vars, svars, mvars
<1> QED
  BY <1>1, <1>2, <1>3, <1>4, <1>5, <1>6, <1>7, <1>8 DEF Next

\* With exactly Peers messengers none of which leaves, the registration node and
\* the messengers implement the README's process flow, for any number of them,
\* lost requests and passed deadlines.
THEOREM Implements == ASSUME ExactRun PROVE Spec => FollowsFlow
<1>1. Init => Run!Init
  BY DEF Init, S!Init, M!MessengerInit, Run!Init, Stage
<1>2. IInv /\ ExactInv /\ [Next]_vars => [Run!Next]_<<[n \in Node |-> Stage(n)], printed>>
  BY RunStep DEF stages
<1> QED
  BY <1>1, <1>2, Inductive, ExactInductive, PTL DEF Spec, FollowsFlow, Run!Spec

-----------------------------------------------------------------------------
(* The registration node of a run is RegistrationServer *)

P == INSTANCE RegistrationServerProofs WITH
       Call <- Node, CallNode <- [n \in Node |-> n], DialCanFail <- FALSE, MayReport <- {}

LEMMA SameCount ==
  ASSUME NEW X
  PROVE  P!Cardinality(X) = S!Cardinality(X)
  BY DEF P!Cardinality, S!Cardinality

LEMMA SameCalls == P!StatusCall = S!StatusCall /\ P!CompleteCall = S!CompleteCall
  BY DEF P!StatusCall, S!StatusCall, P!CompleteCall, S!CompleteCall

LEMMA ServerConstants ==
  /\ P!ServerAssumption
  /\ ExactRun => P!ExactRegistration
<1>1. P!ServerAssumption
  BY TaskAssumption DEF TaskAssumption, S!ServerAssumption, P!ServerAssumption,
       S!IsFiniteSet, P!IsFiniteSet, P!StatusCall, S!StatusCall
<1>2. ExactRun => P!ExactRegistration
  BY DEF ExactRun, P!ExactRegistration, Cardinality, P!Cardinality
<1> QED
  BY <1>1, <1>2

LEMMA ServerInit == Init => P!Init
  BY SameCalls DEF Init, S!Init, P!Init, S!RangeOver, P!RangeOver

LEMMA SameRegistering ==
  ASSUME NEW n \in Node
  PROVE  /\ S!RegisterCheck(n) => P!RegisterCheck(n)
         /\ S!RegisterStore(n) => P!RegisterStore(n)
         /\ S!RegisterConnect(n) => P!RegisterConnect(n)
         /\ S!DeregisterNode(n) => P!DeregisterNode(n)
         /\ S!Announce(n) => P!Announce(n)
<1> USE DEF S!membership, P!membership, S!pushing, P!pushing, S!statuses, P!statuses,
    S!starting, P!starting, S!results, P!results
<1>1. S!RegisterCheck(n) => P!RegisterCheck(n)
  BY DEF S!RegisterCheck, P!RegisterCheck
<1>2. S!RegisterStore(n) => P!RegisterStore(n)
  BY DEF S!RegisterStore, P!RegisterStore
<1>3. S!RegisterConnect(n) => P!RegisterConnect(n)
  BY SameCount DEF S!RegisterConnect, P!RegisterConnect, S!PeersRegistered, P!PeersRegistered,
      S!Unlock, P!Unlock
<1>4. S!DeregisterNode(n) => P!DeregisterNode(n)
  BY DEF S!DeregisterNode, P!DeregisterNode, S!Delete, P!Delete
<1>5. S!Announce(n) => P!Announce(n)
  BY DEF S!Announce, P!Announce, S!Selecting, P!Selecting, S!Unlock, P!Unlock, S!RangeOver,
      P!RangeOver
<1> QED
  BY <1>1, <1>2, <1>3, <1>4, <1>5

LEMMA SameMonitor ==
  /\ \A n \in Node : S!ListNode(n) => P!ListNode(n)
  /\ S!BuildOverlay => P!BuildOverlay
  /\ \A n \in Node : S!PushPaths(n) => P!PushPaths(n)
  /\ S!PushEnds => P!PushEnds
  /\ \A h \in S!StatusCall : S!TakeStatus(h) => P!TakeStatus(h)
  /\ S!ApplyReady => P!ApplyReady
  /\ S!ApplyComplete => P!ApplyComplete
<1> USE DEF S!membership, P!membership, S!pushing, P!pushing, S!statuses, P!statuses,
    S!starting, P!starting, S!results, P!results
<1>1. S!BuildOverlay => P!BuildOverlay
  BY DEF S!BuildOverlay, P!BuildOverlay, S!Exhausted, P!Exhausted, S!RangeOver, P!RangeOver
<1>2. \A n \in Node : S!PushPaths(n) => P!PushPaths(n)
  BY DEF S!PushPaths, P!PushPaths, S!Unvisited, P!Unvisited, S!Visit, P!Visit
<1>3. S!PushEnds => P!PushEnds
  BY DEF S!PushEnds, P!PushEnds, S!PushedToAll, P!PushedToAll, S!Exhausted, P!Exhausted
<1>4. \A h \in S!StatusCall : S!TakeStatus(h) => P!TakeStatus(h)
  BY DEF S!TakeStatus, P!TakeStatus, S!Selecting, P!Selecting
<1>5. S!ApplyReady => P!ApplyReady
  BY SameCount DEF S!ApplyReady, P!ApplyReady, S!AllIdle, P!AllIdle, S!Starting, P!Starting,
      S!RangeOver, P!RangeOver
<1>6. S!ApplyComplete => P!ApplyComplete
  BY SameCount DEF S!ApplyComplete, P!ApplyComplete, S!AllFinished, P!AllFinished, S!RangeOver,
      P!RangeOver
<1>7. \A n \in Node : S!ListNode(n) => P!ListNode(n)
  BY DEF S!ListNode, P!ListNode, S!Unvisited, P!Unvisited, S!Visit, P!Visit
<1> QED
  BY <1>1, <1>2, <1>3, <1>4, <1>5, <1>6, <1>7

LEMMA SameStarting ==
  ASSUME NEW s \in Node
  PROVE  /\ \A n \in Node, answered \in BOOLEAN :
               S!StartTask(s, n, answered) => P!StartTask(s, n, answered)
         /\ S!StartRetry(s) => P!StartRetry(s)
         /\ S!StartEnds(s) => P!StartEnds(s)
  BY DEF S!StartTask, P!StartTask, S!StartRetry, P!StartRetry, S!StartEnds, P!StartEnds,
      S!Starting, P!Starting, S!Visit, P!Visit, S!Unvisited, P!Unvisited, S!MayRetry,
      P!MayRetry, S!Exhausted, P!Exhausted, S!membership, P!membership, S!pushing, P!pushing,
      S!statuses, P!statuses, S!results, P!results

LEMMA SameCollecting ==
  /\ \A k \in S!CompleteCall, n \in Node, answer \in {"data", "nil"} :
       S!CollectMetadata(k, n, answer) => P!CollectMetadata(k, n, answer)
  /\ \A k \in S!CompleteCall : S!CollectEnds(k) => P!CollectEnds(k)
  /\ S!MapRaceCrash => P!MapRaceCrash
<1> USE SameCalls DEF S!membership, P!membership, S!pushing, P!pushing, S!statuses, P!statuses,
    S!starting, P!starting, S!results, P!results
<1>1. \A k \in S!CompleteCall, n \in Node, answer \in {"data", "nil"} :
       S!CollectMetadata(k, n, answer) => P!CollectMetadata(k, n, answer)
  BY DEF S!CollectMetadata, P!CollectMetadata, S!Unvisited, P!Unvisited, S!Visit, P!Visit
<1>2. \A k \in S!CompleteCall : S!CollectEnds(k) => P!CollectEnds(k)
  BY DEF S!CollectEnds, P!CollectEnds, S!Exhausted, P!Exhausted, S!PrintMetadata, P!PrintMetadata
<1>3. S!MapRaceCrash => P!MapRaceCrash
  BY DEF S!MapRaceCrash, P!MapRaceCrash, S!RaceOnRegistered, P!RaceOnRegistered,
      S!RaceOnConnections, P!RaceOnConnections, S!RaceOnResults, P!RaceOnResults, S!Collecting,
      P!Collecting
<1> QED
  BY <1>1, <1>2, <1>3

\* A step of the run is a step of the registration node, or leaves it alone.
LEMMA ServerSteps == [Next]_vars => [P!Next]_(P!vars)
<1> SUFFICES ASSUME [Next]_vars PROVE [P!Next]_(P!vars)
  OBVIOUS
<1> USE SameCalls DEF ServerStep, MessengerStep, Fault
<1>0. UNCHANGED svars => UNCHANGED P!vars
  BY DEF svars, P!vars, P!membership, P!pushing, P!statuses, P!starting, P!results
<1>1. ASSUME NEW n \in Node, Progress(n) \/ Leave(n) \/ Quit(n)
      PROVE  [P!Next]_(P!vars)
  <2>1. CASE HandleRegister(n) \/ Connect(n) \/ HandleDeregister(n)
    BY <2>1, SameRegistering
       DEF HandleRegister, Connect, HandleDeregister, P!Next, P!RegisterNode
  <2>2. CASE \/ Join(n) \/ RegisterAnswer(n) \/ Exit(n) \/ (\E m \in Node : Dial(n, m))
             \/ ReportReady(n) \/ ReadyAnswered(n) \/ ReportFinished(n) \/ FinishAnswered(n)
             \/ Leave(n) \/ Quit(n)
    BY <1>0, <2>2 DEF Join, RegisterAnswer, Exit, Dial, ReportReady, ReadyAnswered,
                      ReportFinished, FinishAnswered, Leave, Quit
  <2> QED
    BY <1>1, <2>1, <2>2 DEF Progress
<1>2. ASSUME NEW n \in Node, RegisterTimesOut(n) \/ ReadyTimesOut(n) \/ FinishTimesOut(n)
                             \/ ExitFails(n)
      PROVE  [P!Next]_(P!vars)
  BY <1>0, <1>2 DEF RegisterTimesOut, ReadyTimesOut, FinishTimesOut, ExitFails
<1>3. ASSUME Monitor
      PROVE  P!Next
  BY <1>3, SameMonitor, SameRegistering
     DEF Monitor, PushPaths, PushBreaks, TakeStatus, P!Next, P!MonitorOverlayStatus
<1>4. ASSUME NEW s \in Node, Starting(s)
      PROVE  P!Next
  <2>1. up /\ \/ \E n \in Node, answered \in BOOLEAN : S!StartTask(s, n, answered)
              \/ S!StartRetry(s) \/ S!StartEnds(s)
    BY <1>4 DEF Starting, StartArrives, StartMissed, StartOther
  <2> QED
    BY <2>1, SameStarting DEF P!Next, P!StartTasks
<1>5. ASSUME NEW k \in S!CompleteCall, Collecting(k)
      PROVE  P!Next
  <2>1. up /\ \/ \E n \in Node, answer \in {"data", "nil"} : S!CollectMetadata(k, n, answer)
              \/ S!CollectEnds(k)
    BY <1>5 DEF Collecting, Collect
  <2> QED
    BY <2>1, SameCollecting DEF P!Next, P!RequestMetadata
<1>6. ASSUME ServerStep(S!MapRaceCrash)
      PROVE  P!Next
  BY <1>6, SameCollecting DEF P!Next
<1>7. CASE UNCHANGED vars
  BY <1>0, <1>7 DEF vars
<1> QED
  BY <1>1, <1>2, <1>3, <1>4, <1>5, <1>6, <1>7 DEF Next

\* Whatever the messengers do, the registration node of a run behaves as
\* RegistrationServer allows, so what is proved of that module holds of the run.
THEOREM ServerImplements == Spec => P!Spec
  BY ServerInit, ServerSteps, PTL DEF Spec, P!Spec

LEMMA SameTypes == P!TypeOK => S!TypeOK
  BY SameCalls DEF P!TypeOK, S!TypeOK, P!Loop, S!Loop, P!Starter, S!Starter, P!Collector,
                   S!Collector

LEMMA ServerTyped == Spec => []S!TypeOK
  BY ServerImplements, ServerConstants, P!TypeCorrect, SameTypes, PTL

LEMMA MessengerTyped ==
  ASSUME M!MessengerTypeOK, NEW n \in Node,
         \/ M!Join(n) \/ M!Registered(n) \/ M!RegistrationFails(n)
         \/ M!Leave(n) \/ M!Exit(n) \/ M!Quit(n)
         \/ (\E nodes \in SUBSET Node : M!PushPaths(n, nodes) \/ M!PushBreaks(n, nodes))
         \/ (\E m \in Node : M!Dial(n, m))
         \/ M!ReportReady(n) \/ M!ReadyAnswered(n) \/ M!ReadyTimesOut(n) \/ M!StartTask(n)
         \/ M!ReportFinished(n) \/ M!FinishAnswered(n) \/ M!FinishTimesOut(n)
  PROVE  M!MessengerTypeOK'
<1> USE DEF M!MessengerTypeOK, M!End
<1>1. CASE \/ M!Join(n) \/ M!Registered(n) \/ M!RegistrationFails(n)
           \/ M!Leave(n) \/ M!Exit(n) \/ M!Quit(n)
  BY <1>1 DEF M!Join, M!Registered, M!RegistrationFails, M!Leave, M!Exit, M!Quit
<1>2. ASSUME NEW nodes \in SUBSET Node, M!PushPaths(n, nodes) \/ M!PushBreaks(n, nodes)
      PROVE  M!MessengerTypeOK'
  BY <1>2 DEF M!PushPaths, M!PushBreaks
<1>3. ASSUME NEW m \in Node, M!Dial(n, m)
      PROVE  M!MessengerTypeOK'
  BY <1>3 DEF M!Dial
<1>4. CASE M!ReportReady(n) \/ M!ReadyAnswered(n) \/ M!ReadyTimesOut(n)
  BY <1>4 DEF M!ReportReady, M!ReadyAnswered, M!ReadyTimesOut
<1>5. CASE M!StartTask(n)
  BY <1>5 DEF M!StartTask
<1>6. CASE M!ReportFinished(n) \/ M!FinishAnswered(n)
  BY <1>6 DEF M!ReportFinished, M!FinishAnswered
<1>7. CASE M!FinishTimesOut(n)
  BY <1>7, TaskAssumption DEF M!FinishTimesOut, TaskAssumption, S!ServerAssumption
<1> QED
  BY <1>1, <1>2, <1>3, <1>4, <1>5, <1>6, <1>7

LEMMA MessengerStays ==
  ASSUME M!MessengerTypeOK, UNCHANGED mvars
  PROVE  M!MessengerTypeOK'
  BY DEF M!MessengerTypeOK, mvars

LEMMA MessengersStep ==
  S!TypeOK /\ M!MessengerTypeOK /\ [Next]_vars => M!MessengerTypeOK'
<1> SUFFICES ASSUME S!TypeOK, M!MessengerTypeOK, [Next]_vars PROVE M!MessengerTypeOK'
  OBVIOUS
<1> USE DEF ServerStep, MessengerStep, Fault
<1>1. ASSUME NEW n \in Node, Progress(n) \/ Leave(n) \/ Quit(n)
      PROVE  M!MessengerTypeOK'
  BY <1>1, MessengerTyped, MessengerStays
     DEF Progress, HandleRegister, Connect, HandleDeregister, Join, RegisterAnswer, Exit, Dial,
         ReportReady, ReadyAnswered, ReportFinished, FinishAnswered, Leave, Quit
<1>2. ASSUME NEW n \in Node, RegisterTimesOut(n) \/ ReadyTimesOut(n) \/ FinishTimesOut(n)
                             \/ ExitFails(n)
      PROVE  M!MessengerTypeOK'
  BY <1>2, MessengerTyped DEF RegisterTimesOut, ReadyTimesOut, FinishTimesOut, ExitFails
<1>3. ASSUME Monitor
      PROVE  M!MessengerTypeOK'
  <2>1. OnEdges \in SUBSET Node
    BY DEF OnEdges, S!TypeOK
  <2>2. ASSUME NEW n \in Node, PushPaths(n) \/ PushBreaks(n)
        PROVE  M!MessengerTypeOK'
    BY <2>1, <2>2, MessengerTyped, MessengerStays DEF PushPaths, PushBreaks
  <2> QED
    BY <1>3, <2>2, MessengerStays DEF Monitor, TakeStatus
<1>4. ASSUME NEW s \in Node, Starting(s)
      PROVE  M!MessengerTypeOK'
  BY <1>4, MessengerTyped, MessengerStays DEF Starting, StartArrives, StartMissed, StartOther
<1>5. ASSUME NEW k \in S!CompleteCall, Collecting(k)
      PROVE  M!MessengerTypeOK'
  BY <1>5, MessengerStays DEF Collecting, Collect
<1>6. CASE ServerStep(S!MapRaceCrash)
  BY <1>6, MessengerStays
<1>7. CASE UNCHANGED vars
  BY <1>7, MessengerStays DEF vars
<1> QED
  BY <1>1, <1>2, <1>3, <1>4, <1>5, <1>6, <1>7 DEF Next

LEMMA FaultsStep == faults \in 0..MaxFaults /\ [Next]_vars => (faults \in 0..MaxFaults)'
<1> SUFFICES ASSUME faults \in 0..MaxFaults, [Next]_vars PROVE faults' \in 0..MaxFaults
  OBVIOUS
<1>1. faults' = faults \/ (faults < MaxFaults /\ faults' = faults + 1)
  BY DEF vars, Next, ServerStep, MessengerStep, Fault, Progress, HandleRegister, Connect,
         HandleDeregister, Join, RegisterAnswer, Exit, Dial, ReportReady, ReadyAnswered,
         ReportFinished, FinishAnswered, Leave, Quit, RegisterTimesOut, ReadyTimesOut,
         FinishTimesOut, ExitFails, Monitor, PushPaths, PushBreaks, TakeStatus, Starting,
         StartArrives, StartMissed,
         StartOther, Collecting, Collect
<1> QED
  BY <1>1, TaskAssumption DEF TaskAssumption

\* Every variable of both processes keeps its type, whoever registers, leaves or
\* dies, and whatever deadlines pass.
THEOREM TypeCorrect == Spec => []TypeOK
<1>1. Init => M!MessengerTypeOK /\ faults \in 0..MaxFaults
  BY TaskAssumption DEF Init, M!MessengerInit, M!MessengerTypeOK, TaskAssumption,
       S!ServerAssumption
<1>2. S!TypeOK /\ M!MessengerTypeOK /\ faults \in 0..MaxFaults => TypeOK
  BY DEF TypeOK
<1> QED
  BY <1>1, <1>2, ServerTyped, MessengersStep, FaultsStep, PTL DEF Spec

-----------------------------------------------------------------------------
(* The results *)

\* With exactly Peers messengers none of which leaves, a table is printed only
\* of a run that every node of the overlay has finished.
THEOREM PrintsLast == ASSUME ExactRun PROVE Spec => []PrintsFinishedRun
<1>1. IInv /\ ExactInv /\ S!TypeOK => PrintsFinishedRun
  BY DEF S!TypeOK, IInv, Types, ReportInv, ExactInv, PrintsFinishedRun, Finished
<1> QED
  BY <1>1, Inductive, ExactInductive, ServerTyped, PTL

\* When every messenger has completed its task and the registration node has
\* nothing left to do, every COMPLETE has been counted, the last one made the
\* collector, and the collector has printed.
THEOREM ResultsPrintedAtRest == ASSUME ExactRun PROVE Spec => []ResultsFollow
<1>1. TypeOK /\ P!ExactInv /\ P!ResultInv => ResultsFollow
  <2> SUFFICES ASSUME TypeOK, P!ExactInv, P!ResultInv,
                      overlay # {}, \A n \in overlay : task[n] = "done", Settled
               PROVE  printed \/ ~up
    BY DEF ResultsFollow
  <2>1. overlay = Node
    BY DEF P!ExactInv
  <2>2. ASSUME NEW n \in Node
        PROVE  n \in finishedNodes
    <3> DEFINE h == [id |-> n, status |-> "COMPLETE", attempt |-> 0]
    <3>1. h \in S!StatusCall /\ h \in P!CompleteCall /\ h.id = n
      BY TaskAssumption DEF S!StatusCall, P!CompleteCall, P!StatusCall, TaskAssumption,
           S!ServerAssumption
    <3>2. M!Reported(h)
      BY <2>1 DEF M!Reported, TypeOK, M!MessengerTypeOK
    <3>3. h \in received /\ held = None /\ h # None
      BY <3>1, <3>2, Constants DEF Settled
    <3> QED
      BY <3>1, <3>3 DEF P!ResultInv
  <2>3. finishedNodes = Node
    BY <2>2 DEF TypeOK, S!TypeOK
  <2>4. PICK k \in P!CompleteCall : collector[k].pc # "off"
    BY <2>1, <2>3 DEF P!ResultInv
  <2>5. collector[k].pc = "done"
    BY <2>4, SameCalls DEF Settled, TypeOK, S!TypeOK, S!Collector
  <2> QED
    BY <2>4, <2>5 DEF P!ResultInv
<1> QED
  BY <1>1, TypeCorrect, ServerImplements, ServerConstants, P!ExactInvariant, P!ResultInvariant,
     PTL

\* Hence the registration node keeps its promises in every such run: one start of
\* the task, no wait for mu by the monitor its holder waits for, an overlay pushed
\* to all its nodes, and a first table with data for each of them.
COROLLARY ServerPromises ==
  ASSUME ExactRun
  PROVE  Spec => /\ [](P!StartsOnce /\ P!MonitorNotStuck /\ P!OverlayReachesAll)
                 /\ P!PrintsEveryNode
  BY ServerImplements, ServerConstants, P!StartedOnce, P!NeverStuck, P!OverlayPushed,
     P!FirstTableComplete, PTL
=============================================================================
