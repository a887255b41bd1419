---------------------- MODULE RegistrationServerProofs ----------------------
(***************************************************************************)
(* Theorems about RegistrationServer, for every value of its constants.    *)
(* The inductive invariant IInv holds of any registrations, failed dials,  *)
(* exits and retries; ConnectedInv and ExactInv add what holds when nobody *)
(* may leave and when exactly Peers nodes register once each.              *)
(***************************************************************************)
EXTENDS RegistrationServer, FiniteSetTheorems, TLAPS

Holding == {"dialing", "announcing"}

\* The mutex belongs to the one handler that is between Lock and Unlock.
MutexInv == \A c \in Call : mu = c <=> register[c] \in Holding

ReadyCall(n) == [id |-> n, status |-> "READY", attempt |-> 0]

\* A node is idle only through a READY it sent after a push, applied once.
ReadyInv ==
  /\ held # None => held \in received
  /\ \A n \in Node : ReadyCall(n) \in received => n \in pushed
  /\ \A n \in idleNodes : ReadyCall(n) \in received /\ held # ReadyCall(n)

\* A start goroutine exists only since the count of idle nodes met Peers.
StarterInv ==
  /\ startSent # {} => \E s \in Node : starter[s].pc # "off"
  /\ \A s \in Node :
       starter[s].pc # "off" => s \in idleNodes /\ Cardinality(idleNodes) >= Peers

\* Only connected nodes are started, and only started nodes finish.
FinishInv ==
  /\ startSent \subseteq nodeConnections
  /\ \A h \in CompleteCall : h \in received \/ h = held => h.id \in startSent
  /\ finishedNodes \subseteq startSent

IInv == TypeOK /\ MutexInv /\ ReadyInv /\ StarterInv /\ FinishInv

\* If nobody may leave, every connected node is registered.
ConnectedInv ==
  /\ \A c \in Call : register[c] = "dialing" => CallNode[c] \in registeredNodes
  /\ nodeConnections \subseteq registeredNodes

\* Exactly Peers nodes exist, none leaves, and each makes one call.
ExactRegistration ==
  /\ MayExit = {}
  /\ DialCanFail = FALSE
  /\ Cardinality(Node) = Peers
  /\ \A c, d \in Call : CallNode[c] = CallNode[d] => c = d
  /\ \A n \in Node : \E c \in Call : CallNode[c] = n

\* Then a node is registered from the store to the end of its call, and the
\* last call to finish is the one that announces.
Stored == {"dialing", "announcing", "ok"}
ExactInv ==
  /\ \A c \in Call : CallNode[c] \in registeredNodes <=> register[c] \in Stored
  /\ \A c \in Call : register[c] = "announcing" => registeredNodes = Node
  /\ monitor # "select" \/ pushed # {} => \A c \in Call : register[c] = "ok"
  /\ monitor = "building" => monitorLoop.must = Node
  /\ overlay \in {{}, Node}

\* Every stored call that got its connection put it in the map, and the push
\* loop is over the whole overlay.
PushInv ==
  /\ \A c \in Call : register[c] \in {"announcing", "ok"} => CallNode[c] \in nodeConnections
  /\ monitor = "pushing" => overlay \subseteq monitorLoop.must /\ monitorLoop.seen \subseteq pushed
  /\ monitor = "select" => overlay \subseteq pushed

\* A collector's loop is over every node, and leaves an entry where it has been.
PrintInv ==
  /\ \A k \in CompleteCall : collector[k].pc = "range" => Node \subseteq collector[k].loop.must
  /\ \A k \in CompleteCall : \A n \in collector[k].loop.seen : metadata[n] # "none"

\* A COMPLETE call is applied after it is received, the last one makes a
\* collector, and a collector prints or the process is gone.
ResultInv ==
  /\ \A h \in CompleteCall : h \in received => h = held \/ h.id \in finishedNodes
  /\ Node # {} /\ finishedNodes = Node => \E k \in CompleteCall : collector[k].pc # "off"
  /\ \A k \in CompleteCall : collector[k].pc = "done" => printed \/ ~up

-----------------------------------------------------------------------------
LEMMA TypeInit == Init => TypeOK
<1> USE ServerAssumption DEF ServerAssumption
<1>1. RangeOver({}) \in Loop
  BY DEF RangeOver, Loop
<1>2. [pc |-> "off", loop |-> RangeOver({}), retrying |-> None, tries |-> 0] \in Starter
  BY <1>1 DEF Starter
<1>3. [pc |-> "off", loop |-> RangeOver({})] \in Collector
  BY <1>1 DEF Collector
<1> QED
  BY <1>1, <1>2, <1>3 DEF Init, TypeOK

LEMMA TypeStep ==
  ASSUME TypeOK, Next
  PROVE  TypeOK'
<1> USE ServerAssumption DEF ServerAssumption
<1>1. ASSUME NEW c \in Call, RegisterCheck(c)
       PROVE  TypeOK'
  BY <1>1 DEF RegisterCheck, TypeOK, membership, pushing, statuses, starting, results
<1>2. ASSUME NEW c \in Call, RegisterStore(c)
       PROVE  TypeOK'
  BY <1>2 DEF RegisterStore, TypeOK, membership, pushing, statuses, starting, results
<1>3. ASSUME NEW c \in Call, DialFails(c)
       PROVE  TypeOK'
  BY <1>3
  DEF DialFails, Unlock, TypeOK, membership, pushing, statuses, starting, results
<1>4. ASSUME NEW c \in Call, RegisterConnect(c)
       PROVE  TypeOK'
  BY <1>4
  DEF RegisterConnect, Unlock, PeersRegistered, TypeOK, membership, pushing, statuses,
      starting, results
<1>5. ASSUME NEW c \in Call, Announce(c)
       PROVE  TypeOK'
  BY <1>5 DEF Announce, Unlock, Loop, RangeOver, TypeOK, statuses, starting, results
<1>6. ASSUME NEW n \in Node, DeregisterNode(n)
       PROVE  TypeOK'
  BY <1>6 DEF DeregisterNode, Loop, Delete, TypeOK, statuses, starting, results
<1>7. ASSUME BuildOverlay
       PROVE  TypeOK'
  BY <1>7
  DEF BuildOverlay, Loop, RangeOver, TypeOK, membership, pushing, statuses, starting,
      results
<1>8. ASSUME NEW n \in Node, ListNode(n) \/ PushPaths(n)
       PROVE  TypeOK'
  BY <1>8
  DEF ListNode, PushPaths, Loop, Visit, TypeOK, membership, statuses, starting, results
<1>9. ASSUME PushEnds
       PROVE  TypeOK'
  BY <1>9 DEF PushEnds, TypeOK, membership, pushing, statuses, starting, results
<1>10. ASSUME NEW h \in StatusCall, TakeStatus(h)
       PROVE  TypeOK'
  BY <1>10 DEF TakeStatus, TypeOK, membership, pushing, statuses, starting, results
<1>11. ASSUME ApplyReady
       PROVE  TypeOK'
  BY <1>11
  DEF ApplyReady, Starting, Starter, Loop, RangeOver, StatusCall, TypeOK, membership,
      pushing, statuses, starting, results
<1>12. ASSUME ApplyComplete
       PROVE  TypeOK'
  BY <1>12
  DEF ApplyComplete, Collector, Loop, RangeOver, StatusCall, CompleteCall, TypeOK,
      membership, pushing, statuses, starting, results
<1>13. ASSUME NEW s \in Node, NEW n \in Node, NEW answered \in BOOLEAN, StartTask(s, n, answered)
       PROVE  TypeOK'
  <2>1. starter[s] \in Starter /\ Visit(starter[s].loop, n) \in Loop
    BY DEF TypeOK, Starter, Loop, Visit
  <2>2. starter'[s] \in Starter
    BY <1>13, <2>1 DEF StartTask, Starting, TypeOK, Starter
  <2> QED
    BY <1>13, <2>2 DEF StartTask, TypeOK, membership, pushing, statuses, results
<1>14. ASSUME NEW s \in Node, StartRetry(s)
       PROVE  TypeOK'
  <2>1. starter[s] \in Starter
    BY DEF TypeOK
  <2>2. starter'[s] \in Starter
    BY <1>14, <2>1 DEF StartRetry, Starting, MayRetry, TypeOK, Starter
  <2> QED
    BY <1>14, <2>2 DEF StartRetry, TypeOK, membership, pushing, statuses, results
<1>15. ASSUME NEW s \in Node, StartEnds(s)
       PROVE  TypeOK'
  BY <1>15
  DEF StartEnds, Starter, TypeOK, membership, pushing, statuses, starting, results
<1>16. ASSUME NEW k \in CompleteCall, NEW n \in Node, NEW answer \in {"data", "nil"},
              CollectMetadata(k, n, answer)
       PROVE  TypeOK'
  BY <1>16
  DEF CollectMetadata, Collector, Loop, Visit, TypeOK, membership, pushing, statuses,
      starting, results
<1>17. ASSUME NEW k \in CompleteCall, CollectEnds(k)
       PROVE  TypeOK'
  <2>1. printed' \in BOOLEAN /\ up' \in BOOLEAN
    BY <1>17 DEF CollectEnds, PrintMetadata, TypeOK
  <2>2. collector[k] \in Collector
    BY DEF TypeOK
  <2>3. collector'[k] \in Collector
    BY <1>17, <2>2 DEF CollectEnds, TypeOK, Collector
  <2> QED
    BY <1>17, <2>1, <2>3 DEF CollectEnds, TypeOK, membership, pushing, statuses, starting
<1>18. ASSUME NEW n \in Node, ProcessMetadata(n)
       PROVE  TypeOK'
  BY <1>18
  DEF ProcessMetadata, PrintMetadata, TypeOK, membership, pushing, statuses, starting,
      results
<1>19. ASSUME MapRaceCrash
       PROVE  TypeOK'
  BY <1>19 DEF MapRaceCrash, TypeOK, membership, pushing, statuses, starting, results
<1> QED
  BY <1>1, <1>2, <1>3, <1>4, <1>5, <1>6, <1>7, <1>8, <1>9, <1>10, <1>11, <1>12, <1>13, <1>14,
      <1>15, <1>16, <1>17, <1>18, <1>19
  DEF Next, RegisterNode, MonitorOverlayStatus, StartTasks, RequestMetadata

LEMMA MutexStep ==
  ASSUME TypeOK, MutexInv, Next
  PROVE  MutexInv'
<1> USE ServerAssumption DEF ServerAssumption
<1>1. CASE UNCHANGED <<mu, register>>
  BY <1>1 DEF MutexInv
<1>2. ASSUME NEW c \in Call, RegisterCheck(c)
       PROVE  MutexInv'
  BY <1>2 DEF RegisterCheck, MutexInv, Holding, TypeOK
<1>3. ASSUME NEW c \in Call, RegisterStore(c)
       PROVE  MutexInv'
  BY <1>3 DEF RegisterStore, MutexInv, Holding, TypeOK
<1>4. ASSUME NEW c \in Call, DialFails(c)
       PROVE  MutexInv'
  BY <1>4 DEF DialFails, Unlock, MutexInv, Holding, TypeOK
<1>5. ASSUME NEW c \in Call, RegisterConnect(c)
       PROVE  MutexInv'
  BY <1>5 DEF RegisterConnect, Unlock, MutexInv, Holding, TypeOK
<1>6. ASSUME NEW c \in Call, Announce(c)
       PROVE  MutexInv'
  BY <1>6 DEF Announce, Unlock, MutexInv, Holding, TypeOK
<1> QED
  BY <1>1, <1>2, <1>3, <1>4, <1>5, <1>6
  DEF Next, RegisterNode, MonitorOverlayStatus, StartTasks, RequestMetadata,
      membership, pushing, statuses, starting, results, DeregisterNode, ListNode, BuildOverlay,
      PushPaths, PushEnds, TakeStatus, ApplyReady, ApplyComplete, StartTask,
      StartRetry, StartEnds, CollectMetadata, CollectEnds, ProcessMetadata,
      MapRaceCrash

LEMMA ReadyStep ==
  ASSUME TypeOK, ReadyInv, Next
  PROVE  ReadyInv'
<1> USE ServerAssumption DEF ServerAssumption
<1>1. CASE UNCHANGED <<received, pushed, idleNodes, held>>
  BY <1>1 DEF ReadyInv
<1>2. ASSUME NEW n \in Node, PushPaths(n)
       PROVE  ReadyInv'
  BY <1>2 DEF PushPaths, ReadyInv, ReadyCall, TypeOK, StatusCall, pushing, statuses
<1>3. ASSUME NEW h \in StatusCall, TakeStatus(h)
       PROVE  ReadyInv'
  BY <1>3 DEF TakeStatus, ReadyInv, ReadyCall, TypeOK, StatusCall, pushing, statuses
<1>4. ASSUME ApplyReady
       PROVE  ReadyInv'
  BY <1>4 DEF ApplyReady, ReadyInv, ReadyCall, TypeOK, StatusCall, pushing, statuses
<1>5. ASSUME ApplyComplete
       PROVE  ReadyInv'
  BY <1>5 DEF ApplyComplete, ReadyInv, ReadyCall, TypeOK, StatusCall, pushing, statuses
<1> QED
  BY <1>1, <1>2, <1>3, <1>4, <1>5
  DEF Next, RegisterNode, MonitorOverlayStatus, StartTasks, RequestMetadata,
      membership, pushing, statuses, starting, results, RegisterCheck, RegisterStore,
      DialFails, RegisterConnect, Announce, DeregisterNode, ListNode, BuildOverlay, PushEnds,
      StartTask, StartRetry, StartEnds, CollectMetadata, CollectEnds, ProcessMetadata,
      MapRaceCrash

LEMMA IdleFinite ==
  ASSUME TypeOK
  PROVE  IsFiniteSet(idleNodes) /\ Cardinality(idleNodes) \in Nat
BY FS_Subset, FS_CardinalityType, ServerAssumption DEF TypeOK, ServerAssumption

\* Applying a READY adds a node that was not idle: the count grows by one.
LEMMA IdleGrows ==
  ASSUME TypeOK, ReadyInv, ApplyReady
  PROVE  Cardinality(idleNodes') = Cardinality(idleNodes) + 1
<1>1. held \in StatusCall /\ held = ReadyCall(held.id) /\ held.id \in Node
  BY DEF ApplyReady, TypeOK, StatusCall, ReadyCall
<1>2. held.id \notin idleNodes
  BY <1>1 DEF ReadyInv
<1> QED
  BY <1>2, IdleFinite, FS_AddElement DEF ApplyReady

LEMMA StarterStep ==
  ASSUME TypeOK, ReadyInv, StarterInv, Next
  PROVE  StarterInv'
<1>1. CASE UNCHANGED <<startSent, starter, idleNodes>>
  BY <1>1 DEF StarterInv
<1>2. ASSUME ApplyReady
       PROVE  StarterInv'
  <2>1. Cardinality(idleNodes') = Cardinality(idleNodes) + 1 /\ Cardinality(idleNodes) \in Nat
    BY <1>2, IdleGrows, IdleFinite
  <2>2. /\ startSent' = startSent
        /\ idleNodes' = idleNodes \cup {held.id}
        /\ held.id \in Node /\ Peers \in Nat
    BY <1>2, ServerAssumption DEF ServerAssumption, ApplyReady, TypeOK, StatusCall
  <2>3. CASE AllIdle(idleNodes')
    <3>1. /\ starter'[held.id].pc = "range"
          /\ \A s \in Node \ {held.id} : starter'[s] = starter[s]
      BY <1>2, <2>2, <2>3 DEF ApplyReady, Starting, TypeOK
    <3> QED
      BY <3>1, <2>1, <2>2, <2>3 DEF StarterInv, AllIdle
  <2>4. CASE ~AllIdle(idleNodes')
    <3>1. starter' = starter
      BY <1>2, <2>4 DEF ApplyReady
    <3> QED
      BY <3>1, <2>1, <2>2 DEF StarterInv
  <2> QED
    BY <2>3, <2>4
<1>3. ASSUME NEW s \in Node, NEW n \in Node, NEW answered \in BOOLEAN, StartTask(s, n, answered)
       PROVE  StarterInv'
  BY <1>3 DEF StartTask, StarterInv, Starting, TypeOK, statuses
<1>4. ASSUME NEW s \in Node, StartRetry(s)
       PROVE  StarterInv'
  BY <1>4 DEF StartRetry, StarterInv, Starting, TypeOK, statuses
<1>5. ASSUME NEW s \in Node, StartEnds(s)
       PROVE  StarterInv'
  BY <1>5 DEF StartEnds, StarterInv, Starting, TypeOK, statuses
<1> QED
  BY <1>1, <1>2, <1>3, <1>4, <1>5
  DEF Next, RegisterNode, MonitorOverlayStatus, StartTasks, RequestMetadata,
      membership, pushing, statuses, starting, results, RegisterCheck, RegisterStore,
      DialFails, RegisterConnect, Announce, DeregisterNode, ListNode, BuildOverlay, PushPaths,
      PushEnds, TakeStatus, ApplyComplete, CollectMetadata, CollectEnds,
      ProcessMetadata, MapRaceCrash

LEMMA FinishStep ==
  ASSUME TypeOK, FinishInv, Next
  PROVE  FinishInv'
<1> USE ServerAssumption DEF ServerAssumption
<1>1. CASE UNCHANGED <<startSent, nodeConnections, received, held, finishedNodes>>
  BY <1>1 DEF FinishInv
<1>2. ASSUME NEW c \in Call, RegisterConnect(c)
       PROVE  FinishInv'
  BY <1>2
  DEF RegisterConnect, Unlock, FinishInv, TypeOK, membership, statuses, starting,
      CompleteCall
<1>3. ASSUME NEW h \in StatusCall, TakeStatus(h)
       PROVE  FinishInv'
  BY <1>3
  DEF TakeStatus, FinishInv, TypeOK, membership, statuses, starting, CompleteCall
<1>4. ASSUME ApplyReady
       PROVE  FinishInv'
  BY <1>4
  DEF ApplyReady, FinishInv, TypeOK, membership, statuses, starting, CompleteCall
<1>5. ASSUME ApplyComplete
       PROVE  FinishInv'
  BY <1>5
  DEF ApplyComplete, FinishInv, TypeOK, membership, statuses, starting, CompleteCall,
      StatusCall
<1>6. ASSUME NEW s \in Node, NEW n \in Node, NEW answered \in BOOLEAN, StartTask(s, n, answered)
       PROVE  FinishInv'
  BY <1>6
  DEF StartTask, FinishInv, TypeOK, membership, statuses, starting, CompleteCall,
      Unvisited
<1> QED
  BY <1>1, <1>2, <1>3, <1>4, <1>5, <1>6
  DEF Next, RegisterNode, MonitorOverlayStatus, StartTasks, RequestMetadata,
      membership, pushing, statuses, starting, results, RegisterCheck, RegisterStore,
      DialFails, Announce, DeregisterNode, ListNode, BuildOverlay, PushPaths, PushEnds,
      StartRetry, StartEnds, CollectMetadata, CollectEnds, ProcessMetadata,
      MapRaceCrash

LEMMA InitIInv == Init => IInv
<1> SUFFICES ASSUME Init PROVE IInv
  OBVIOUS
<1>1. TypeOK
  BY TypeInit
<1>2. MutexInv /\ ReadyInv /\ StarterInv /\ FinishInv
  BY ServerAssumption
  DEF ServerAssumption, Init, MutexInv, Holding, ReadyInv, ReadyCall, StatusCall,
      StarterInv, FinishInv, CompleteCall
<1> QED
  BY <1>1, <1>2 DEF IInv

LEMMA StepIInv == IInv /\ [Next]_vars => IInv'
<1> SUFFICES ASSUME IInv, [Next]_vars PROVE IInv'
  OBVIOUS
<1>1. CASE Next
  BY <1>1, TypeStep, MutexStep, ReadyStep, StarterStep, FinishStep DEF IInv
<1>2. CASE UNCHANGED vars
  BY <1>2
  DEF vars, membership, pushing, statuses, starting, results, IInv, TypeOK, MutexInv,
      ReadyInv, StarterInv, FinishInv
<1> QED
  BY <1>1, <1>2

\* The inductive invariant: types, the mutex protocol, and what the counts
\* of idle and finished nodes stand for.
THEOREM Inductive == Spec => []IInv
BY InitIInv, StepIInv, PTL DEF Spec

\* Every variable keeps its type, whatever nodes register, leave or fail.
THEOREM TypeCorrect == Spec => []TypeOK
<1>1. IInv => TypeOK
  BY DEF IInv
<1> QED
  BY <1>1, Inductive, PTL

\* No StartTask leaves before Peers nodes that were pushed to are READY,
\* for any number of registrants, exits, failed dials and retries.
THEOREM BarrierHolds == Spec => []TaskBarrier
<1>1. ASSUME IInv
      PROVE  TaskBarrier
  <2>1. idleNodes \subseteq pushed
    BY <1>1 DEF IInv, ReadyInv, TypeOK
  <2> QED
    BY <1>1, <2>1 DEF IInv, StarterInv, TaskBarrier
<1> QED
  BY <1>1, Inductive, PTL

LEMMA StartsOnceStep ==
  ASSUME IInv, StartsOnce, Next
  PROVE  StartsOnce'
<1>1. CASE UNCHANGED starter
  BY <1>1 DEF StartsOnce
<1>2. ASSUME ApplyReady
       PROVE  StartsOnce'
  <2>1. Cardinality(idleNodes') = Cardinality(idleNodes) + 1 /\ Cardinality(idleNodes) \in Nat
    BY <1>2, IdleGrows, IdleFinite DEF IInv
  <2>2. CASE AllIdle(idleNodes')
    <3>1. \A s \in Node : starter[s].pc = "off"
      BY <2>1, <2>2, ServerAssumption DEF AllIdle, IInv, StarterInv, ServerAssumption
    <3>2. \A s \in Node \ {held.id} : starter'[s] = starter[s]
      BY <1>2, <2>2 DEF ApplyReady, IInv, TypeOK
    <3> QED
      BY <3>1, <3>2 DEF StartsOnce
  <2>3. CASE ~AllIdle(idleNodes')
    BY <1>2, <2>3 DEF ApplyReady, StartsOnce
  <2> QED
    BY <2>2, <2>3
<1>3. ASSUME NEW s \in Node, NEW n \in Node, NEW answered \in BOOLEAN,
             StartTask(s, n, answered)
       PROVE  StartsOnce'
  BY <1>3 DEF StartTask, Starting, StartsOnce, IInv, TypeOK
<1>4. ASSUME NEW s \in Node, StartRetry(s) \/ StartEnds(s)
       PROVE  StartsOnce'
  <2>1. \A t \in Node : starter'[t].pc # "off" => starter[t].pc # "off"
    <3>1. starter[s] \in Starter
      BY DEF IInv, TypeOK
    <3> QED
      BY <1>4, <3>1 DEF StartRetry, StartEnds, Starting, IInv, TypeOK, Starter
  <2> QED
    BY <2>1 DEF StartsOnce
<1> QED
  BY <1>1, <1>2, <1>3, <1>4
  DEF Next, RegisterNode, MonitorOverlayStatus, StartTasks, RequestMetadata,
      membership, pushing, statuses, starting, results, RegisterCheck, RegisterStore,
      DialFails, RegisterConnect, Announce, DeregisterNode, ListNode, BuildOverlay, PushPaths,
      PushEnds, TakeStatus, ApplyComplete, CollectMetadata, CollectEnds,
      ProcessMetadata, MapRaceCrash

\* The task is started at most once, for any registrations and exits: the
\* count of idle nodes passes Peers at one READY only.
THEOREM StartedOnce == Spec => []StartsOnce
<1>1. Init => StartsOnce
  BY DEF Init, StartsOnce
<1>2. IInv /\ StartsOnce /\ [Next]_vars => StartsOnce'
  BY StartsOnceStep DEF vars, starting, StartsOnce
<1> QED
  BY <1>1, <1>2, Inductive, PTL DEF Spec

-----------------------------------------------------------------------------
(* A run nobody leaves *)

LEMMA ConnectedStep ==
  ASSUME MayExit = {}, TypeOK, MutexInv, ConnectedInv, Next
  PROVE  ConnectedInv'
<1> USE ServerAssumption DEF ServerAssumption
<1>1. CASE UNCHANGED <<register, deregister, registeredNodes, nodeConnections>>
  BY <1>1 DEF ConnectedInv
<1>2. ASSUME NEW c \in Call, RegisterCheck(c)
       PROVE  ConnectedInv'
  BY <1>2 DEF RegisterCheck, ConnectedInv, MutexInv, Holding, TypeOK, membership
<1>3. ASSUME NEW c \in Call, RegisterStore(c)
       PROVE  ConnectedInv'
  BY <1>3 DEF RegisterStore, ConnectedInv, MutexInv, Holding, TypeOK, membership
<1>4. ASSUME NEW c \in Call, DialFails(c)
       PROVE  ConnectedInv'
  BY <1>4 DEF DialFails, Unlock, ConnectedInv, MutexInv, Holding, TypeOK, membership
<1>5. ASSUME NEW c \in Call, RegisterConnect(c)
       PROVE  ConnectedInv'
  BY <1>5
  DEF RegisterConnect, Unlock, ConnectedInv, MutexInv, Holding, TypeOK, membership
<1>6. ASSUME NEW c \in Call, Announce(c)
       PROVE  ConnectedInv'
  BY <1>6 DEF Announce, Unlock, ConnectedInv, MutexInv, Holding, TypeOK, membership
<1>7. ASSUME NEW n \in Node, DeregisterNode(n)
       PROVE  ConnectedInv'
  BY <1>7 DEF DeregisterNode, ConnectedInv, MutexInv, Holding, TypeOK, membership
<1> QED
  BY <1>1, <1>2, <1>3, <1>4, <1>5, <1>6, <1>7
  DEF Next, RegisterNode, MonitorOverlayStatus, StartTasks, RequestMetadata,
      membership, pushing, statuses, starting, results, ListNode, BuildOverlay, PushPaths,
      PushEnds, TakeStatus, ApplyReady, ApplyComplete, StartTask, StartRetry,
      StartEnds, CollectMetadata, CollectEnds, ProcessMetadata, MapRaceCrash

\* A node that has finished was connected, hence registered, hence counts
\* that agree mean that everybody has finished.
LEMMA CollectStep ==
  ASSUME IInv, ConnectedInv, Next, NEW k \in CompleteCall,
         collector[k].pc = "off", collector'[k].pc = "range"
  PROVE  registeredNodes \subseteq finishedNodes'
<1>1. ASSUME ApplyComplete
       PROVE  registeredNodes \subseteq finishedNodes'
  <2>1. AllFinished(finishedNodes')
    BY <1>1 DEF ApplyComplete
  <2>2. held \in CompleteCall /\ held.id \in startSent
    BY <1>1 DEF ApplyComplete, IInv, TypeOK, FinishInv, CompleteCall
  <2>3. finishedNodes' \subseteq registeredNodes
    BY <1>1, <2>2 DEF ApplyComplete, IInv, FinishInv, ConnectedInv
  <2>4. IsFiniteSet(registeredNodes)
    BY FS_Subset, ServerAssumption DEF ServerAssumption, IInv, TypeOK
  <2> QED
    BY <1>1, <2>1, <2>3, <2>4, FS_Subset DEF AllFinished, ApplyComplete, membership
<1>2. ASSUME NEW j \in CompleteCall, NEW n \in Node, NEW answer \in {"data", "nil"},
             CollectMetadata(j, n, answer)
       PROVE  FALSE
  BY <1>2 DEF CollectMetadata, IInv, TypeOK, Collector
<1>3. ASSUME NEW j \in CompleteCall, CollectEnds(j)
       PROVE  FALSE
  BY <1>3 DEF CollectEnds, IInv, TypeOK
<1>4. collector' # collector
  OBVIOUS
<1> QED
  BY <1>1, <1>2, <1>3, <1>4
  DEF Next, RegisterNode, MonitorOverlayStatus, StartTasks, RequestMetadata,
      membership, pushing, statuses, starting, results, RegisterCheck, RegisterStore,
      DialFails, RegisterConnect, Announce, DeregisterNode, ListNode, BuildOverlay, PushPaths,
      PushEnds, TakeStatus, ApplyReady, StartTask, StartRetry, StartEnds,
      ProcessMetadata, MapRaceCrash

\* If no node may leave, statistics are requested only once every registered
\* node has finished, for any number of registrants and any retries.
THEOREM CollectsLast ==
  ASSUME MayExit = {}
  PROVE  Spec => CollectsAfterAllFinished
<1>1. Init => ConnectedInv
  BY DEF Init, ConnectedInv
<1>2. IInv /\ ConnectedInv /\ [Next]_vars => ConnectedInv'
  BY ConnectedStep DEF IInv, vars, membership, ConnectedInv
<1>3. IInv /\ ConnectedInv /\ [Next]_vars
        => [\A k \in CompleteCall :
              collector[k].pc = "off" /\ collector'[k].pc = "range"
                => registeredNodes \subseteq finishedNodes']_vars
  BY CollectStep
<1> QED
  BY <1>1, <1>2, <1>3, Inductive, PTL DEF Spec, CollectsAfterAllFinished

-----------------------------------------------------------------------------
(* A run of exactly Peers nodes, each registering once *)

\* A status can only reach the monitor once something has been pushed.
LEMMA ReceivedPushed ==
  ASSUME IInv, ExactRegistration, NEW h \in StatusCall, TakeStatus(h)
  PROVE  pushed # {}
<1>1. CASE h.status = "READY"
  BY <1>1 DEF TakeStatus
<1>2. CASE h.status # "READY"
  BY <1>2 DEF TakeStatus, IInv, StarterInv, ReadyInv, StatusCall
<1> QED
  BY <1>1, <1>2

LEMMA ExactStep ==
  ASSUME ExactRegistration, IInv, ExactInv, Next
  PROVE  ExactInv'
<1> USE ServerAssumption DEF ServerAssumption, IInv
<1>1. CASE UNCHANGED <<register, registeredNodes, monitor, monitorLoop, pushed, overlay, held>>
  BY <1>1 DEF ExactInv
<1>2. ASSUME NEW c \in Call, RegisterCheck(c)
       PROVE  ExactInv'
  BY <1>2
  DEF RegisterCheck, ExactInv, MutexInv, Holding, Stored, TypeOK, membership, pushing,
      ExactRegistration
<1>3. ASSUME NEW c \in Call, RegisterStore(c)
       PROVE  ExactInv'
  BY <1>3
  DEF RegisterStore, ExactInv, MutexInv, Holding, Stored, TypeOK, membership, pushing,
      ExactRegistration
<1>4. ASSUME NEW c \in Call, DialFails(c)
       PROVE  ExactInv'
  BY <1>4
  DEF DialFails, Unlock, ExactInv, MutexInv, Holding, Stored, TypeOK, membership,
      pushing, ExactRegistration
<1>5. ASSUME NEW c \in Call, RegisterConnect(c)
       PROVE  ExactInv'
  <2>1. PeersRegistered => registeredNodes = Node
    BY FS_Subset DEF PeersRegistered, ExactRegistration, TypeOK
  <2> QED
    BY <1>5, <2>1
    DEF RegisterConnect, Unlock, ExactInv, MutexInv, Holding, Stored, TypeOK,
        membership, pushing, ExactRegistration
<1>6. ASSUME NEW c \in Call, Announce(c)
       PROVE  ExactInv'
  <2>1. registeredNodes = Node
    BY <1>6 DEF Announce, ExactInv
  <2>2. \A d \in Call : d # c => register[d] = "ok"
    BY <1>6, <2>1
    DEF Announce, ExactInv, MutexInv, Holding, Stored, TypeOK, membership, pushing,
        ExactRegistration
  <2> QED
    BY <1>6, <2>1, <2>2
    DEF Announce, Unlock, RangeOver, ExactInv, MutexInv, Holding, Stored, TypeOK,
        ExactRegistration
<1>7. ASSUME NEW n \in Node, DeregisterNode(n)
       PROVE  ExactInv'
  BY <1>7 DEF DeregisterNode, ExactRegistration
<1>8. ASSUME NEW n \in Node, ListNode(n)
       PROVE  ExactInv'
  BY <1>8 DEF ListNode, Visit, ExactInv, Stored, TypeOK, Loop, membership
<1>9. ASSUME BuildOverlay
       PROVE  ExactInv'
  <2>1. monitorLoop.seen = Node
    BY <1>9 DEF BuildOverlay, Exhausted, ExactInv, TypeOK, Loop
  <2> QED
    BY <1>9, <2>1 DEF BuildOverlay, ExactInv, Stored, membership
<1>10. ASSUME NEW n \in Node, PushPaths(n)
       PROVE  ExactInv'
  BY <1>10
  DEF PushPaths, ExactInv, MutexInv, Holding, Stored, TypeOK, membership, pushing,
      ExactRegistration
<1>11. ASSUME PushEnds
       PROVE  ExactInv'
  BY <1>11
  DEF PushEnds, ExactInv, MutexInv, Holding, Stored, TypeOK, membership, pushing,
      ExactRegistration
<1>12. ASSUME NEW h \in StatusCall, TakeStatus(h)
       PROVE  ExactInv'
  <2>1. pushed # {}
    BY <1>12, ReceivedPushed DEF TakeStatus
  <2> QED
    BY <1>12, <2>1
    DEF TakeStatus, ExactInv, MutexInv, Holding, Stored, TypeOK, membership,
        pushing, ExactRegistration
<1>13. ASSUME ApplyReady
       PROVE  ExactInv'
  BY <1>13
  DEF ApplyReady, statuses, ExactInv, MutexInv, Holding, Stored, TypeOK, membership,
      pushing, ExactRegistration
<1>14. ASSUME ApplyComplete
       PROVE  ExactInv'
  BY <1>14
  DEF ApplyComplete, statuses, ExactInv, MutexInv, Holding, Stored, TypeOK,
      membership, pushing, ExactRegistration
<1> QED
  BY <1>1, <1>2, <1>3, <1>4, <1>5, <1>6, <1>7, <1>8, <1>9, <1>10, <1>11, <1>12, <1>13, <1>14
  DEF Next, RegisterNode, MonitorOverlayStatus, StartTasks, RequestMetadata,
      membership, pushing, statuses, starting, results, StartTask, StartRetry,
      StartEnds, CollectMetadata, CollectEnds, ProcessMetadata, MapRaceCrash

LEMMA ExactInvariant ==
  ASSUME ExactRegistration
  PROVE  Spec => []ExactInv
<1>1. Init => ExactInv
  BY ServerAssumption DEF Init, ExactInv, Stored, ServerAssumption
<1>2. IInv /\ ExactInv /\ [Next]_vars => ExactInv'
  BY ExactStep DEF vars, membership, pushing, statuses, ExactInv
<1> QED
  BY <1>1, <1>2, Inductive, PTL DEF Spec

\* When exactly Peers nodes register once each, the monitor never waits for
\* mu while its holder waits for the monitor.
THEOREM NeverStuck ==
  ASSUME ExactRegistration
  PROVE  Spec => []MonitorNotStuck
<1>1. IInv /\ ExactInv => MonitorNotStuck
  <2> SUFFICES ASSUME IInv, ExactInv, held # None, mu # None, register[mu] = "announcing"
               PROVE  FALSE
    BY DEF MonitorNotStuck
  <2>1. held \in StatusCall /\ held \in received /\ mu \in Call
    BY DEF IInv, TypeOK, ReadyInv
  <2>2. pushed # {}
    BY <2>1 DEF IInv, ReadyInv, ReadyCall, FinishInv, StarterInv, StatusCall, CompleteCall
  <2> QED
    BY <2>1, <2>2 DEF ExactInv
<1> QED
  BY <1>1, Inductive, ExactInvariant, PTL

\* Under the same conditions the overlay is built from exactly Peers nodes.
THEOREM OverlayComplete ==
  ASSUME ExactRegistration
  PROVE  Spec => []OverlayHasPeers
<1>1. ExactInv => OverlayHasPeers
  BY DEF ExactInv, OverlayHasPeers, ExactRegistration
<1> QED
  BY <1>1, ExactInvariant, PTL

LEMMA PushStep ==
  ASSUME ExactRegistration, IInv, ExactInv, PushInv, Next
  PROVE  PushInv'
<1> USE ServerAssumption DEF ServerAssumption, IInv
<1>1. CASE UNCHANGED <<register, nodeConnections, monitor, monitorLoop, pushed, overlay>>
  BY <1>1 DEF PushInv
<1>2. ASSUME NEW c \in Call, RegisterCheck(c) \/ RegisterStore(c) \/ DialFails(c)
       PROVE  PushInv'
  BY <1>2
  DEF RegisterCheck, RegisterStore, DialFails, PushInv, TypeOK, pushing, ExactRegistration
<1>3. ASSUME NEW c \in Call, RegisterConnect(c)
       PROVE  PushInv'
  BY <1>3 DEF RegisterConnect, PushInv, TypeOK, pushing
<1>4. ASSUME NEW c \in Call, Announce(c)
       PROVE  PushInv'
  BY <1>4 DEF Announce, PushInv, TypeOK
<1>5. ASSUME NEW n \in Node, ListNode(n)
       PROVE  PushInv'
  BY <1>5 DEF ListNode, PushInv, membership
<1>6. ASSUME BuildOverlay
       PROVE  PushInv'
  <2>1. \A c \in Call : CallNode[c] \in nodeConnections
    BY <1>6 DEF BuildOverlay, ExactInv, PushInv
  <2>2. Node \subseteq nodeConnections
    BY <2>1 DEF ExactRegistration
  <2> QED
    BY <1>6, <2>2 DEF BuildOverlay, RangeOver, PushInv, TypeOK, Loop, membership
<1>7. ASSUME NEW n \in Node, PushPaths(n)
       PROVE  PushInv'
  BY <1>7 DEF PushPaths, Visit, PushInv, TypeOK, Loop, membership
<1>8. ASSUME PushEnds
       PROVE  PushInv'
  BY <1>8 DEF PushEnds, PushedToAll, Exhausted, PushInv, membership
<1> QED
  BY <1>1, <1>2, <1>3, <1>4, <1>5, <1>6, <1>7, <1>8
  DEF Next, RegisterNode, MonitorOverlayStatus, StartTasks, RequestMetadata,
      membership, pushing, statuses, starting, results, DeregisterNode, ExactRegistration,
      TakeStatus,
      ApplyReady, ApplyComplete, StartTask, StartRetry, StartEnds, CollectMetadata,
      CollectEnds, ProcessMetadata, MapRaceCrash

\* When exactly Peers nodes register once each, buildAndPushOverlay returns
\* only after PushPaths has been called on every node of the overlay.
THEOREM OverlayPushed ==
  ASSUME ExactRegistration
  PROVE  Spec => []OverlayReachesAll
<1>1. Init => PushInv
  BY DEF Init, PushInv, RangeOver
<1>2. IInv /\ ExactInv /\ PushInv /\ [Next]_vars => PushInv'
  BY PushStep DEF vars, membership, pushing, PushInv
<1>3. PushInv => OverlayReachesAll
  BY DEF PushInv, OverlayReachesAll
<1> QED
  BY <1>1, <1>2, <1>3, Inductive, ExactInvariant, PTL DEF Spec

\* A node that was started is one of Peers registered nodes: all of them.
LEMMA StartedRegistered ==
  ASSUME ExactRegistration, IInv, ExactInv, startSent # {}
  PROVE  registeredNodes = Node
<1>1. pushed # {}
  BY DEF IInv, StarterInv, ReadyInv
<1>2. \A c \in Call : CallNode[c] \in registeredNodes
  BY <1>1 DEF ExactInv, Stored
<1>3. Node \subseteq registeredNodes
  BY <1>2 DEF ExactRegistration
<1> QED
  BY <1>3 DEF IInv, TypeOK

LEMMA PrintStep ==
  ASSUME ExactRegistration, IInv, ConnectedInv, ExactInv, PrintInv, Next
  PROVE  PrintInv'
<1> USE ServerAssumption DEF ServerAssumption, IInv
<1>1. CASE UNCHANGED <<collector, metadata>>
  BY <1>1 DEF PrintInv
<1>2. ASSUME ApplyComplete
       PROVE  PrintInv'
  <2>1. held \in CompleteCall /\ held.id \in startSent
    BY <1>2 DEF ApplyComplete, TypeOK, FinishInv, CompleteCall
  <2>2. registeredNodes = Node
    BY <2>1, StartedRegistered
  <2>3. AllFinished(finishedNodes') => finishedNodes' = Node
    <3>1. finishedNodes' \subseteq Node
      BY <1>2, <2>1 DEF ApplyComplete, TypeOK, StatusCall, CompleteCall
    <3> QED
      BY <1>2, <2>2, <3>1, FS_Subset DEF AllFinished, ApplyComplete, membership
  <2>4. CASE AllFinished(finishedNodes')
    <3>1. collector' = [collector EXCEPT ![held] = [pc |-> "range", loop |-> RangeOver(Node)]]
      BY <1>2, <2>3, <2>4 DEF ApplyComplete
    <3>2. metadata' = metadata
      BY <1>2 DEF ApplyComplete
    <3> QED
      BY <2>1, <3>1, <3>2 DEF PrintInv, RangeOver, TypeOK
  <2>5. CASE ~AllFinished(finishedNodes')
    BY <1>2, <2>5 DEF ApplyComplete, PrintInv
  <2> QED
    BY <2>4, <2>5
<1>3. ASSUME NEW k \in CompleteCall, NEW n \in Node, NEW answer \in {"data", "nil"},
             CollectMetadata(k, n, answer)
       PROVE  PrintInv'
  BY <1>3 DEF CollectMetadata, Visit, PrintInv, TypeOK, Collector, Loop
<1>4. ASSUME NEW k \in CompleteCall, CollectEnds(k)
       PROVE  PrintInv'
  BY <1>4 DEF CollectEnds, PrintInv, TypeOK, Collector
<1>5. ASSUME NEW n \in Node, ProcessMetadata(n)
       PROVE  PrintInv'
  BY <1>5 DEF ProcessMetadata, PrintInv, TypeOK
<1> QED
  BY <1>1, <1>2, <1>3, <1>4, <1>5
  DEF Next, RegisterNode, MonitorOverlayStatus, StartTasks, RequestMetadata,
      membership, pushing, statuses, starting, results, RegisterCheck, RegisterStore,
      DialFails, RegisterConnect, Announce, DeregisterNode, ListNode, BuildOverlay, PushPaths,
      PushEnds, TakeStatus, ApplyReady, StartTask, StartRetry, StartEnds, MapRaceCrash

\* The two places that print do so with an entry for every node, none nil.
LEMMA PrintsStep ==
  ASSUME ExactRegistration, IInv, ExactInv, PrintInv, Next, ~printed, printed'
  PROVE  \A n \in Node : metadata'[n] = "data"
<1> USE ServerAssumption DEF ServerAssumption, IInv
<1>1. ASSUME NEW k \in CompleteCall, CollectEnds(k)
       PROVE  \A n \in Node : metadata'[n] = "data"
  <2>1. \A n \in Node : metadata[n] # "nil" /\ metadata' = metadata
    BY <1>1 DEF CollectEnds, PrintMetadata
  <2>2. \A n \in Node : metadata[n] # "none"
    BY <1>1 DEF CollectEnds, Exhausted, PrintInv
  <2> QED
    BY <2>1, <2>2 DEF TypeOK
<1>2. ASSUME NEW m \in Node, ProcessMetadata(m)
       PROVE  \A n \in Node : metadata'[n] = "data"
  <2>1. /\ Cardinality(ReportedNodes') = Cardinality(registeredNodes)
        /\ \A n \in Node : metadata'[n] # "nil"
    BY <1>2 DEF ProcessMetadata, PrintMetadata
  <2>2. registeredNodes = Node
    BY <1>2, StartedRegistered DEF ProcessMetadata
  <2>3. ReportedNodes' = Node
    BY <2>1, <2>2, FS_Subset DEF ReportedNodes
  <2>4. metadata' \in [Node -> {"none", "data", "nil"}]
    BY <1>2 DEF ProcessMetadata, TypeOK
  <2> QED
    BY <2>1, <2>3, <2>4 DEF ReportedNodes
<1>3. printed' # printed
  OBVIOUS
<1> QED
  BY <1>1, <1>2, <1>3
  DEF Next, RegisterNode, MonitorOverlayStatus, StartTasks, RequestMetadata,
      membership, pushing, statuses, starting, results, RegisterCheck, RegisterStore,
      DialFails, RegisterConnect, Announce, DeregisterNode, ListNode, BuildOverlay, PushPaths,
      PushEnds, TakeStatus, ApplyReady, ApplyComplete, StartTask, StartRetry,
      StartEnds, CollectMetadata, MapRaceCrash

\* Under the same conditions the first table printed has data for every node.
THEOREM FirstTableComplete ==
  ASSUME ExactRegistration
  PROVE  Spec => PrintsEveryNode
<1>1. Init => ConnectedInv /\ PrintInv
  BY DEF Init, ConnectedInv, PrintInv, RangeOver
<1>2. IInv /\ ConnectedInv /\ [Next]_vars => ConnectedInv'
  BY ConnectedStep DEF IInv, ExactRegistration, vars, membership, ConnectedInv
<1>3. IInv /\ ConnectedInv /\ ExactInv /\ PrintInv /\ [Next]_vars => PrintInv'
  BY PrintStep DEF vars, results, PrintInv
<1>4. IInv /\ ExactInv /\ PrintInv /\ [Next]_vars
        => [~printed /\ printed' => \A n \in overlay : metadata'[n] = "data"]_vars
  BY PrintsStep DEF IInv, TypeOK
<1> QED
  BY <1>1, <1>2, <1>3, <1>4, Inductive, ExactInvariant, PTL DEF Spec, PrintsEveryNode

LEMMA ResultStep ==
  ASSUME ExactRegistration, IInv, ConnectedInv, ExactInv, ResultInv, Next
  PROVE  ResultInv'
<1> USE ServerAssumption DEF ServerAssumption, IInv
<1>1. CASE UNCHANGED <<received, held, finishedNodes, collector, printed>>
  BY <1>1 DEF ResultInv, Next
<1>2. ASSUME NEW h \in StatusCall, TakeStatus(h)
       PROVE  ResultInv'
  BY <1>2 DEF TakeStatus, Selecting, ResultInv, TypeOK, results
<1>3. ASSUME ApplyReady
       PROVE  ResultInv'
  BY <1>3 DEF ApplyReady, ResultInv, TypeOK, CompleteCall, results
<1>4. ASSUME ApplyComplete
       PROVE  ResultInv'
  <2>1. held \in CompleteCall /\ held.id \in Node /\ held.id \in startSent
    BY <1>4 DEF ApplyComplete, TypeOK, FinishInv, CompleteCall, StatusCall
  <2>2. registeredNodes = Node
    BY <2>1, StartedRegistered
  <2>3. /\ UNCHANGED <<received, printed, up>>
        /\ finishedNodes' = finishedNodes \cup {held.id} /\ held' = None
    BY <1>4 DEF ApplyComplete
  <2>4. CASE AllFinished(finishedNodes')
    <3>1. collector' = [collector EXCEPT ![held] = [pc |-> "range", loop |-> RangeOver(finishedNodes')]]
      BY <1>4, <2>4 DEF ApplyComplete
    <3> QED
      BY <2>1, <2>3, <3>1 DEF ResultInv, TypeOK
  <2>5. CASE ~AllFinished(finishedNodes')
    <3>1. finishedNodes' # Node
      BY <1>4, <2>2, <2>5 DEF AllFinished, ApplyComplete, membership
    <3>2. collector' = collector
      BY <1>4, <2>5 DEF ApplyComplete
    <3> QED
      BY <2>3, <3>1, <3>2 DEF ResultInv
  <2> QED
    BY <2>4, <2>5
<1>5. ASSUME NEW k \in CompleteCall, NEW n \in Node, NEW answer \in {"data", "nil"},
             CollectMetadata(k, n, answer)
       PROVE  ResultInv'
  BY <1>5 DEF CollectMetadata, ResultInv, TypeOK, Collector, statuses
<1>6. ASSUME NEW k \in CompleteCall, CollectEnds(k)
       PROVE  ResultInv'
  BY <1>6 DEF CollectEnds, PrintMetadata, ResultInv, TypeOK, Collector, statuses
<1>7. ASSUME NEW n \in Node, ProcessMetadata(n)
       PROVE  ResultInv'
  BY <1>7 DEF ProcessMetadata, PrintMetadata, ResultInv, TypeOK, statuses
<1> QED
  BY <1>1, <1>2, <1>3, <1>4, <1>5, <1>6, <1>7
  DEF Next, RegisterNode, MonitorOverlayStatus, StartTasks, RequestMetadata,
      membership, pushing, statuses, starting, results, RegisterCheck, RegisterStore,
      DialFails, RegisterConnect, Announce, DeregisterNode, ListNode, BuildOverlay, PushPaths,
      PushEnds, StartTask, StartRetry, StartEnds, MapRaceCrash

LEMMA ResultInvariant ==
  ASSUME ExactRegistration
  PROVE  Spec => []ResultInv
<1>1. Init => ConnectedInv /\ ResultInv
  BY DEF Init, ConnectedInv, ResultInv
<1>2. IInv /\ ConnectedInv /\ [Next]_vars => ConnectedInv'
  BY ConnectedStep DEF IInv, ExactRegistration, vars, membership, ConnectedInv
<1>3. IInv /\ ConnectedInv /\ ExactInv /\ ResultInv /\ [Next]_vars => ResultInv'
  BY ResultStep DEF vars, statuses, results, ResultInv
<1> QED
  BY <1>1, <1>2, <1>3, Inductive, ExactInvariant, PTL DEF Spec
=============================================================================
