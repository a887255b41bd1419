------------------------ MODULE MessageTrafficProofs ------------------------
(***************************************************************************)
(* Theorems about MessageTraffic, for every overlay, every task, and any   *)
(* number of failing calls.  The routes are any whose hops lead no farther *)
(* from the destination, circles over edges of weight 0 included.          *)
(***************************************************************************)
EXTENDS MessageTraffic, RecursionLemmas

\* What is proved of distances; there is no search here.
U == INSTANCE UniformCostSearchProofs WITH
       edges <- conf.edges, nodes <- Nodes, source <- None, dest <- None, unvisited <- None,
       visited <- None, cells <- None, result <- None, search <- None

Known == UnderWay \cup Received \cup lost
InHandAt(n) == counting[n] # None /\ counting[n].type # "RELAYED"
Calls == [msg : PathMessage, at : Node, path : Seq(Node)]

\* The message a Send of n makes.
Made(n) == [origin |-> n, nr |-> issued[n], destination |-> dest'[n]]

\* A message that is anywhere was made by its origin, for another node.
KnownInv ==
  \A m \in Known :
    /\ m.origin \in Nodes /\ m.destination \in Nodes \ {m.origin}
    /\ m.nr < issued[m.origin]

\* doTask waits for answers only within a batch, and what is left of the batch
\* is at most what may be sent beyond the requirement.
BatchInv ==
  \A n \in Node :
    /\ current[n] # None => left[n] > 0
    /\ left[n] > 0 => task[n] = "sending" /\ dest[n] \in Nodes \ {n}
    /\ task[n] = "sending" => conf.request.perBatch > 0
    /\ task[n] = "waiting" => messagesSent[n] = 0
    /\ task[n] \in {"sending", "finished"} =>
         messagesSent[n] + left[n] < Requirement + conf.request.perBatch
    /\ task[n] = "finished" => messagesSent[n] >= Requirement

\* What doTask waits for and what it has counted are messages it has made.
SenderInv ==
  \A n \in Node :
    /\ current[n] # None => current[n] \in Known /\ current[n].origin = n
    /\ \A m \in payloadSent[n] : m \in Known /\ m.origin = n /\ m # current[n]
    /\ IsFiniteSet(payloadSent[n]) /\ Cardinality(payloadSent[n]) = messagesSent[n]

\* A message under way is in one place.
CallsInv ==
  /\ \A c \in calls : c.at \in Nodes
  /\ \A c, d \in calls : c.msg = d.msg => c = d
  /\ \A c \in calls : c.msg \notin InHand /\ c.msg \notin Received

\* What a node counts is for it and was not counted before.
ReceiverInv ==
  \A n \in Node :
    /\ InHandAt(n) => counting[n].msg.destination = n /\ counting[n].msg \notin payloadReceived[n]
    /\ \A m \in payloadReceived[n] : m.destination = n
    /\ IsFiniteSet(payloadReceived[n])
    /\ messagesReceived[n] = Cardinality(payloadReceived[n]) +
         (IF counting[n] # None /\ counting[n].type = "PAYLOAD" THEN 1 ELSE 0)

IInv == TypeOK /\ KnownInv /\ BatchInv /\ SenderInv /\ CallsInv /\ ReceiverInv

-----------------------------------------------------------------------------
(* The constants *)

LEMMA ConfType ==
  ASSUME conf \in Settings
  PROVE  /\ Nodes \subseteq Node
         /\ Requirement \in Int /\ conf.request.perBatch \in Int
         /\ conf.sendFails \in Nat /\ conf.relayFails \in Nat
         /\ \A n, d \in Nodes : conf.route[n][d] \in Nodes
<1>1. /\ conf.nodes \subseteq Node /\ conf.request \in TaskRequest
      /\ conf.sendFails \in Nat /\ conf.relayFails \in Nat
      /\ conf.route \in [conf.nodes -> [conf.nodes -> conf.nodes]]
  BY TrafficAssumption DEF TrafficAssumption
<1>2. Requirement \in Int /\ conf.request.perBatch \in Int
  BY <1>1 DEF Requirement, TaskRequest
<1>3. \A n, d \in Nodes : conf.route[n][d] \in Nodes
  BY <1>1 DEF Nodes
<1> QED
  BY <1>1, <1>2, <1>3 DEF Nodes

LEMMA ConfStays ==
  ASSUME [Next]_vars
  PROVE  /\ conf' = conf /\ Nodes' = Nodes /\ Requirement' = Requirement
<1>1. conf' = conf
  BY DEF Next, vars, DoTask, TrackReceivedData, Fault, StartTask, Send, Answered, Finish,
         SendFails, Accept, RelayFails, Count, AddPayload, GetMessagingData
<1> QED
  BY <1>1 DEF Nodes, Requirement

LEMMA NoneIsNoMessage == None \notin PathMessage /\ None \notin RecStats
  BY TrafficAssumption DEF TrafficAssumption

LEMMA MadeTyped ==
  ASSUME TypeOK, BatchInv, NEW n \in Nodes, Send(n)
  PROVE  /\ dest' \in [Node -> Node] /\ dest'[n] \in Nodes \ {n}
         /\ Made(n) \in PathMessage /\ FirstCall(Made(n)) \in Calls
         /\ FirstCall(Made(n)).at \in Nodes
         /\ current' = [current EXCEPT ![n] = Made(n)]
         /\ calls' = calls \cup {FirstCall(Made(n))}
<1>1. conf \in Settings
  BY DEF TypeOK
<1>2. n \in Node /\ Nodes \subseteq Node
  BY <1>1, ConfType
<1>3. ASSUME InBatch(n), dest' = dest
      PROVE  dest' \in [Node -> Node] /\ dest'[n] \in Nodes \ {n}
  BY <1>2, <1>3 DEF InBatch, TypeOK, BatchInv
<1>4. ASSUME NEW r \in Nodes \ {n}, dest' = [dest EXCEPT ![n] = r]
      PROVE  dest' \in [Node -> Node] /\ dest'[n] \in Nodes \ {n}
  BY <1>2, <1>4 DEF TypeOK
<1>5. dest' \in [Node -> Node] /\ dest'[n] \in Nodes \ {n}
  BY <1>2, <1>3, <1>4 DEF Send
<1>6. Made(n) \in PathMessage
  BY <1>2, <1>5 DEF Made, PathMessage, TypeOK
<1>7. conf.route[n][dest'[n]] \in Nodes
  BY <1>1, <1>5, ConfType
<1>8. FirstCall(Made(n)) \in Calls /\ FirstCall(Made(n)).at \in Nodes
  BY <1>2, <1>6, <1>7 DEF FirstCall, Call, Calls, Made
<1> QED
  BY <1>5, <1>6, <1>8 DEF Send, Made

LEMMA ForwardTyped ==
  ASSUME TypeOK, KnownInv, NEW n \in Nodes, NEW c \in calls, c.msg.destination # n
  PROVE  /\ Call(c.msg, NextNode(n, c.msg), Append(c.path, n)) \in Calls
         /\ NextNode(n, c.msg) \in Nodes
<1>1. c.msg \in Known /\ c.msg \in PathMessage /\ c.path \in Seq(Node)
  BY DEF Known, UnderWay, TypeOK
<1>2. c.msg.destination \in Nodes
  BY <1>1 DEF KnownInv
<1>3. NextNode(n, c.msg) \in Nodes /\ Nodes \subseteq Node
  BY <1>2, ConfType DEF NextNode, TypeOK
<1> QED
  BY <1>1, <1>3 DEF Call, Calls

-----------------------------------------------------------------------------
(* Types *)

LEMMA TypeInit == Init => TypeOK
<1> SUFFICES ASSUME Init PROVE TypeOK
  OBVIOUS
<1>1. conf.sendFails \in Nat /\ conf.relayFails \in Nat
  BY ConfType DEF Init
<1>2. failedSends \in 0..conf.sendFails /\ failedRelays \in 0..conf.relayFails
  BY <1>1 DEF Init
<1> QED
  BY <1>2 DEF Init, TypeOK

LEMMA TypeStep ==
  ASSUME TypeOK, KnownInv, BatchInv, Next
  PROVE  TypeOK'
<1> USE DEF countVars, sendVars, faults
<1>0. /\ conf' = conf
      /\ Nodes \subseteq Node /\ conf.request.perBatch \in Int
      /\ conf.sendFails \in Nat /\ conf.relayFails \in Nat
  BY ConfStays, ConfType DEF TypeOK
<1>1. ASSUME NEW n \in Nodes, StartTask(n)
       PROVE  TypeOK'
  BY <1>0, <1>1 DEF StartTask, TypeOK
<1>2. ASSUME NEW n \in Nodes, Send(n)
       PROVE  TypeOK'
  <2>1. left' \in [Node -> Nat]
    <3>1. CASE left' = left
      BY <3>1 DEF TypeOK
    <3>2. CASE task[n] = "sending" /\ left' = [left EXCEPT ![n] = conf.request.perBatch]
      BY <1>0, <3>2 DEF TypeOK, BatchInv
    <3> QED
      BY <1>2, <3>1, <3>2 DEF Send
  <2>2. n \in Node /\ issued \in [Node -> Nat] /\ issued' = [issued EXCEPT ![n] = issued[n] + 1]
    BY <1>0, <1>2 DEF Send, TypeOK
  <2>3. issued' \in [Node -> Nat]
    BY <2>2
  <2>4. /\ current \in [Node -> PathMessage \cup {None}] /\ calls \subseteq Calls
        /\ current' = [current EXCEPT ![n] = Made(n)] /\ Made(n) \in PathMessage
        /\ calls' = calls \cup {FirstCall(Made(n))} /\ FirstCall(Made(n)) \in Calls
        /\ dest' \in [Node -> Node]
    BY <1>2, MadeTyped DEF TypeOK, Calls
  <2>5. current' \in [Node -> PathMessage \cup {None}] /\ calls' \subseteq Calls
    BY <2>4
  <2>6. UNCHANGED <<task, messagesSent, payloadSent, countVars, lost, fetched, faults>>
    BY <1>2 DEF Send
  <2> QED
    BY <1>0, <2>1, <2>3, <2>4, <2>5, <2>6 DEF TypeOK, Calls
<1>3. ASSUME NEW n \in Nodes, Answered(n)
       PROVE  TypeOK'
  <2>1. n \in Node /\ left[n] > 0 /\ current[n] \in PathMessage
    BY <1>0, <1>3 DEF Answered, TypeOK, BatchInv
  <2>2. /\ messagesSent' = [messagesSent EXCEPT ![n] = messagesSent[n] + 1]
        /\ payloadSent' = [payloadSent EXCEPT ![n] = payloadSent[n] \cup {current[n]}]
        /\ current' = [current EXCEPT ![n] = None] /\ left' = [left EXCEPT ![n] = left[n] - 1]
        /\ UNCHANGED <<task, dest, issued, calls, countVars, lost, faults>>
    BY <1>3 DEF Answered, NextOfBatch
  <2>3. /\ messagesSent' \in [Node -> Nat] /\ left' \in [Node -> Nat]
        /\ payloadSent' \in [Node -> SUBSET PathMessage]
        /\ current' \in [Node -> PathMessage \cup {None}]
    BY <2>1, <2>2 DEF TypeOK
  <2> QED
    BY <1>0, <2>2, <2>3 DEF TypeOK
<1>4. ASSUME NEW n \in Nodes, Finish(n)
       PROVE  TypeOK'
  BY <1>0, <1>4 DEF Finish, TypeOK
<1>5. ASSUME NEW n \in Nodes, NEW c \in calls, Accept(n, c)
       PROVE  TypeOK'
  <2>1. Statistic(n, c.msg) \in RecStats
    BY DEF TypeOK, Statistic, RecStats
  <2>2. calls' \subseteq Calls
    BY <1>5, ForwardTyped DEF Accept, Forward, TypeOK, Calls
  <2> QED
    BY <1>0, <1>5, <2>1, <2>2 DEF Accept, TypeOK, sendVars, Calls
<1>6. ASSUME NEW n \in Nodes, Count(n)
       PROVE  TypeOK'
  <2>1. /\ n \in Node /\ counting[n] \in RecStats
        /\ messagesReceived \in [Node -> Nat] /\ messagesRelayed \in [Node -> Nat]
    BY <1>0, <1>6 DEF Count, TypeOK
  <2>2. counting' \in [Node -> RecStats \cup {None}]
    <3>1. [type |-> "PAYLOAD", msg |-> counting[n].msg] \in RecStats
      BY <2>1 DEF RecStats
    <3>2. \/ counting' = [counting EXCEPT ![n] = [type |-> "PAYLOAD", msg |-> counting[n].msg]]
          \/ counting' = [counting EXCEPT ![n] = None]
      BY <1>6 DEF Count
    <3> QED
      BY <2>1, <3>1, <3>2 DEF TypeOK
  <2>3. /\ \/ messagesReceived' = [messagesReceived EXCEPT ![n] = messagesReceived[n] + 1]
           \/ messagesReceived' = messagesReceived
        /\ \/ messagesRelayed' = [messagesRelayed EXCEPT ![n] = messagesRelayed[n] + 1]
           \/ messagesRelayed' = messagesRelayed
        /\ UNCHANGED <<sendVars, calls, payloadReceived, lost, faults>>
    BY <1>6 DEF Count
  <2>4. messagesReceived' \in [Node -> Nat]
    BY <2>1, <2>3
  <2>5. messagesRelayed' \in [Node -> Nat]
    BY <2>1, <2>3
  <2> QED
    BY <1>0, <2>2, <2>3, <2>4, <2>5 DEF TypeOK
<1>7. ASSUME NEW n \in Nodes, AddPayload(n)
       PROVE  TypeOK'
  <2>1. n \in Node /\ counting[n].msg \in PathMessage
    BY <1>0, <1>7 DEF AddPayload, TypeOK, RecStats
  <2> QED
    BY <1>0, <1>7, <2>1 DEF AddPayload, TypeOK
<1>8. ASSUME NEW n \in Nodes, GetMessagingData(n)
       PROVE  TypeOK'
  BY <1>0, <1>8 DEF GetMessagingData, TypeOK
<1>9. ASSUME NEW n \in Nodes, SendFails(n)
       PROVE  TypeOK'
  <2>1. n \in Node /\ left[n] > 0 /\ current[n] \in PathMessage
    BY <1>0, <1>9 DEF SendFails, TypeOK, BatchInv
  <2>2. /\ failedSends < conf.sendFails /\ failedSends' = failedSends + 1
        /\ \/ UNCHANGED <<calls, lost>>
           \/ calls' \subseteq calls /\ lost' = lost \cup {current[n]}
        /\ current' = [current EXCEPT ![n] = None] /\ left' = [left EXCEPT ![n] = left[n] - 1]
        /\ UNCHANGED <<task, dest, issued, messagesSent, payloadSent, countVars, failedRelays>>
    BY <1>9 DEF SendFails, NextOfBatch
  <2>3. failedSends' \in 0..conf.sendFails
    BY <1>0, <2>2 DEF TypeOK
  <2>4. /\ left' \in [Node -> Nat] /\ current' \in [Node -> PathMessage \cup {None}]
        /\ lost' \subseteq PathMessage
    BY <2>1, <2>2 DEF TypeOK
  <2> QED
    BY <1>0, <2>2, <2>3, <2>4 DEF TypeOK
<1>10. ASSUME NEW c \in calls, RelayFails(c)
       PROVE  TypeOK'
  <2>1. failedRelays' \in 0..conf.relayFails
    <3>1. failedRelays < conf.relayFails /\ failedRelays' = failedRelays + 1
      BY <1>10 DEF RelayFails
    <3>2. failedRelays \in 0..conf.relayFails
      BY DEF TypeOK
    <3> QED
      BY <1>0, <3>1, <3>2
  <2> QED
    BY <1>0, <1>10, <2>1 DEF RelayFails, TypeOK
<1> QED
  BY <1>1, <1>2, <1>3, <1>4, <1>5, <1>6, <1>7, <1>8, <1>9, <1>10
  DEF Next, DoTask, TrackReceivedData, Fault
-----------------------------------------------------------------------------
(* Where messages are, before and after a step *)

\* The steps that leave each message where it is.
LEMMA OthersMove ==
  ASSUME UNCHANGED <<calls, counting, payloadReceived, lost>>
  PROVE  /\ InHand' = InHand /\ Received' = Received /\ lost' = lost
         /\ UnderWay' = UnderWay
  BY DEF InHand, Received, UnderWay

LEMMA SendMoves ==
  ASSUME TypeOK, BatchInv, KnownInv, NEW n \in Nodes, Send(n)
  PROVE  /\ InHand' = InHand /\ Received' = Received /\ lost' = lost
         /\ UnderWay' = UnderWay \cup {Made(n)}
         /\ Made(n) \notin Known
<1>1. /\ UNCHANGED <<counting, payloadReceived, lost>>
      /\ calls' = calls \cup {FirstCall(Made(n))}
  BY MadeTyped DEF Send, countVars
<1>2. InHand' = InHand /\ Received' = Received
  BY <1>1 DEF InHand, Received
<1>3. FirstCall(Made(n)).msg = Made(n)
  BY DEF FirstCall, Call
<1>4. UnderWay' = UnderWay \cup {Made(n)}
  BY <1>1, <1>2, <1>3 DEF UnderWay
<1>5. ASSUME Made(n) \in Known
      PROVE  FALSE
  <2>1. n \in Node /\ issued[n] \in Nat
    BY ConfType DEF TypeOK
  <2>2. Made(n).nr = issued[n] /\ Made(n).origin = n
    BY DEF Made
  <2> QED
    BY <1>5, <2>1, <2>2 DEF KnownInv
<1> QED
  BY <1>1, <1>2, <1>4, <1>5

LEMMA AcceptMoves ==
  ASSUME TypeOK, NEW n \in Nodes, NEW c \in calls, Accept(n, c)
  PROVE  /\ Received' = Received /\ lost' = lost
         /\ InHand' = InHand \cup (IF c.msg.destination = n THEN {c.msg} ELSE {})
         /\ UnderWay' = UnderWay
<1>1. n \in Node /\ counting \in [Node -> RecStats \cup {None}]
  BY ConfType DEF TypeOK
<1>2. /\ counting[n] = None
      /\ counting' = [counting EXCEPT ![n] = Statistic(n, c.msg)]
      /\ calls' = (calls \ {c}) \cup (IF c.msg.destination = n THEN {} ELSE Forward(n, c))
      /\ UNCHANGED <<payloadReceived, lost>>
  BY DEF Accept, countVars
<1>3. Statistic(n, c.msg).msg = c.msg /\ Statistic(n, c.msg) # None
      /\ (Statistic(n, c.msg).type # "RELAYED" <=> c.msg.destination = n)
  <2>1. Statistic(n, c.msg) \in RecStats
    BY DEF Statistic, RecStats, TypeOK
  <2> QED
    BY <2>1, NoneIsNoMessage DEF Statistic
<1>4. InHand' = InHand \cup (IF c.msg.destination = n THEN {c.msg} ELSE {})
  <2>1. \A k \in Node \ {n} : counting'[k] = counting[k]
    BY <1>1, <1>2
  <2>2. counting'[n] = Statistic(n, c.msg)
    BY <1>1, <1>2
  <2> QED
    BY <1>1, <1>2, <1>3, <2>1, <2>2 DEF InHand
<1>5. c.msg.destination # n => \E d \in calls' : d.msg = c.msg
  <2> DEFINE next == Call(c.msg, NextNode(n, c.msg), Append(c.path, n))
  <2>1. c.msg.destination # n => next \in calls'
    BY <1>2 DEF Forward
  <2>2. next.msg = c.msg
    BY DEF Call
  <2> QED
    BY <2>1, <2>2
<1>6. \A d \in calls' : d \in calls \/ d.msg = c.msg
  BY <1>2 DEF Forward, Call
<1>7. {d.msg : d \in calls'} \cup (IF c.msg.destination = n THEN {c.msg} ELSE {})
        = {d.msg : d \in calls}
  <2>1. \A d \in calls : d = c \/ d \in calls'
    BY <1>2
  <2> QED
    BY <1>5, <1>6, <2>1
<1>8. UnderWay' = UnderWay
  BY <1>4, <1>7 DEF UnderWay
<1> QED
  BY <1>2, <1>4, <1>8 DEF Received

LEMMA SendFailsMoves ==
  ASSUME TypeOK, CallsInv, NEW n \in Nodes, SendFails(n)
  PROVE  /\ InHand' = InHand /\ Received' = Received
         /\ \/ UnderWay' = UnderWay /\ lost' = lost /\ calls' = calls
            \/ /\ current[n] \in UnderWay
               /\ UnderWay' = UnderWay \ {current[n]} /\ lost' = lost \cup {current[n]}
<1>1. UNCHANGED <<counting, payloadReceived>>
  BY DEF SendFails, countVars
<1>2. InHand' = InHand /\ Received' = Received
  BY <1>1 DEF InHand, Received
<1>3. CASE UNCHANGED <<calls, lost>>
  BY <1>2, <1>3 DEF UnderWay
<1>4. CASE /\ FirstCall(current[n]) \in calls
           /\ calls' = calls \ {FirstCall(current[n])}
           /\ lost' = lost \cup {current[n]}
  <2>1. FirstCall(current[n]).msg = current[n]
    BY DEF FirstCall, Call
  <2>2. current[n] \notin InHand
    BY <1>4, <2>1 DEF CallsInv
  <2>3. \A d \in calls : d.msg = current[n] <=> d = FirstCall(current[n])
    BY <1>4, <2>1 DEF CallsInv
  <2>4. {d.msg : d \in calls'} = {d.msg : d \in calls} \ {current[n]}
    BY <1>4, <2>3
  <2> QED
    BY <1>2, <1>4, <2>1, <2>2, <2>4 DEF UnderWay
<1> QED
  BY <1>3, <1>4 DEF SendFails, HasAnswered

LEMMA RelayFailsMoves ==
  ASSUME TypeOK, CallsInv, NEW c \in calls, RelayFails(c)
  PROVE  /\ InHand' = InHand /\ Received' = Received
         /\ c.msg \in UnderWay
         /\ UnderWay' = UnderWay \ {c.msg} /\ lost' = lost \cup {c.msg}
<1>1. UNCHANGED <<counting, payloadReceived>>
      /\ calls' = calls \ {c} /\ lost' = lost \cup {c.msg}
  BY DEF RelayFails, countVars
<1>2. InHand' = InHand /\ Received' = Received
  BY <1>1 DEF InHand, Received
<1>3. c.msg \notin InHand /\ (\A d \in calls : d.msg = c.msg => d = c)
  BY DEF CallsInv
<1>4. {d.msg : d \in calls'} = {d.msg : d \in calls} \ {c.msg}
  BY <1>1, <1>3
<1> QED
  BY <1>1, <1>2, <1>3, <1>4 DEF UnderWay

LEMMA CountMoves ==
  ASSUME TypeOK, NEW n \in Nodes, Count(n)
  PROVE  /\ InHand' = InHand /\ Received' = Received /\ lost' = lost
         /\ UnderWay' = UnderWay
<1>1. n \in Node /\ counting \in [Node -> RecStats \cup {None}] /\ counting[n] \in RecStats
  BY ConfType DEF TypeOK, Count
<1>2. UNCHANGED <<calls, payloadReceived, lost>>
  BY DEF Count
<1>3. \A k \in Node \ {n} : counting'[k] = counting[k]
  BY <1>1 DEF Count
<1>4. \/ /\ counting[n].type = "RECEIVED"
         /\ counting'[n] = [type |-> "PAYLOAD", msg |-> counting[n].msg]
      \/ counting[n].type = "RELAYED" /\ counting'[n] = None
  BY <1>1 DEF Count
<1>5. CASE counting[n].type = "RELAYED" /\ counting'[n] = None
  BY <1>1, <1>2, <1>3, <1>5 DEF InHand, UnderWay, Received
<1>6. CASE /\ counting[n].type = "RECEIVED"
           /\ counting'[n] = [type |-> "PAYLOAD", msg |-> counting[n].msg]
  <2>1. counting'[n].msg = counting[n].msg /\ counting'[n].type # "RELAYED"
    BY <1>6
  <2>2. counting'[n] # None /\ counting[n] # None
    <3>1. [type |-> "PAYLOAD", msg |-> counting[n].msg] \in RecStats
      BY <1>1 DEF RecStats
    <3> QED
      BY <1>1, <1>6, <3>1, NoneIsNoMessage
  <2>3. InHand' = InHand
    BY <1>1, <1>3, <1>6, <2>1, <2>2 DEF InHand
  <2> QED
    BY <1>2, <2>3 DEF UnderWay, Received
<1> QED
  BY <1>4, <1>5, <1>6

LEMMA AddPayloadMoves ==
  ASSUME TypeOK, CallsInv, ReceiverInv, NEW n \in Nodes, AddPayload(n)
  PROVE  /\ counting[n].msg \in InHand /\ InHand' = InHand \ {counting[n].msg}
         /\ Received' = Received \cup {counting[n].msg} /\ lost' = lost
         /\ UnderWay' = UnderWay \ {counting[n].msg}
<1> DEFINE m == counting[n].msg
<1>1. /\ n \in Node /\ counting \in [Node -> RecStats \cup {None}]
      /\ payloadReceived \in [Node -> SUBSET PathMessage]
  BY ConfType DEF TypeOK
<1>2. /\ counting[n] # None /\ counting[n].type = "PAYLOAD"
      /\ payloadReceived' = [payloadReceived EXCEPT ![n] = payloadReceived[n] \cup {m}]
      /\ counting' = [counting EXCEPT ![n] = None]
      /\ calls' = calls /\ lost' = lost
  BY DEF AddPayload
<1>3. m \in InHand
  BY <1>1, <1>2 DEF InHand
<1>4. \A k \in Node \ {n} : InHandAt(k) => counting[k].msg # m
  BY <1>1, <1>2 DEF ReceiverInv, InHandAt
<1>5. InHand' = InHand \ {m}
  <2>1. counting'[n] = None /\ \A k \in Node \ {n} : counting'[k] = counting[k]
    BY <1>1, <1>2
  <2> QED
    BY <1>1, <1>2, <1>4, <2>1 DEF InHand, InHandAt
<1>6. Received' = Received \cup {m}
  <2>1. payloadReceived'[n] = payloadReceived[n] \cup {m}
        /\ \A k \in Node \ {n} : payloadReceived'[k] = payloadReceived[k]
    BY <1>1, <1>2
  <2> QED
    BY <1>1, <2>1 DEF Received
<1>7. m \notin {d.msg : d \in calls}
  BY <1>3 DEF CallsInv
<1>8. UnderWay' = UnderWay \ {m}
  BY <1>2, <1>5, <1>7 DEF UnderWay
<1> QED
  BY <1>2, <1>3, <1>5, <1>6, <1>8
-----------------------------------------------------------------------------
(* The invariant *)

\* No message is forgotten, and the only new ones are those of a Send.
LEMMA KnownGrows ==
  ASSUME IInv, [Next]_vars
  PROVE  /\ Known \subseteq Known'
         /\ \A m \in Known' \ Known : \E n \in Nodes : Send(n) /\ m = Made(n)
<1> USE DEF IInv
<1>1. ASSUME NEW n \in Nodes, Send(n)
      PROVE  Known' = Known \cup {Made(n)}
  BY <1>1, SendMoves DEF Known
<1>2. ASSUME NEW n \in Nodes, NEW c \in calls, Accept(n, c)
      PROVE  Known' = Known
  BY <1>2, AcceptMoves DEF Known
<1>3. ASSUME NEW n \in Nodes, SendFails(n)
      PROVE  Known' = Known
  BY <1>3, SendFailsMoves DEF Known
<1>4. ASSUME NEW c \in calls, RelayFails(c)
      PROVE  Known' = Known
  BY <1>4, RelayFailsMoves DEF Known
<1>5. ASSUME NEW n \in Nodes, Count(n)
      PROVE  Known' = Known
  BY <1>5, CountMoves DEF Known
<1>6. ASSUME NEW n \in Nodes, AddPayload(n)
      PROVE  Known' = Known
  BY <1>6, AddPayloadMoves DEF Known, UnderWay
<1>7. ASSUME UNCHANGED <<calls, counting, payloadReceived, lost>>
      PROVE  Known' = Known
  BY <1>7, OthersMove DEF Known
<1>8. CASE \E n \in Nodes : Send(n)
  BY <1>1, <1>8
<1>9. CASE Known' = Known
  BY <1>9
<1> QED
  BY <1>2, <1>3, <1>4, <1>5, <1>6, <1>7, <1>8, <1>9
  DEF Next, vars, DoTask, TrackReceivedData, Fault, StartTask, Answered, Finish,
      GetMessagingData, countVars

LEMMA KnownStep ==
  ASSUME IInv, [Next]_vars
  PROVE  KnownInv'
<1>1. conf' = conf /\ Nodes' = Nodes
  BY ConfStays
<1>2. \A n \in Nodes : issued'[n] \in Nat /\ issued[n] \in Nat /\ issued'[n] >= issued[n]
  <2>1. Nodes \subseteq Node /\ issued \in [Node -> Nat]
    BY ConfType DEF IInv, TypeOK
  <2>2. issued' = issued \/ \E n \in Nodes : issued' = [issued EXCEPT ![n] = issued[n] + 1]
    BY DEF Next, vars, sendVars, DoTask, TrackReceivedData, Fault, StartTask, Send, Answered,
           Finish, SendFails, Accept, RelayFails, Count, AddPayload, GetMessagingData
  <2> QED
    BY <2>1, <2>2
<1>3. ASSUME NEW m \in Known
      PROVE  /\ m.origin \in Nodes' /\ m.destination \in Nodes' \ {m.origin}
             /\ m.nr < issued'[m.origin]
  <2>1. m \in PathMessage
    BY <1>3 DEF IInv, TypeOK, Known, UnderWay, InHand, Received, RecStats
  <2>2. m.nr \in Nat /\ m.origin \in Nodes /\ m.destination \in Nodes \ {m.origin}
        /\ m.nr < issued[m.origin]
    BY <2>1 DEF IInv, KnownInv, PathMessage
  <2> QED
    BY <1>1, <1>2, <2>2
<1>4. ASSUME NEW n \in Nodes, Send(n)
      PROVE  /\ Made(n).origin \in Nodes' /\ Made(n).destination \in Nodes' \ {Made(n).origin}
             /\ Made(n).nr < issued'[Made(n).origin]
  <2>1. n \in Node /\ issued \in [Node -> Nat] /\ dest'[n] \in Nodes \ {n}
    BY <1>4, ConfType, MadeTyped DEF IInv, TypeOK
  <2>2. Made(n).origin = n /\ Made(n).destination = dest'[n] /\ Made(n).nr = issued[n]
    BY DEF Made
  <2>3. issued' = [issued EXCEPT ![n] = issued[n] + 1]
    BY <1>4 DEF Send
  <2> QED
    BY <1>1, <2>1, <2>2, <2>3
<1> QED
  BY <1>3, <1>4, KnownGrows DEF KnownInv

LEMMA BatchStep ==
  ASSUME IInv, [Next]_vars
  PROVE  BatchInv'
<1>0. /\ conf' = conf /\ Nodes' = Nodes /\ Requirement' = Requirement
      /\ Nodes \subseteq Node /\ Requirement \in Int /\ conf.request.perBatch \in Int
  BY ConfStays, ConfType DEF IInv, TypeOK
<1>t. /\ task \in [Node -> {"waiting", "sending", "finished", "panicked"}]
      /\ left \in [Node -> Nat] /\ messagesSent \in [Node -> Nat] /\ dest \in [Node -> Node]
      /\ current \in [Node -> PathMessage \cup {None}]
  BY DEF IInv, TypeOK
<1>b. BatchInv
  BY DEF IInv
<1>1. ASSUME NEW n \in Nodes, StartTask(n)
      PROVE  BatchInv'
  BY <1>0, <1>1, <1>t, <1>b DEF StartTask, BatchInv
<1>2. ASSUME NEW n \in Nodes, Send(n)
      PROVE  BatchInv'
  <2>1. /\ task[n] = "sending" /\ UNCHANGED <<task, messagesSent>>
        /\ dest' \in [Node -> Node] /\ dest'[n] \in Nodes \ {n}
        /\ current' = [current EXCEPT ![n] = Made(n)]
    BY <1>2, MadeTyped DEF Send, IInv
  <2>2. CASE left[n] > 0 /\ left' = left /\ dest' = dest
    BY <1>0, <1>t, <1>b, <2>1, <2>2 DEF BatchInv
  <2>3. CASE /\ left[n] = 0 /\ messagesSent[n] < Requirement
             /\ left' = [left EXCEPT ![n] = conf.request.perBatch]
             /\ \E r \in Nodes \ {n} : dest' = [dest EXCEPT ![n] = r]
    BY <1>0, <1>t, <1>b, <2>1, <2>3 DEF BatchInv
  <2> QED
    BY <1>2, <2>2, <2>3 DEF Send, InBatch, MoreToSend
<1>3. ASSUME NEW n \in Nodes, Answered(n)
      PROVE  BatchInv'
  <2>1. /\ UNCHANGED <<task, dest>> /\ current[n] # None
        /\ messagesSent' = [messagesSent EXCEPT ![n] = messagesSent[n] + 1]
        /\ current' = [current EXCEPT ![n] = None] /\ left' = [left EXCEPT ![n] = left[n] - 1]
    BY <1>3 DEF Answered, NextOfBatch
  <2> QED
    BY <1>0, <1>t, <1>b, <2>1 DEF BatchInv
<1>4. ASSUME NEW n \in Nodes, SendFails(n)
      PROVE  BatchInv'
  <2>1. /\ UNCHANGED <<task, dest, messagesSent>> /\ current[n] # None
        /\ current' = [current EXCEPT ![n] = None] /\ left' = [left EXCEPT ![n] = left[n] - 1]
    BY <1>4 DEF SendFails, NextOfBatch
  <2> QED
    BY <1>0, <1>t, <1>b, <2>1 DEF BatchInv
<1>5. ASSUME NEW n \in Nodes, Finish(n)
      PROVE  BatchInv'
  BY <1>0, <1>t, <1>b, <1>5 DEF Finish, MoreToSend, BatchInv
<1>6. CASE UNCHANGED sendVars
  BY <1>0, <1>b, <1>6 DEF sendVars, BatchInv
<1> QED
  BY <1>1, <1>2, <1>3, <1>4, <1>5, <1>6
  DEF Next, vars, DoTask, TrackReceivedData, Fault, Accept, RelayFails, Count, AddPayload,
      GetMessagingData

LEMMA SenderStep ==
  ASSUME IInv, [Next]_vars
  PROVE  SenderInv'
<1>t. /\ Nodes \subseteq Node
      /\ messagesSent \in [Node -> Nat] /\ payloadSent \in [Node -> SUBSET PathMessage]
      /\ current \in [Node -> PathMessage \cup {None}]
  BY ConfType DEF IInv, TypeOK
<1>s. SenderInv /\ Known \subseteq Known'
  BY KnownGrows DEF IInv
<1>1. ASSUME NEW n \in Nodes, Send(n)
      PROVE  SenderInv'
  <2>1. /\ UNCHANGED <<messagesSent, payloadSent>>
        /\ current' = [current EXCEPT ![n] = Made(n)]
    BY <1>1, MadeTyped DEF Send, IInv
  <2>2. Made(n) \in Known' /\ Made(n) \notin Known
    BY <1>1, SendMoves DEF IInv, Known
  <2>3. Made(n).origin = n
    BY DEF Made
  <2> QED
    BY <1>t, <1>s, <2>1, <2>2, <2>3 DEF SenderInv
<1>2. ASSUME NEW n \in Nodes, Answered(n)
      PROVE  SenderInv'
  <2>1. /\ current[n] # None
        /\ messagesSent' = [messagesSent EXCEPT ![n] = messagesSent[n] + 1]
        /\ payloadSent' = [payloadSent EXCEPT ![n] = payloadSent[n] \cup {current[n]}]
        /\ current' = [current EXCEPT ![n] = None]
    BY <1>2 DEF Answered, NextOfBatch
  <2>2. n \in Node /\ current[n] \in Known /\ current[n].origin = n /\ current[n] \notin payloadSent[n]
    BY <1>t, <1>s, <2>1 DEF SenderInv
  <2>3. /\ IsFiniteSet(payloadSent'[n])
        /\ Cardinality(payloadSent'[n]) = messagesSent'[n]
    BY <1>t, <1>s, <2>1, <2>2, FS_AddElement DEF SenderInv
  <2>4. \A m \in payloadSent'[n] : m \in Known' /\ m.origin = n /\ m # current'[n]
    BY <1>t, <1>s, <2>1, <2>2, NoneIsNoMessage DEF SenderInv
  <2>5. \A k \in Node \ {n} : /\ messagesSent'[k] = messagesSent[k]
                              /\ payloadSent'[k] = payloadSent[k] /\ current'[k] = current[k]
    BY <1>t, <2>1, <2>2
  <2>6. current'[n] = None
    BY <1>t, <2>1, <2>2
  <2> QED
    BY <1>s, <2>3, <2>4, <2>5, <2>6 DEF SenderInv
<1>3. ASSUME NEW n \in Nodes, SendFails(n)
      PROVE  SenderInv'
  <2>1. UNCHANGED <<messagesSent, payloadSent>> /\ current' = [current EXCEPT ![n] = None]
    BY <1>3 DEF SendFails, NextOfBatch
  <2>2. None \notin UNION {payloadSent[k] : k \in Node}
    BY <1>t, NoneIsNoMessage
  <2> QED
    BY <1>t, <1>s, <2>1, <2>2 DEF SenderInv
<1>4. CASE UNCHANGED <<current, messagesSent, payloadSent>>
  BY <1>s, <1>4 DEF SenderInv
<1> QED
  BY <1>1, <1>2, <1>3, <1>4
  DEF Next, vars, sendVars, DoTask, TrackReceivedData, Fault, StartTask, Finish, Accept,
      RelayFails, Count, AddPayload, GetMessagingData

LEMMA CallsStep ==
  ASSUME IInv, [Next]_vars
  PROVE  CallsInv'
<1>0. Nodes' = Nodes
  BY ConfStays
<1>c. CallsInv
  BY DEF IInv
<1>1. ASSUME NEW n \in Nodes, Send(n)
      PROVE  CallsInv'
  <2>1. /\ calls' = calls \cup {FirstCall(Made(n))} /\ FirstCall(Made(n)).at \in Nodes
        /\ FirstCall(Made(n)).msg = Made(n)
    BY <1>1, MadeTyped DEF IInv, FirstCall, Call
  <2>2. InHand' = InHand /\ Received' = Received /\ Made(n) \notin Known
    BY <1>1, SendMoves DEF IInv
  <2>3. \A c \in calls : c.msg # Made(n)
    BY <2>2 DEF Known, UnderWay
  <2>4. Made(n) \notin InHand /\ Made(n) \notin Received
    BY <2>2 DEF Known, UnderWay
  <2> QED
    BY <1>0, <1>c, <2>1, <2>2, <2>3, <2>4 DEF CallsInv
<1>2. ASSUME NEW n \in Nodes, NEW c \in calls, Accept(n, c), c.msg.destination = n
      PROVE  CallsInv'
  <2>1. calls' = calls \ {c} /\ InHand' = InHand \cup {c.msg} /\ Received' = Received
    BY <1>2, AcceptMoves DEF Accept, IInv
  <2> QED
    BY <1>0, <1>c, <2>1 DEF CallsInv
<1>3. ASSUME NEW n \in Nodes, NEW c \in calls, Accept(n, c), c.msg.destination # n
      PROVE  CallsInv'
  <2> DEFINE next == Call(c.msg, NextNode(n, c.msg), Append(c.path, n))
  <2>1. calls' = (calls \ {c}) \cup {next} /\ InHand' = InHand /\ Received' = Received
    BY <1>3, AcceptMoves DEF Accept, IInv, Forward
  <2>2. next.msg = c.msg /\ next.at \in Nodes
    BY <1>3, ForwardTyped DEF Call, IInv
  <2> HIDE DEF next
  <2> QED
    BY <1>0, <1>c, <2>1, <2>2 DEF CallsInv
<1>4. ASSUME calls' \subseteq calls, InHand' \subseteq InHand,
             \A c \in calls' : c.msg \notin Received'
      PROVE  CallsInv'
  BY <1>0, <1>c, <1>4 DEF CallsInv
<1>5. ASSUME NEW n \in Nodes, SendFails(n)
      PROVE  CallsInv'
  <2>1. calls' \subseteq calls
    BY <1>5 DEF SendFails
  <2> QED
    BY <1>4, <1>c, <1>5, <2>1, SendFailsMoves DEF CallsInv, IInv
<1>6. ASSUME NEW c \in calls, RelayFails(c)
      PROVE  CallsInv'
  <2>1. calls' \subseteq calls
    BY <1>6 DEF RelayFails
  <2> QED
    BY <1>4, <1>c, <1>6, <2>1, RelayFailsMoves DEF CallsInv, IInv
<1>7. ASSUME NEW n \in Nodes, Count(n)
      PROVE  CallsInv'
  <2>1. calls' = calls
    BY <1>7 DEF Count
  <2> QED
    BY <1>4, <1>c, <1>7, <2>1, CountMoves DEF CallsInv, IInv
<1>8. ASSUME NEW n \in Nodes, AddPayload(n)
      PROVE  CallsInv'
  <2>1. calls' = calls
    BY <1>8 DEF AddPayload
  <2> QED
    BY <1>4, <1>c, <1>8, <2>1, AddPayloadMoves DEF CallsInv, IInv
<1>9. CASE UNCHANGED <<calls, counting, payloadReceived, lost>>
  BY <1>4, <1>c, <1>9, OthersMove DEF CallsInv
<1> QED
  BY <1>1, <1>2, <1>3, <1>5, <1>6, <1>7, <1>8, <1>9
  DEF Next, vars, DoTask, TrackReceivedData, Fault, StartTask, Answered, Finish,
      GetMessagingData, countVars

LEMMA ReceiverStep ==
  ASSUME IInv, [Next]_vars
  PROVE  ReceiverInv'
<1>t. /\ Nodes \subseteq Node /\ calls \subseteq Calls
      /\ counting \in [Node -> RecStats \cup {None}]
      /\ messagesReceived \in [Node -> Nat] /\ payloadReceived \in [Node -> SUBSET PathMessage]
  BY ConfType DEF IInv, TypeOK, Calls
<1>r. ReceiverInv
  BY DEF IInv
<1>1. ASSUME NEW n \in Nodes, NEW c \in calls, Accept(n, c)
      PROVE  ReceiverInv'
  <2> DEFINE stat == Statistic(n, c.msg)
  <2>1. /\ counting[n] = None /\ counting' = [counting EXCEPT ![n] = stat]
        /\ UNCHANGED <<messagesReceived, payloadReceived>>
    BY <1>1 DEF Accept
  <2>2. stat.type # "PAYLOAD" /\ stat.msg = c.msg
        /\ (stat.type # "RELAYED" => c.msg.destination = n)
    BY DEF Statistic
  <2>3. n \in Node /\ c.msg \notin payloadReceived[n]
    BY <1>t DEF CallsInv, Received, IInv
  <2> HIDE DEF stat
  <2> QED
    BY <1>t, <1>r, <2>1, <2>2, <2>3 DEF ReceiverInv, InHandAt
<1>2. ASSUME NEW n \in Nodes, Count(n)
      PROVE  ReceiverInv'
  <2>1. n \in Node /\ counting[n] # None /\ counting[n] \in RecStats /\ payloadReceived' = payloadReceived
    BY <1>t, <1>2 DEF Count
  <2>2. CASE /\ counting[n].type = "RELAYED" /\ messagesReceived' = messagesReceived
             /\ counting' = [counting EXCEPT ![n] = None]
    BY <1>t, <1>r, <2>1, <2>2 DEF ReceiverInv, InHandAt
  <2>3. CASE /\ counting[n].type = "RECEIVED"
             /\ messagesReceived' = [messagesReceived EXCEPT ![n] = messagesReceived[n] + 1]
             /\ counting' = [counting EXCEPT ![n] = [type |-> "PAYLOAD", msg |-> counting[n].msg]]
    <3> DEFINE stat == [type |-> "PAYLOAD", msg |-> counting[n].msg]
    <3>1. stat.type = "PAYLOAD" /\ stat.msg = counting[n].msg /\ stat # None
      <4>1. stat \in RecStats
        BY <2>1 DEF RecStats
      <4> QED
        BY <4>1, NoneIsNoMessage
    <3> HIDE DEF stat
    <3>2. /\ counting'[n] = stat /\ messagesReceived'[n] = messagesReceived[n] + 1
          /\ \A k \in Node \ {n} : /\ counting'[k] = counting[k]
                                   /\ messagesReceived'[k] = messagesReceived[k]
      BY <1>t, <2>1, <2>3 DEF stat
    <3>3. IsFiniteSet(payloadReceived[n]) /\ Cardinality(payloadReceived[n]) \in Nat
      BY <2>1, <1>r, FS_CardinalityType DEF ReceiverInv
    <3> QED
      BY <1>r, <2>1, <2>3, <3>1, <3>2, <3>3 DEF ReceiverInv, InHandAt
  <2> QED
    BY <1>2, <2>2, <2>3 DEF Count
<1>3. ASSUME NEW n \in Nodes, AddPayload(n)
      PROVE  ReceiverInv'
  <2>1. /\ n \in Node /\ counting[n] # None /\ counting[n].type = "PAYLOAD"
        /\ payloadReceived' = [payloadReceived EXCEPT ![n] = payloadReceived[n] \cup {counting[n].msg}]
        /\ counting' = [counting EXCEPT ![n] = None] /\ messagesReceived' = messagesReceived
    BY <1>t, <1>3 DEF AddPayload
  <2>2. counting[n].msg.destination = n /\ counting[n].msg \notin payloadReceived[n]
    BY <1>r, <2>1 DEF ReceiverInv, InHandAt
  <2>3. /\ counting'[n] = None /\ payloadReceived'[n] = payloadReceived[n] \cup {counting[n].msg}
        /\ \A k \in Node \ {n} : /\ counting'[k] = counting[k]
                                 /\ payloadReceived'[k] = payloadReceived[k]
    BY <1>t, <2>1
  <2>4. /\ IsFiniteSet(payloadReceived'[n])
        /\ Cardinality(payloadReceived'[n]) = Cardinality(payloadReceived[n]) + 1
    <3>1. IsFiniteSet(payloadReceived[n])
      BY <1>r, <2>1 DEF ReceiverInv
    <3>2. /\ IsFiniteSet(payloadReceived[n] \cup {counting[n].msg})
          /\ Cardinality(payloadReceived[n] \cup {counting[n].msg}) = Cardinality(payloadReceived[n]) + 1
      BY <2>2, <3>1, FS_AddElement
    <3> QED
      BY <2>3, <3>2
  <2>5. messagesReceived[n] = Cardinality(payloadReceived'[n])
    BY <1>r, <2>1, <2>4 DEF ReceiverInv
  <2>6. Cardinality(payloadReceived'[n]) \in Nat
    BY <2>4, FS_CardinalityType
  <2>7. messagesReceived'[n] = Cardinality(payloadReceived'[n])
    BY <2>1, <2>5
  <2>8. \A m \in payloadReceived'[n] : m.destination = n
    BY <1>r, <2>1, <2>2, <2>3 DEF ReceiverInv
  <2>9. \A k \in Node \ {n} : /\ counting'[k] = counting[k]
                              /\ payloadReceived'[k] = payloadReceived[k]
                              /\ messagesReceived'[k] = messagesReceived[k]
    BY <2>1, <2>3
  <2>10. messagesReceived'[n] = Cardinality(payloadReceived'[n]) + 0
    BY <2>6, <2>7
  <2> DEFINE OK(k) ==
        /\ InHandAt(k) =>
             counting[k].msg.destination = k /\ counting[k].msg \notin payloadReceived[k]
        /\ \A m \in payloadReceived[k] : m.destination = k
        /\ IsFiniteSet(payloadReceived[k])
        /\ messagesReceived[k] = Cardinality(payloadReceived[k]) +
             (IF counting[k] # None /\ counting[k].type = "PAYLOAD" THEN 1 ELSE 0)
  <2>11. ASSUME NEW k \in Node \ {n}
         PROVE  OK(k)'
    <3>1. OK(k)
      BY <1>r DEF ReceiverInv
    <3> QED
      BY <2>9, <3>1 DEF InHandAt
  <2>12. OK(n)'
    BY <2>3, <2>4, <2>8, <2>10 DEF InHandAt
  <2> QED
    BY <2>11, <2>12 DEF ReceiverInv
<1>4. CASE UNCHANGED <<counting, messagesReceived, payloadReceived>>
  BY <1>r, <1>4 DEF ReceiverInv, InHandAt
<1> QED
  BY <1>1, <1>2, <1>3, <1>4
  DEF Next, vars, countVars, DoTask, TrackReceivedData, Fault, StartTask, Send, Answered, Finish,
      SendFails, RelayFails, GetMessagingData

LEMMA InitialInv == Init => IInv
<1> SUFFICES ASSUME Init PROVE IInv
  OBVIOUS
<1>1. conf \in Settings /\ calls = {} /\ lost = {}
      /\ counting = [n \in Node |-> None] /\ payloadReceived = [n \in Node |-> {}]
  BY DEF Init
<1>2. InHand = {} /\ Received = {}
  BY <1>1 DEF InHand, Received
<1>3. Known = {}
  BY <1>1, <1>2 DEF Known, UnderWay
<1>4. KnownInv /\ CallsInv
  BY <1>1, <1>3 DEF KnownInv, CallsInv
<1>5. BatchInv
  BY DEF Init, BatchInv
<1>6. SenderInv
  BY FS_EmptySet DEF Init, SenderInv
<1>7. ReceiverInv
  BY FS_EmptySet DEF Init, ReceiverInv, InHandAt
<1> QED
  BY <1>4, <1>5, <1>6, <1>7, TypeInit DEF IInv

LEMMA InvStep == IInv /\ [Next]_vars => IInv'
<1> SUFFICES ASSUME IInv, [Next]_vars PROVE IInv'
  OBVIOUS
<1>1. TypeOK'
  <2>1. CASE Next
    BY <2>1, TypeStep DEF IInv
  <2>2. CASE UNCHANGED vars
    BY <2>2 DEF IInv, TypeOK, vars, sendVars, countVars, faults
  <2> QED
    BY <2>1, <2>2
<1> QED
  BY <1>1, KnownStep, BatchStep, SenderStep, CallsStep, ReceiverStep DEF IInv

\* The invariant: what is known of a message at its sender, on its way and at its
\* destination holds together, whatever calls of AcceptMessage fail.
THEOREM Inductive == Spec => []IInv
  BY InitialInv, InvStep, PTL DEF Spec

\* The variables have their types, for every overlay and task.
THEOREM TypeCorrect == Spec => []TypeOK
<1>1. IInv => TypeOK
  BY DEF IInv
<1> QED
  BY <1>1, Inductive, PTL

\* doTask counts each message it has an answer for once, and stops at most one
\* message short of a whole batch beyond the requirement (messenger.go:132).
THEOREM Fits == Spec => []SentFits
<1>1. IInv => SentFits
  <2> SUFFICES ASSUME IInv, NEW n \in Nodes, task[n] = "finished"
               PROVE  /\ Cardinality(payloadSent[n]) = messagesSent[n]
                      /\ messagesSent[n] >= Requirement
                      /\ messagesSent[n] < Requirement + conf.request.perBatch
    BY DEF SentFits
  <2>1. /\ n \in Node /\ messagesSent[n] \in Nat /\ left[n] \in Nat
        /\ Requirement \in Int /\ conf.request.perBatch \in Int
    BY ConfType DEF IInv, TypeOK
  <2> QED
    BY <2>1 DEF IInv, BatchInv, SenderInv
<1> QED
  BY <1>1, Inductive, PTL

\* A message its sender counts is received, on its way or lost in a failed call
\* (messenger.go:295).
THEOREM Accounted == Spec => []CountedIsAccountedFor
<1>1. IInv => CountedIsAccountedFor
  BY DEF IInv, SenderInv, CountedIsAccountedFor, Sent, Known
<1> QED
  BY <1>1, Inductive, PTL

\* A node receives only what is for it, and each message once, also if its
\* sender has given up on it (messenger.go:289).
THEOREM OwnOnce == Spec => []ReceivesOwnOnce
<1>1. IInv => ReceivesOwnOnce
  BY ConfType DEF IInv, TypeOK, ReceiverInv, ReceivesOwnOnce
<1> QED
  BY <1>1, Inductive, PTL

-----------------------------------------------------------------------------
(* The refinement of Delivery *)

LEMMA ReceiptsReceived == \A r \in Receipts : r.msg \in Received
  BY DEF Receipts, Received

\* A payload is added up at the destination of its message.
LEMMA AddPayloadReceipt ==
  ASSUME TypeOK, ReceiverInv, NEW n \in Nodes, AddPayload(n)
  PROVE  LET m == counting[n].msg IN Receipts' = Receipts \cup {[msg |-> m, at |-> m.destination]}
<1> PICK m : m = counting[n].msg
  OBVIOUS
<1>1. /\ n \in Node /\ m.destination = n
      /\ payloadReceived'[n] = payloadReceived[n] \cup {m}
      /\ \A k \in Node \ {n} : payloadReceived'[k] = payloadReceived[k]
  <2>1. n \in Node /\ payloadReceived \in [Node -> SUBSET PathMessage]
    BY ConfType DEF TypeOK
  <2> QED
    BY <2>1 DEF AddPayload, ReceiverInv, InHandAt
<1> DEFINE at(k) == {[msg |-> e, at |-> k] : e \in payloadReceived[k]}
<1>2. at(n)' = at(n) \cup {[msg |-> m, at |-> m.destination]}
  BY <1>1
<1>3. \A k \in Node \ {n} : at(k)' = at(k)
  BY <1>1
<1>4. Receipts = UNION {at(k) : k \in Node} /\ Receipts' = UNION {at(k)' : k \in Node}
  BY DEF Receipts
<1> HIDE DEF at
<1> QED
  BY <1>1, <1>2, <1>3, <1>4

LEMMA DeliveryStep == IInv /\ [Next]_vars => [D!Next]_(D!deliveryVars)
<1> SUFFICES ASSUME IInv, [Next]_vars PROVE [D!Next]_(D!deliveryVars)
  OBVIOUS
<1> USE DEF IInv
<1>r. UNCHANGED payloadReceived => UNCHANGED Receipts
  BY DEF Receipts
<1>1. ASSUME NEW n \in Nodes, Send(n)
      PROVE  D!Issue
  <2>1. UNCHANGED Receipts
    BY <1>1, <1>r DEF Send, countVars
  <2>2. Made(n) \notin UnderWay \cup lost /\ \A r \in Receipts : r.msg # Made(n)
    BY <1>1, SendMoves, ReceiptsReceived DEF Known
  <2> QED
    BY <1>1, <2>1, <2>2, SendMoves DEF D!Issue
<1>2. ASSUME NEW n \in Nodes, NEW c \in calls, Accept(n, c)
      PROVE  UNCHANGED D!deliveryVars
  BY <1>2, <1>r, AcceptMoves DEF D!deliveryVars, Accept
<1>3. ASSUME NEW n \in Nodes, SendFails(n)
      PROVE  (\E m \in UnderWay : D!Lose(m)) \/ UNCHANGED D!deliveryVars
  BY <1>3, <1>r, SendFailsMoves DEF D!Lose, D!deliveryVars, SendFails, countVars
<1>4. ASSUME NEW c \in calls, RelayFails(c)
      PROVE  \E m \in UnderWay : D!Lose(m)
  BY <1>4, <1>r, RelayFailsMoves DEF D!Lose, RelayFails, countVars
<1>5. ASSUME NEW n \in Nodes, Count(n)
      PROVE  UNCHANGED D!deliveryVars
  BY <1>5, <1>r, CountMoves DEF D!deliveryVars, Count
<1>6. ASSUME NEW n \in Nodes, AddPayload(n)
      PROVE  \E m \in UnderWay : D!Deliver(m)
  BY <1>6, AddPayloadMoves, AddPayloadReceipt DEF D!Deliver, UnderWay
<1>7. ASSUME UNCHANGED <<calls, counting, payloadReceived, lost>>
      PROVE  UNCHANGED D!deliveryVars
  BY <1>7, <1>r, OthersMove DEF D!deliveryVars
<1> QED
  BY <1>1, <1>2, <1>3, <1>4, <1>5, <1>6, <1>7
  DEF D!Next, Next, vars, DoTask, TrackReceivedData, Fault, StartTask, Answered, Finish,
      GetMessagingData, countVars

\* Every message that is issued is delivered once, at its destination, or lost, and
\* a step never does both, nor to a message that was: relays, answers that come too
\* late, and the tracker's two updates of a message implement Delivery.
THEOREM Implements == Spec => Delivers
<1>1. Init => D!Init
  BY DEF Init, D!Init, UnderWay, InHand, Receipts
<1> QED
  BY <1>1, Inductive, DeliveryStep, PTL DEF Spec, Delivers, D!Spec

-----------------------------------------------------------------------------
(* Routes *)

\* A call is where the routes lead from the origin, by the nodes in its path.
OnRoute(c) ==
  /\ Len(c.path) >= 1 /\ c.path[1] = c.msg.origin
  /\ \A i \in 1..Len(c.path) :
       /\ c.path[i] \in Nodes /\ c.path[i] # c.msg.destination
       /\ conf.route[c.path[i]][c.msg.destination] =
            IF i = Len(c.path) THEN c.at ELSE c.path[i + 1]

WayInv == \A c \in calls : OnRoute(c)

LEMMA WayStep ==
  ASSUME IInv, WayInv, [Next]_vars
  PROVE  WayInv'
<1>0. \A c : OnRoute(c)' <=> OnRoute(c)
  BY ConfStays DEF OnRoute
<1>1. ASSUME NEW n \in Nodes, Send(n)
      PROVE  WayInv'
  <2>1. /\ calls' = calls \cup {FirstCall(Made(n))} /\ dest'[n] # n
    BY <1>1, MadeTyped DEF IInv
  <2> PICK c, d : c = FirstCall(Made(n)) /\ d = dest'[n]
    OBVIOUS
  <2>2. /\ c.path = <<n>> /\ c.msg.origin = n /\ c.msg.destination = d
        /\ c.at = conf.route[n][d]
    BY DEF FirstCall, Call, Made
  <2>3. Len(c.path) = 1 /\ c.path[1] = n
    BY <2>2
  <2>4. OnRoute(c)
    BY <2>1, <2>2, <2>3 DEF OnRoute
  <2> QED
    BY <1>0, <2>1, <2>4 DEF WayInv
<1>2. ASSUME NEW n \in Nodes, NEW c \in calls, Accept(n, c), c.msg.destination # n
      PROVE  WayInv'
  <2> PICK next : next = Call(c.msg, NextNode(n, c.msg), Append(c.path, n))
    OBVIOUS
  <2>1. /\ calls' = (calls \ {c}) \cup {next} /\ c.at = n
        /\ c.path \in Seq(Node) /\ OnRoute(c)
    BY <1>2 DEF Accept, Forward, IInv, TypeOK, WayInv
  <2> PICK L, d : L = Len(c.path) /\ d = c.msg.destination
    OBVIOUS
  <2>2. /\ next.msg = c.msg /\ next.at = conf.route[n][d]
        /\ L \in Nat /\ Len(next.path) = L + 1 /\ next.path[L + 1] = n
        /\ \A i \in 1..L : next.path[i] = c.path[i]
    BY <2>1 DEF Call, NextNode
  <2>3. /\ L >= 1 /\ c.path[1] = c.msg.origin
        /\ \A i \in 1..L : /\ c.path[i] \in Nodes /\ c.path[i] # d
                           /\ conf.route[c.path[i]][d] = IF i = L THEN n ELSE c.path[i + 1]
    BY <2>1 DEF OnRoute
  <2>4. Len(next.path) >= 1 /\ next.path[1] = next.msg.origin
    BY <2>2, <2>3
  <2>5. ASSUME NEW i \in 1..(L + 1)
        PROVE  /\ next.path[i] \in Nodes /\ next.path[i] # d
               /\ conf.route[next.path[i]][d] = IF i = L + 1 THEN next.at ELSE next.path[i + 1]
    <3>1. CASE i = L + 1
      BY <1>2, <2>2, <3>1
    <3>2. CASE i = L
      BY <2>2, <2>3, <3>2
    <3>3. CASE i < L
      <4>1. i \in 1..L /\ i + 1 \in 1..L
        BY <2>2, <3>3
      <4> QED
        BY <2>2, <2>3, <3>3, <4>1
    <3> QED
      BY <2>2, <3>1, <3>2, <3>3
  <2>6. OnRoute(next)
    BY <2>2, <2>4, <2>5 DEF OnRoute
  <2> QED
    BY <1>0, <2>1, <2>6 DEF WayInv
<1>3. CASE calls' \subseteq calls
  BY <1>0, <1>3 DEF WayInv
<1> QED
  BY <1>1, <1>2, <1>3
  DEF Next, vars, DoTask, TrackReceivedData, Fault, StartTask, Answered, Finish, SendFails,
      Accept, RelayFails, Count, AddPayload, GetMessagingData

LEMMA SameDistances ==
  ASSUME conf' = conf
  PROVE  /\ \A d : G!Distances(Nodes, d)' = G!Distances(Nodes, d)
         /\ \A a, b : G!Adjacent(a, b)' = G!Adjacent(a, b) /\ G!Cost(a, b)' = G!Cost(a, b)
<1>1. \A d : G!Distances(Nodes, d)' = G!Distances(Nodes, d)
  BY DEF G!Distances, G!Far, G!Round, G!EdgesOf, G!Ends, G!Target, Nodes
<1>2. \A a, b : G!Adjacent(a, b)' = G!Adjacent(a, b)
  BY DEF G!Adjacent, G!Ends
<1>3. \A a, b : G!Cost(a, b)' = G!Cost(a, b)
  BY DEF G!Cost, G!Ends
<1> QED
  BY <1>1, <1>2, <1>3

\* Every call is on the routes, which stay as they are.
LEMMA OnTheWay == Spec => [](WayInv /\ Routed)
<1>1. Init => WayInv /\ Routed
  BY DEF Init, WayInv
<1>2. Routed /\ [Next]_vars => Routed'
  BY ConfStays, SameDistances DEF Routed
<1> QED
  BY <1>1, <1>2, WayStep, Inductive, PTL DEF Spec

\* The nodes a message has been at and goes to.
LEMMA TrailIs ==
  ASSUME NEW c, c.path \in Seq(Node), c.at \in Nodes, OnRoute(c)
  PROVE  /\ Len(Trail(c)) = Len(c.path) + 1 /\ Len(c.path) \in Nat \ {0}
         /\ Trail(c)[Len(c.path) + 1] = c.at
         /\ \A i \in 1..Len(c.path) :
              /\ Trail(c)[i] = c.path[i] /\ Trail(c)[i] # c.msg.destination
              /\ conf.route[Trail(c)[i]][c.msg.destination] = Trail(c)[i + 1]
         /\ \A i \in 1..(Len(c.path) + 1) : Trail(c)[i] \in Nodes
<1> PICK L, at, d : L = Len(c.path) /\ at = Trail(c) /\ d = c.msg.destination
  OBVIOUS
<1>1. /\ L \in Nat \ {0} /\ Len(at) = L + 1 /\ at[L + 1] = c.at
      /\ \A i \in 1..L : at[i] = c.path[i]
  BY DEF Trail, OnRoute
<1>2. \A i \in 1..L : /\ c.path[i] \in Nodes /\ c.path[i] # d
                      /\ conf.route[c.path[i]][d] = IF i = L THEN c.at ELSE c.path[i + 1]
  BY DEF OnRoute
<1>3. \A i \in 1..L : i = L \/ i + 1 \in 1..L
  BY <1>1
<1>4. \A i \in 1..L : conf.route[at[i]][d] = at[i + 1]
  BY <1>1, <1>2, <1>3
<1>5. \A i \in 1..(L + 1) : i = L + 1 \/ i \in 1..L
  BY <1>1
<1> QED
  BY <1>1, <1>2, <1>4, <1>5

LEMMA Shifted ==
  ASSUME NEW L \in Nat, NEW i \in 1..(L + 1), NEW j \in 1..(L + 1), i < j,
         NEW k \in 0..(L + 1 - j) - 1
  PROVE  /\ i + k \in 1..L /\ j + k \in 1..L /\ k + 1 \in 0..(L + 1 - j)
         /\ (i + k) + 1 = i + (k + 1) /\ (j + k) + 1 = j + (k + 1)
  OBVIOUS

\* Where a route comes back to a node it repeats itself, so it does not arrive.
LEMMA ArrivesStraight ==
  ASSUME NEW c, c.path \in Seq(Node), c.at \in Nodes, OnRoute(c), c.at = c.msg.destination
  PROVE  ~Returns(c)
<1> PICK L, at, d : L = Len(c.path) /\ at = Trail(c) /\ d = c.msg.destination
  OBVIOUS
<1>1. /\ L \in Nat \ {0} /\ Len(at) = L + 1 /\ at[L + 1] = d
      /\ \A i \in 1..L : at[i] # d /\ conf.route[at[i]][d] = at[i + 1]
  BY TrailIs
<1> SUFFICES ASSUME NEW i \in 1..(L + 1), NEW j \in 1..(L + 1), i < j, at[i] = at[j]
             PROVE  FALSE
  BY <1>1 DEF Returns
<1> DEFINE T == {k \in 0..(L + 1 - j) : at[i + k] = at[j + k]}
<1>2. L + 1 - j \in Nat /\ 0 \in T
  BY <1>1
<1>3. ASSUME NEW k \in 0..(L + 1 - j) - 1, k \in T
      PROVE  k + 1 \in T
  <2>1. i + k \in 1..L /\ j + k \in 1..L /\ k + 1 \in 0..(L + 1 - j)
        /\ (i + k) + 1 = i + (k + 1) /\ (j + k) + 1 = j + (k + 1)
    <3> HIDE DEF T
    <3> QED
      BY <1>1, Shifted
  <2>2. at[i + k] = at[j + k]
    BY <1>3
  <2> PICK x, y : x = i + k /\ y = j + k
    OBVIOUS
  <2>3. at[x + 1] = at[y + 1]
    <3>1. x \in 1..L /\ y \in 1..L /\ at[x] = at[y]
      BY <2>1, <2>2
    <3>2. conf.route[at[x]][d] = at[x + 1] /\ conf.route[at[y]][d] = at[y + 1]
      BY <1>1, <3>1
    <3> QED
      BY <3>1, <3>2
  <2> QED
    BY <2>1, <2>3
<1>4. L + 1 - j \in T
  <2> HIDE DEF T
  <2>1. \A k \in 0..(L + 1 - j) : k \in T
    BY <1>2, <1>3, UpTo
  <2> QED
    BY <1>2, <2>1
<1>5. j + (L + 1 - j) = L + 1 /\ i + (L + 1 - j) \in 1..L
  BY <1>1
<1> QED
  BY <1>1, <1>4, <1>5

\* A message that has come back to a node stays one that has.
LEMMA ReturnsStay ==
  ASSUME IInv, WayInv, [Next]_vars, ~Fault, NeverRevisits'
  PROVE  NeverRevisits
<1> SUFFICES ASSUME NEW c \in calls, Returns(c) PROVE FALSE
  BY DEF NeverRevisits
<1>1. c.path \in Seq(Node) /\ c.at \in Nodes /\ OnRoute(c)
  BY DEF IInv, TypeOK, CallsInv, WayInv
<1>2. \A e \in calls' : ~Returns(e)
  BY DEF NeverRevisits, Returns, Trail
<1>3. ASSUME NEW n \in Nodes, Accept(n, c)
      PROVE  FALSE
  <2>1. c.at = n /\ c.msg.destination # n
    BY <1>1, <1>3, ArrivesStraight DEF Accept
  <2> PICK next : next = Call(c.msg, NextNode(n, c.msg), Append(c.path, n))
    OBVIOUS
  <2>2. next \in calls'
    BY <1>3, <2>1 DEF Accept, Forward
  <2>3. next.path = Trail(c) /\ next.path \in Seq(Node)
    <3>1. n \in Node /\ next.path = Append(c.path, n)
      BY ConfType DEF IInv, TypeOK, Call
    <3> QED
      BY <1>1, <2>1, <3>1 DEF Trail
  <2>4. PICK i, j \in 1..Len(next.path) : i < j /\ next.path[i] = next.path[j]
    BY <2>3 DEF Returns
  <2>5. /\ Len(Trail(next)) = Len(next.path) + 1
        /\ \A k \in 1..Len(next.path) : Trail(next)[k] = next.path[k]
    BY <2>3 DEF Trail
  <2>6. Returns(next)
    <3>1. i \in 1..Len(Trail(next)) /\ j \in 1..Len(Trail(next))
      BY <2>3, <2>4, <2>5
    <3> QED
      BY <2>4, <2>5, <3>1 DEF Returns
  <2> QED
    BY <1>2, <2>2, <2>6
<1>4. c \in calls'
  <2>1. \A n \in Nodes, e \in calls : Accept(n, e) => c \in calls'
    BY <1>3 DEF Accept
  <2>2. \A n \in Nodes : Send(n) => c \in calls'
    BY DEF Send
  <2> QED
    BY <2>1, <2>2 DEF Next, vars, DoTask, TrackReceivedData, StartTask, Answered, Finish, Count,
                      AddPayload, GetMessagingData
<1> QED
  BY <1>2, <1>4

\* Distances are numbers, and hops cost numbers.
LEMMA DistanceType ==
  ASSUME conf \in Settings, Routed, NEW d \in Nodes
  PROVE  /\ G!Distances(Nodes, d) \in [Nodes -> Nat]
         /\ \A n \in Nodes \ {d} :
              LET hop == conf.route[n][d]
              IN  /\ G!Adjacent(n, hop) /\ G!Cost(n, hop) \in Nat
                  /\ PositiveWeights => G!Cost(n, hop) > 0
                  /\ G!Distances(Nodes, d)[n] = G!Cost(n, hop) + G!Distances(Nodes, d)[hop]
<1>1. U!GraphOK
  <2>1. /\ conf.nodes \subseteq Node /\ IsFiniteSet(Node) /\ None \notin Node
        /\ conf.edges \subseteq [source : conf.nodes, destination : conf.nodes, weight : 0..50]
        /\ \A e \in conf.edges : e.source # e.destination
        /\ \A e, f \in conf.edges :
             {e.source, e.destination} = {f.source, f.destination} => e = f
    BY TrafficAssumption DEF TrafficAssumption
  <2>2. IsFiniteSet(conf.nodes)
    BY <2>1, FS_Subset
  <2>3. None \notin conf.nodes
    BY <2>1
  <2>4. IsFiniteSet(conf.nodes) <=> U!IsFiniteSet(conf.nodes)
    BY DEF IsFiniteSet, U!IsFiniteSet
  <2> QED
    BY <2>1, <2>2, <2>3, <2>4 DEF U!GraphOK, U!Ends, Nodes
<1>2. G!Distances(Nodes, d) = U!Distances(Nodes, d)
  BY DEF G!Distances, U!Distances, G!Far, U!Far, G!Cardinality, U!Cardinality, G!Round, U!Round,
         G!Min, U!Min, G!EdgesOf, U!EdgesOf, G!Ends, U!Ends, G!Target, U!Target
<1>3. PICK r : U!IsRounds(r, d) /\ U!Distances(Nodes, d) = r[U!Size]
  BY <1>1, U!RoundsExist
<1>4. U!Size \in Nat
  BY <1>1, U!SizeType
<1>5. G!Distances(Nodes, d) \in [Nodes -> Nat]
  BY <1>2, <1>3, <1>4 DEF U!IsRounds
<1>6. ASSUME NEW n \in Nodes, NEW m \in Nodes, G!Adjacent(n, m)
      PROVE  G!Cost(n, m) \in Nat /\ (PositiveWeights => G!Cost(n, m) > 0)
  <2>1. PICK e \in conf.edges : e = CHOOSE f \in conf.edges : G!Ends(f) = {n, m}
    BY <1>6 DEF G!Adjacent
  <2>2. G!Cost(n, m) = e.weight
    BY <2>1 DEF G!Cost
  <2>3. e.weight \in 0..50
    BY TrafficAssumption DEF TrafficAssumption
  <2> QED
    BY <2>2, <2>3 DEF PositiveWeights
<1>7. \A n \in Nodes : conf.route[n][d] \in Nodes
  BY ConfType
<1> QED
  BY <1>5, <1>6, <1>7 DEF Routed

\* A sequence of numbers that never grows is smallest at its end.
LEMMA NoGrowth ==
  ASSUME NEW K \in Nat, NEW f \in [1..K -> Nat],
         \A k \in 1..K - 1 : f[k + 1] <= f[k]
  PROVE  \A i, j \in 1..K : i <= j => f[j] <= f[i]
<1> SUFFICES ASSUME NEW i \in 1..K PROVE \A j \in 1..K : i <= j => f[j] <= f[i]
  OBVIOUS
<1> DEFINE T == {m \in 0..K - i : f[i + m] <= f[i]}
<1>1. K - i \in Nat /\ 0 \in T
  OBVIOUS
<1>2. ASSUME NEW m \in 0..(K - i) - 1, m \in T
      PROVE  m + 1 \in T
  <2>1. i + m \in 1..K - 1 /\ (i + m) + 1 = i + (m + 1) /\ m + 1 \in 0..K - i
        /\ i + m \in 1..K /\ (i + m) + 1 \in 1..K
    OBVIOUS
  <2>2. f[(i + m) + 1] <= f[i + m] /\ f[i + m] <= f[i]
    BY <1>2, <2>1
  <2>3. f[i + m] \in Nat /\ f[i] \in Nat /\ f[(i + m) + 1] \in Nat
    BY <2>1
  <2> QED
    BY <2>1, <2>2, <2>3
<1>3. \A m \in 0..K - i : m \in T
  <2> HIDE DEF T
  <2> QED
    BY <1>1, <1>2, UpTo
<1>4. \A j \in 1..K : i <= j => j - i \in 0..K - i /\ i + (j - i) = j
  OBVIOUS
<1> QED
  BY <1>3, <1>4

\* Between two visits of a node a message goes over edges of weight 0.
LEMMA CircleIsFlat ==
  ASSUME IInv, WayInv, Routed, NEW c \in calls,
         NEW i \in 1..Len(Trail(c)), NEW j \in 1..Len(Trail(c)), i < j, Trail(c)[i] = Trail(c)[j],
         NEW k \in i..(j - 1)
  PROVE  /\ G!Cost(Trail(c)[k], Trail(c)[k + 1]) = 0
         /\ PositiveWeights => G!Cost(Trail(c)[k], Trail(c)[k + 1]) > 0
<1> PICK L, at, d, far : /\ L = Len(c.path) /\ at = Trail(c) /\ d = c.msg.destination
                         /\ far = G!Distances(Nodes, d)
  OBVIOUS
<1>0. /\ c.path \in Seq(Node) /\ c.at \in Nodes /\ OnRoute(c) /\ conf \in Settings
      /\ d \in Nodes
  <2>1. c.msg \in Known
    BY DEF Known, UnderWay
  <2> QED
    BY <2>1 DEF IInv, TypeOK, CallsInv, WayInv, KnownInv
<1>1. /\ L \in Nat \ {0} /\ Len(at) = L + 1
      /\ \A m \in 1..L : at[m] # d /\ conf.route[at[m]][d] = at[m + 1]
      /\ \A m \in 1..(L + 1) : at[m] \in Nodes
  BY <1>0, TrailIs
<1> PICK cost : cost = [m \in 1..L |-> G!Cost(at[m], at[m + 1])]
  OBVIOUS
<1>2. /\ far \in [Nodes -> Nat]
      /\ \A m \in 1..L : /\ cost[m] \in Nat /\ far[at[m]] = cost[m] + far[at[m + 1]]
                         /\ PositiveWeights => cost[m] > 0
  <2>1. far \in [Nodes -> Nat]
    BY <1>0, DistanceType
  <2>2. ASSUME NEW m \in 1..L
        PROVE  /\ cost[m] \in Nat /\ far[at[m]] = cost[m] + far[at[m + 1]]
               /\ PositiveWeights => cost[m] > 0
    <3>1. at[m] \in Nodes \ {d} /\ conf.route[at[m]][d] = at[m + 1]
      BY <1>1
    <3>2. cost[m] = G!Cost(at[m], at[m + 1])
      OBVIOUS
    <3> QED
      BY <1>0, <3>1, <3>2, DistanceType
  <2> QED
    BY <2>1, <2>2
<1> PICK f : f = [m \in 1..(L + 1) |-> far[at[m]]]
  OBVIOUS
<1>3. /\ f \in [1..(L + 1) -> Nat]
      /\ \A m \in 1..L : cost[m] \in Nat /\ f[m] = cost[m] + f[m + 1]
  <2>1. \A m \in 1..L : m \in 1..(L + 1) /\ m + 1 \in 1..(L + 1)
    BY <1>1
  <2> QED
    BY <1>1, <1>2, <2>1
<1>4. \A a, b \in 1..(L + 1) : a <= b => f[b] <= f[a]
  <2> PICK K : K = L + 1
    OBVIOUS
  <2>1. K \in Nat /\ f \in [1..K -> Nat] /\ K - 1 = L
    BY <1>1, <1>3
  <2>2. \A m \in 1..K - 1 : f[m + 1] <= f[m]
    <3> SUFFICES ASSUME NEW m \in 1..K - 1 PROVE f[m + 1] <= f[m]
      OBVIOUS
    <3>1. m \in 1..L /\ m + 1 \in 1..K /\ m \in 1..K
      BY <2>1
    <3>2. f[m] \in Nat /\ f[m + 1] \in Nat /\ cost[m] \in Nat /\ f[m] = cost[m] + f[m + 1]
      BY <1>3, <2>1, <3>1
    <3> QED
      BY <3>2
  <2> QED
    BY <2>1, <2>2, NoGrowth
<1>5. /\ i \in 1..(L + 1) /\ j \in 1..(L + 1) /\ k \in 1..L /\ k \in 1..(L + 1)
      /\ k + 1 \in 1..(L + 1) /\ i <= k /\ k + 1 <= j /\ at[i] = at[j]
  BY <1>1
<1>6. f[i] = f[j] /\ f[k] <= f[i] /\ f[j] <= f[k + 1]
  BY <1>4, <1>5
<1>7. f[i] \in Nat /\ f[j] \in Nat /\ f[k] \in Nat /\ f[k + 1] \in Nat
  BY <1>3, <1>5
<1>8. cost[k] = 0
  <2>1. cost[k] \in Nat /\ f[k] = cost[k] + f[k + 1]
    BY <1>3, <1>5
  <2>2. PICK x, y, z, w, v : x = f[i] /\ y = f[j] /\ z = f[k] /\ w = f[k + 1] /\ v = cost[k]
    OBVIOUS
  <2>3. /\ x = y /\ z <= x /\ y <= w /\ z = v + w
        /\ x \in Nat /\ y \in Nat /\ z \in Nat /\ w \in Nat /\ v \in Nat
    BY <1>6, <1>7, <2>1, <2>2
  <2>4. v = 0
    BY <2>3
  <2> QED
    BY <2>2, <2>4
<1> QED
  BY <1>2, <1>5, <1>8

\* A message that comes back to a node has gone over edges of weight 0 only since
\* it was there, whatever paths the nodes have, how they break ties, and how the
\* task goes (messenger.go:280, :289).
THEOREM CirclesAreFlat == Spec => []ReturnsWeighNothing
<1>1. IInv /\ WayInv /\ Routed => ReturnsWeighNothing
  BY CircleIsFlat DEF ReturnsWeighNothing
<1> QED
  BY <1>1, Inductive, OnTheWay, PTL

\* Where every edge weighs something, no message visits a node twice.
THEOREM NeverCircles == Spec => [](PositiveWeights => NeverRevisits)
<1>1. IInv /\ WayInv /\ Routed => (PositiveWeights => NeverRevisits)
  <2> SUFFICES ASSUME IInv, WayInv, Routed, PositiveWeights, NEW c \in calls, Returns(c)
               PROVE  FALSE
    BY DEF NeverRevisits
  <2> PICK at : at = Trail(c)
    OBVIOUS
  <2>1. PICK i, j \in 1..Len(at) : i < j /\ at[i] = at[j]
    BY DEF Returns
  <2>2. i \in i..(j - 1)
    BY <2>1
  <2> PICK weight : weight = G!Cost(at[i], at[i + 1])
    OBVIOUS
  <2>3. weight = 0 /\ weight > 0
    BY <2>1, <2>2, CircleIsFlat
  <2> QED
    BY <2>3
<1> QED
  BY <1>1, Inductive, OnTheWay, PTL

-----------------------------------------------------------------------------
(* The totals *)

\* The nodes that have relayed the message of a call.
Way(c) == {c.path[i] : i \in 2..Len(c.path)}

\* A message has been relayed by those its call shows, and once it has arrived by
\* all those its route shows.
HasRelayed(n, m) ==
  \/ \E c \in calls : c.msg = m /\ n \in Way(c)
  \/ n \in Relays(m.origin, m.destination) /\ \A c \in calls : c.msg # m

RelayedBy(n) == {m \in Known : HasRelayed(n, m)}
RelayInHand(n) == IF counting[n] # None /\ counting[n].type = "RELAYED" THEN 1 ELSE 0

\* Unless a call fails or a message circles, each message is with its sender or counted by it, and
\* has been counted by those that have relayed it.
CountInv ==
  NoneFailed /\ NeverRevisits =>
    /\ lost = {}
    /\ \A m \in Known : m = current[m.origin] \/ m \in payloadSent[m.origin]
    /\ \A n \in Node : /\ IsFiniteSet(RelayedBy(n))
                       /\ Cardinality(RelayedBy(n)) = messagesRelayed[n] + RelayInHand(n)

Distinct(path) == \A i, j \in 1..Len(path) : path[i] = path[j] => i = j

\* A message that arrives has been relayed by the nodes on its route.
LEMMA Arrives ==
  ASSUME NEW c, c.path \in Seq(Node), Distinct(c.path), OnRoute(c), c.at = c.msg.destination
  PROVE  Relays(c.msg.origin, c.msg.destination) = Way(c)
<1> PICK N, L, o, d, path : /\ N = Cardinality(Node) /\ L = Len(c.path) /\ path = c.path
                            /\ o = c.msg.origin /\ d = c.msg.destination
  OBVIOUS
<1>1. /\ path \in Seq(Node) /\ L = Len(path) /\ L \in Nat \ {0} /\ path[1] = o
      /\ \A i \in 1..L : path[i] \in Node /\ path[i] # d
      /\ \A i \in 1..L : conf.route[path[i]][d] = IF i = L THEN d ELSE path[i + 1]
  BY DEF OnRoute
<1>2. N \in Nat /\ L <= N
  <2>1. IsFiniteSet(Node) /\ N \in Nat
    BY FS_CardinalityType, TrafficAssumption DEF TrafficAssumption
  <2> DEFINE f == [i \in 1..L |-> path[i]]
  <2>2. f \in Injection(1..L, Node)
    <3>1. f \in [1..L -> Node]
      BY <1>1
    <3>2. \A i, j \in 1..L : f[i] = f[j] => i = j
      BY <1>1 DEF Distinct
    <3> QED
      BY <3>1, <3>2, Zenon DEF Injection, IsInjective
  <2>3. Cardinality(1..L) <= N
    <3> HIDE DEF f
    <3> QED
      BY <2>1, <2>2, FS_Injection
  <2>4. Cardinality(1..L) = L
    BY <1>1, FS_Interval
  <2> QED
    BY <2>1, <2>3, <2>4
<1> DEFINE hop == CHOOSE h :
             h = [k \in 0..N |-> IF k = 0 THEN o
                                 ELSE IF h[k - 1] = d THEN d ELSE conf.route[h[k - 1]][d]]
           F == [k \in 0..N |-> IF k < L THEN path[k + 1] ELSE d]
<1>3. Relays(o, d) = {hop[k] : k \in 1..N} \ {d}
  BY DEF Relays
<1>4. ASSUME NEW k \in 1..N
      PROVE  F[k] = IF F[k - 1] = d THEN d ELSE conf.route[F[k - 1]][d]
  <2>1. k - 1 \in 0..N /\ k \in 0..N /\ (k - 1) + 1 = k
    BY <1>2
  <2>2. F[k - 1] = (IF k - 1 < L THEN path[k] ELSE d) /\ F[k] = (IF k < L THEN path[k + 1] ELSE d)
    BY <2>1
  <2>3. CASE k - 1 < L
    <3>1. k \in 1..L /\ (k < L <=> k # L)
      BY <1>1, <2>3
    <3> QED
      BY <1>1, <2>2, <2>3, <3>1
  <2>4. CASE ~(k - 1 < L)
    <3>1. ~(k < L)
      BY <1>1, <2>4
    <3> QED
      BY <2>2, <2>4, <3>1
  <2> QED
    BY <2>3, <2>4
<1>5. F = [k \in 0..N |-> IF k = 0 THEN o
                          ELSE IF F[k - 1] = d THEN d ELSE conf.route[F[k - 1]][d]]
  <2>1. F[0] = o
    BY <1>1, <1>2
  <2>2. \A k \in 0..N : k = 0 \/ k \in 1..N
    BY <1>2
  <2> HIDE DEF F
  <2>3. \A k \in 0..N : F[k] = IF k = 0 THEN o
                               ELSE IF F[k - 1] = d THEN d ELSE conf.route[F[k - 1]][d]
    BY <1>4, <2>1, <2>2
  <2> QED
    BY <2>3 DEF F
<1>6. hop = [k \in 0..N |-> IF k = 0 THEN o
                            ELSE IF hop[k - 1] = d THEN d ELSE conf.route[hop[k - 1]][d]]
  <2> HIDE DEF F
  <2> QED
    BY <1>5
<1> HIDE DEF hop
<1>7. \A k \in 0..N : hop[k] = F[k]
  <2> DEFINE T == {k \in 0..N : hop[k] = F[k]}
  <2>1. 0 \in T
    BY <1>1, <1>2, <1>6
  <2>2. ASSUME NEW k \in 0..N - 1, k \in T
        PROVE  k + 1 \in T
    <3>1. k + 1 \in 1..N /\ (k + 1) - 1 = k /\ k + 1 \in 0..N /\ k + 1 # 0
      BY <1>2
    <3> HIDE DEF F
    <3>2. F[k + 1] = IF F[k] = d THEN d ELSE conf.route[F[k]][d]
      BY <1>4, <3>1
    <3>3. hop[k + 1] = IF hop[k] = d THEN d ELSE conf.route[hop[k]][d]
      BY <1>6, <3>1
    <3> QED
      BY <2>2, <3>1, <3>2, <3>3
  <2> HIDE DEF T
  <2>3. \A k \in 0..N : k \in T
    BY <1>2, <2>1, <2>2, UpTo
  <2> QED
    BY <2>3 DEF T
<1>8. Way(c) = {path[i] : i \in 2..L}
  BY DEF Way
<1>9. ASSUME NEW x \in Relays(o, d)
      PROVE  x \in Way(c)
  <2>1. PICK k \in 1..N : x = F[k] /\ x # d
    BY <1>2, <1>3, <1>7
  <2>2. k < L /\ x = path[k + 1]
    BY <1>2, <2>1
  <2>3. k + 1 \in 2..L
    BY <1>1, <2>2
  <2> QED
    BY <1>8, <2>2, <2>3
<1>10. ASSUME NEW i \in 2..L
       PROVE  path[i] \in Relays(o, d)
  <2>1. i - 1 \in 1..N /\ i - 1 < L /\ (i - 1) + 1 = i /\ i \in 1..L /\ i - 1 \in 0..N
    BY <1>1, <1>2
  <2>2. hop[i - 1] = path[i]
    BY <1>7, <2>1
  <2> QED
    BY <1>1, <1>3, <2>1, <2>2
<1> QED
  BY <1>8, <1>9, <1>10

LEMMA SameRelays ==
  ASSUME UNCHANGED conf
  PROVE  \A o, d : Relays(o, d)' = Relays(o, d)
  BY DEF Relays

\* What a step does not touch of what has been relayed.
LEMMA SameRelayed ==
  ASSUME UNCHANGED <<conf, calls>>, Known' = Known
  PROVE  \A n : RelayedBy(n)' = RelayedBy(n)
<1>1. \A n, m : HasRelayed(n, m)' <=> HasRelayed(n, m)
  BY SameRelays DEF HasRelayed
<1> QED
  BY <1>1 DEF RelayedBy

\* The senders' part of CountInv.
WithSender == \A m \in Known : m = current[m.origin] \/ m \in payloadSent[m.origin]

LEMMA WithSenderStep ==
  ASSUME IInv, WithSender, [Next]_vars, ~Fault
  PROVE  WithSender'
<1>t. /\ Nodes \subseteq Node
      /\ payloadSent \in [Node -> SUBSET PathMessage]
      /\ current \in [Node -> PathMessage \cup {None}]
  BY ConfType DEF IInv, TypeOK
<1>k. Known \subseteq PathMessage /\ \A m \in Known : m.origin \in Node
  <2>1. Known \subseteq PathMessage
    BY DEF IInv, TypeOK, Known, UnderWay, InHand, Received, RecStats
  <2> QED
    BY <1>t, <2>1 DEF IInv, KnownInv
<1>1. ASSUME NEW n \in Nodes, Send(n)
      PROVE  WithSender'
  <2>1. /\ UNCHANGED payloadSent /\ current[n] = None
        /\ current' = [current EXCEPT ![n] = Made(n)]
    BY <1>1, MadeTyped DEF Send, IInv
  <2>2. \A m \in Known' : m \in Known \/ m = Made(n)
    BY <1>1, SendMoves DEF IInv, Known
  <2>3. Made(n).origin = n /\ n \in Node
    BY <1>t DEF Made
  <2>4. current'[n] = Made(n) /\ \A k \in Node \ {n} : current'[k] = current[k]
    BY <1>t, <2>1, <2>3
  <2>5. None \notin Known
    BY <1>k, NoneIsNoMessage
  <2> QED
    BY <1>k, <2>1, <2>2, <2>3, <2>4, <2>5 DEF WithSender
<1>2. ASSUME NEW n \in Nodes, Answered(n)
      PROVE  WithSender'
  <2>1. /\ payloadSent' = [payloadSent EXCEPT ![n] = payloadSent[n] \cup {current[n]}]
        /\ current' = [current EXCEPT ![n] = None]
        /\ UNCHANGED <<calls, counting, payloadReceived, lost>>
    BY <1>2 DEF Answered, NextOfBatch, countVars
  <2>2. Known' = Known
    BY <2>1, OthersMove DEF Known
  <2>3. n \in Node /\ payloadSent'[n] = payloadSent[n] \cup {current[n]}
        /\ \A k \in Node \ {n} : payloadSent'[k] = payloadSent[k] /\ current'[k] = current[k]
    BY <1>t, <2>1
  <2> QED
    BY <1>k, <2>2, <2>3 DEF WithSender
<1>3. CASE UNCHANGED <<current, payloadSent>> /\ ~\E n \in Nodes : Send(n)
  <2>1. Known' \subseteq Known
    BY <1>3, KnownGrows
  <2> QED
    BY <1>3, <2>1 DEF WithSender
<1>4. CASE \E n \in Nodes : Send(n) \/ Answered(n)
  BY <1>1, <1>2, <1>4
<1>5. CASE ~\E n \in Nodes : Send(n) \/ Answered(n)
  <2>1. UNCHANGED <<current, payloadSent>>
    BY <1>5 DEF Next, vars, sendVars, DoTask, TrackReceivedData, StartTask, Finish, Accept,
                Count, AddPayload, GetMessagingData
  <2> QED
    BY <1>3, <1>5, <2>1
<1> QED
  BY <1>4, <1>5

\* The relays' part of CountInv.
RelaysCounted ==
  \A n \in Node : /\ IsFiniteSet(RelayedBy(n))
                  /\ Cardinality(RelayedBy(n)) = messagesRelayed[n] + RelayInHand(n)

LEMMA SendRelays ==
  ASSUME IInv, RelaysCounted, NEW n \in Nodes, Send(n)
  PROVE  RelaysCounted'
<1> PICK c, m : c = FirstCall(Made(n)) /\ m = Made(n)
  OBVIOUS
<1>1. calls' = calls \cup {c} /\ c.msg = m /\ c.path = <<n>>
  BY MadeTyped DEF IInv, FirstCall, Call, Made
<1>2. Known' = Known \cup {m} /\ m \notin Known
  BY SendMoves DEF IInv, Known
<1>3. UNCHANGED <<conf, counting, messagesRelayed>>
  BY DEF Send, countVars
<1>4. Way(c) = {} /\ \A e : Way(e)' = Way(e)
  BY <1>1 DEF Way
<1>5. \A e \in calls : e.msg \in Known
  BY DEF Known, UnderWay
<1>6. \A k : \A l \in Known : HasRelayed(k, l)' <=> HasRelayed(k, l)
  BY <1>1, <1>2, <1>3, <1>4, SameRelays DEF HasRelayed
<1>7. \A k : ~HasRelayed(k, m)'
  BY <1>1, <1>2, <1>4, <1>5 DEF HasRelayed
<1>8. \A k : RelayedBy(k)' = RelayedBy(k)
  BY <1>2, <1>6, <1>7 DEF RelayedBy
<1> QED
  BY <1>3, <1>8 DEF RelaysCounted, RelayInHand

LEMMA AcceptRelays ==
  ASSUME IInv, WayInv, NeverRevisits, RelaysCounted,
         NEW n \in Nodes, NEW c \in calls, Accept(n, c)
  PROVE  RelaysCounted'
<1> PICK m : m = c.msg
  OBVIOUS
<1>1. /\ n \in Node /\ c.at = n /\ c.path \in Seq(Node) /\ OnRoute(c)
      /\ counting \in [Node -> RecStats \cup {None}] /\ messagesRelayed \in [Node -> Nat]
      /\ counting[n] = None /\ counting' = [counting EXCEPT ![n] = Statistic(n, m)]
      /\ messagesRelayed' = messagesRelayed
  BY ConfType DEF Accept, IInv, TypeOK, WayInv
<1>2. Known' = Known /\ m \in Known
  BY AcceptMoves DEF IInv, Known, UnderWay
<1>3. \A e \in calls : e.msg = m => e = c
  BY DEF IInv, CallsInv
<1>4. \A e : Way(e)' = Way(e)
  BY DEF Way
<1>5. \A k : HasRelayed(k, m) <=> k \in Way(c)
  BY <1>3 DEF HasRelayed
<1>6. \A k \in Node \ {n} : RelayInHand(k)' = RelayInHand(k)
  BY <1>1 DEF RelayInHand
<1>7. Statistic(n, m).type = (IF m.destination = n THEN "RECEIVED" ELSE "RELAYED")
      /\ Statistic(n, m) # None
  <2>1. m \in PathMessage
    BY DEF IInv, TypeOK
  <2>2. Statistic(n, m) \in RecStats
    BY <2>1 DEF Statistic, RecStats
  <2> QED
    BY <2>2, NoneIsNoMessage DEF Statistic
<1>8. RelayInHand(n) = 0 /\ RelayInHand(n)' = IF m.destination = n THEN 0 ELSE 1
  BY <1>1, <1>7 DEF RelayInHand
<1>r. \A o, d : Relays(o, d)' = Relays(o, d)
  BY SameRelays DEF Accept
<1>s. /\ \A i, j \in 1..Len(c.path) : c.path[i] = c.path[j] => i = j
      /\ \A i \in 1..Len(c.path) : c.path[i] # n
  <2> PICK L, at : L = Len(c.path) /\ at = Trail(c)
    OBVIOUS
  <2>1. /\ L \in Nat /\ Len(at) = L + 1 /\ at[L + 1] = n
        /\ \A i \in 1..L : at[i] = c.path[i]
    BY <1>1, TrailIs DEF IInv, CallsInv
  <2>2. \A i, j \in 1..(L + 1) : i < j => at[i] # at[j]
    BY <2>1 DEF NeverRevisits, Returns
  <2>3. \A i \in 1..L : i \in 1..(L + 1) /\ L + 1 \in 1..(L + 1) /\ i < L + 1
    BY <2>1
  <2>4. \A i, j \in 1..L : i = j \/ i < j \/ j < i
    BY <2>1
  <2> QED
    BY <2>1, <2>2, <2>3, <2>4
<1>9. CASE m.destination = n
  <2>1. calls' = calls \ {c}
    BY <1>9 DEF Accept
  <2>2. Relays(m.origin, m.destination) = Way(c)
    <3>1. Distinct(c.path)
      BY <1>s DEF Distinct
    <3> QED
      BY <1>1, <1>9, <3>1, Arrives
  <2>3. \A k : HasRelayed(k, m)' <=> k \in Way(c)
    BY <1>3, <1>r, <2>1, <2>2 DEF HasRelayed
  <2>4. \A k : \A l \in Known \ {m} : HasRelayed(k, l)' <=> HasRelayed(k, l)
    BY <1>4, <1>r, <2>1 DEF HasRelayed
  <2>5. \A k : RelayedBy(k)' = RelayedBy(k)
    BY <1>2, <1>5, <2>3, <2>4 DEF RelayedBy
  <2> QED
    BY <1>1, <1>6, <1>8, <1>9, <2>5 DEF RelaysCounted
<1>10. CASE m.destination # n
  <2> PICK next : next = Call(m, NextNode(n, m), Append(c.path, n))
    OBVIOUS
  <2>1. calls' = (calls \ {c}) \cup {next} /\ next.msg = m
    BY <1>10 DEF Accept, Forward, Call
  <2>2. Way(next) = Way(c) \cup {n}
    <3> PICK L : L = Len(c.path)
      OBVIOUS
    <3>1. /\ L \in Nat \ {0} /\ Len(next.path) = L + 1 /\ next.path[L + 1] = n
          /\ \A i \in 1..L : next.path[i] = c.path[i]
      BY <1>1 DEF Call, OnRoute
    <3>2. 2..(L + 1) = 2..L \cup {L + 1} /\ \A i \in 2..L : i \in 1..L
      BY <3>1
    <3>3. Way(next) = {next.path[i] : i \in 2..(L + 1)} /\ Way(c) = {c.path[i] : i \in 2..L}
      BY <3>1 DEF Way
    <3>4. L + 1 \in 2..(L + 1)
      BY <3>1
    <3>5. ASSUME NEW x \in Way(next)
          PROVE  x \in Way(c) \cup {n}
      <4>1. PICK i \in 2..(L + 1) : x = next.path[i]
        BY <3>3
      <4>2. i \in 2..L \/ i = L + 1
        BY <3>2
      <4> QED
        BY <3>1, <3>2, <3>3, <4>1, <4>2
    <3>6. ASSUME NEW i \in 2..L
          PROVE  c.path[i] \in Way(next)
      <4>1. next.path[i] = c.path[i] /\ i \in 2..(L + 1)
        BY <3>1, <3>2
      <4> QED
        BY <3>3, <4>1
    <3>7. n \in Way(next)
      BY <3>1, <3>3, <3>4
    <3>8. Way(c) \subseteq Way(next)
      BY <3>3, <3>6
    <3> QED
      BY <3>5, <3>7, <3>8
  <2>3. n \notin Way(c)
    <3>1. \A i \in 2..Len(c.path) : i \in 1..Len(c.path)
      BY <1>1
    <3> QED
      BY <1>s, <3>1 DEF Way
  <2>4. \A k : HasRelayed(k, m)' <=> k \in Way(c) \cup {n}
    BY <1>3, <1>4, <1>r, <2>1, <2>2 DEF HasRelayed
  <2>5. \A k : \A l \in Known \ {m} : HasRelayed(k, l)' <=> HasRelayed(k, l)
    BY <1>4, <1>r, <2>1 DEF HasRelayed
  <2>6. \A k \in Node \ {n} : RelayedBy(k)' = RelayedBy(k)
    BY <1>2, <1>5, <2>4, <2>5 DEF RelayedBy
  <2>7. RelayedBy(n)' = RelayedBy(n) \cup {m} /\ m \notin RelayedBy(n)
    BY <1>2, <1>5, <2>3, <2>4, <2>5 DEF RelayedBy
  <2>8. /\ IsFiniteSet(RelayedBy(n)')
        /\ Cardinality(RelayedBy(n)') = messagesRelayed[n] + 1
    <3> PICK R, S : R = RelayedBy(n) /\ S = RelayedBy(n)'
      OBVIOUS
    <3>1. IsFiniteSet(R) /\ Cardinality(R) = messagesRelayed[n] /\ messagesRelayed[n] \in Nat
      BY <1>1, <1>8 DEF RelaysCounted
    <3>2. S = R \cup {m} /\ m \notin R
      BY <2>7
    <3>3. /\ IsFiniteSet(R \cup {m})
          /\ Cardinality(R \cup {m}) = IF m \in R THEN Cardinality(R) ELSE Cardinality(R) + 1
      BY <3>1, FS_AddElement
    <3>4. IsFiniteSet(S) /\ Cardinality(S) = messagesRelayed[n] + 1
      BY <3>1, <3>2, <3>3
    <3> QED
      BY <3>4
  <2> QED
    BY <1>1, <1>6, <1>8, <1>10, <2>6, <2>8 DEF RelaysCounted
<1> QED
  BY <1>9, <1>10

LEMMA CountRelays ==
  ASSUME IInv, RelaysCounted, NEW n \in Nodes, Count(n)
  PROVE  RelaysCounted'
<1>1. /\ n \in Node /\ counting \in [Node -> RecStats \cup {None}] /\ counting[n] # None
      /\ messagesRelayed \in [Node -> Nat]
  BY ConfType DEF IInv, TypeOK, Count
<1>2. Known' = Known /\ UNCHANGED <<conf, calls>>
  BY CountMoves DEF IInv, Known, Count
<1>3. \A k : RelayedBy(k)' = RelayedBy(k)
  BY <1>2, SameRelayed
<1>4. \A k \in Node \ {n} : counting'[k] = counting[k] /\ messagesRelayed'[k] = messagesRelayed[k]
  BY <1>1 DEF Count
<1>5. messagesRelayed'[n] + RelayInHand(n)' = messagesRelayed[n] + RelayInHand(n)
  <2>1. CASE counting[n].type = "RECEIVED"
    <3>1. /\ counting'[n].type = "PAYLOAD"
          /\ messagesRelayed'[n] = messagesRelayed[n]
      BY <1>1, <2>1 DEF Count
    <3> QED
      BY <2>1, <3>1 DEF RelayInHand
  <2>2. CASE counting[n].type = "RELAYED"
    <3>1. counting'[n] = None /\ messagesRelayed'[n] = messagesRelayed[n] + 1
      BY <1>1, <2>2 DEF Count
    <3> QED
      BY <1>1, <2>2, <3>1 DEF RelayInHand
  <2> QED
    BY <2>1, <2>2 DEF Count
<1> QED
  BY <1>3, <1>4, <1>5 DEF RelaysCounted, RelayInHand

LEMMA AddPayloadRelays ==
  ASSUME IInv, RelaysCounted, NEW n \in Nodes, AddPayload(n)
  PROVE  RelaysCounted'
<1>1. /\ n \in Node /\ counting \in [Node -> RecStats \cup {None}]
      /\ counting[n].type = "PAYLOAD" /\ counting' = [counting EXCEPT ![n] = None]
      /\ UNCHANGED <<conf, calls, messagesRelayed>>
  BY ConfType DEF IInv, TypeOK, AddPayload
<1>2. Known' = Known
  BY AddPayloadMoves DEF IInv, Known, UnderWay
<1>3. \A k : RelayedBy(k)' = RelayedBy(k)
  BY <1>1, <1>2, SameRelayed
<1>4. \A k \in Node : RelayInHand(k)' = RelayInHand(k)
  BY <1>1 DEF RelayInHand
<1> QED
  BY <1>1, <1>3, <1>4 DEF RelaysCounted

LEMMA RelaysStep ==
  ASSUME IInv, WayInv, NeverRevisits, RelaysCounted, [Next]_vars, ~Fault
  PROVE  RelaysCounted'
<1>1. CASE UNCHANGED <<calls, countVars, lost>>
  <2>1. UNCHANGED <<conf, calls, counting, messagesRelayed, payloadReceived, lost>>
    BY <1>1, ConfStays DEF countVars
  <2>2. Known' = Known
    BY <2>1, OthersMove DEF Known
  <2>3. \A k : RelayedBy(k)' = RelayedBy(k)
    BY <2>1, <2>2, SameRelayed
  <2> QED
    BY <2>1, <2>3 DEF RelaysCounted, RelayInHand
<1> QED
  BY <1>1, SendRelays, AcceptRelays, CountRelays, AddPayloadRelays
  DEF Next, vars, DoTask, TrackReceivedData, StartTask, Answered, Finish, GetMessagingData

LEMMA CountInvStep ==
  ASSUME IInv, WayInv, CountInv, [Next]_vars
  PROVE  CountInv'
<1>1. NoneFailed' => NoneFailed /\ ~Fault /\ lost' = lost
  <2>1. failedSends \in Nat /\ failedRelays \in Nat
    BY ConfType DEF IInv, TypeOK
  <2>2. Fault => failedSends' = failedSends + 1 \/ failedRelays' = failedRelays + 1
    BY DEF Fault, SendFails, RelayFails
  <2>3. Fault => ~NoneFailed'
    BY <2>1, <2>2 DEF NoneFailed
  <2>4. ~Fault => UNCHANGED <<lost, failedSends, failedRelays>>
    BY DEF Next, vars, faults, DoTask, TrackReceivedData, StartTask, Send, Answered, Finish,
           Accept, Count, AddPayload, GetMessagingData
  <2> QED
    BY <2>3, <2>4 DEF NoneFailed
<1>2. SUFFICES ASSUME NoneFailed', NeverRevisits'
               PROVE  lost' = {} /\ WithSender' /\ RelaysCounted'
  BY DEF CountInv, WithSender, RelaysCounted
<1>3. NeverRevisits
  BY <1>1, <1>2, ReturnsStay
<1>4. lost = {} /\ WithSender /\ RelaysCounted
  BY <1>1, <1>2, <1>3 DEF CountInv, WithSender, RelaysCounted
<1> QED
  BY <1>1, <1>2, <1>3, <1>4, WithSenderStep, RelaysStep

LEMMA CountInvInit == Init => CountInv
<1> SUFFICES ASSUME Init PROVE CountInv
  OBVIOUS
<1>1. calls = {} /\ lost = {} /\ InHand = {} /\ Received = {}
  BY DEF Init, InHand, Received
<1>2. Known = {}
  BY <1>1 DEF Known, UnderWay
<1>3. \A n \in Node : RelayedBy(n) = {} /\ messagesRelayed[n] + RelayInHand(n) = 0
  BY <1>2 DEF RelayedBy, Init, RelayInHand
<1>4. IsFiniteSet({}) /\ Cardinality({}) = 0
  BY FS_EmptySet
<1> QED
  BY <1>1, <1>2, <1>3, <1>4 DEF CountInv

LEMMA AtRest ==
  ASSUME IInv, CountInv, Settled, NoneFailed
  PROVE  /\ Sent = Received
         /\ \A n \in Nodes : messagesRelayed[n] =
              Cardinality({m \in Sent : n \in Relays(m.origin, m.destination)})
<1>1. calls = {} /\ lost = {} /\ Nodes \subseteq Node
  BY ConfType DEF Settled, CountInv, NeverRevisits, IInv, TypeOK
<1>2. InHand = {}
  <2> SUFFICES ASSUME NEW k \in Node, InHandAt(k) PROVE FALSE
    BY DEF InHand, InHandAt
  <2>1. counting[k].msg \in Known /\ counting[k].msg.destination = k
    BY DEF Known, UnderWay, InHand, InHandAt, IInv, ReceiverInv
  <2>2. k \in Nodes
    BY <2>1 DEF IInv, KnownInv
  <2> QED
    BY <2>2 DEF Settled, InHandAt
<1>3. Known = Received
  BY <1>1, <1>2 DEF Known, UnderWay
<1>4. \A n \in Nodes : current[n] = None
  <2> SUFFICES ASSUME NEW n \in Nodes, current[n] # None PROVE FALSE
    OBVIOUS
  <2>1. left[n] > 0 /\ task[n] = "sending"
    BY <1>1 DEF IInv, BatchInv
  <2> QED
    BY <2>1 DEF Settled, Ended
<1>5. \A m \in Known : m \in Sent
  <2> SUFFICES ASSUME NEW m \in Known PROVE m \in Sent
    OBVIOUS
  <2>1. m \in PathMessage
    BY DEF IInv, TypeOK, Known, UnderWay, InHand, Received, RecStats
  <2>2. m.origin \in Nodes /\ m # None
    BY <2>1, NoneIsNoMessage DEF IInv, KnownInv
  <2>3. m \in payloadSent[m.origin]
    BY <1>1, <1>4, <2>2 DEF CountInv, NeverRevisits
  <2> QED
    BY <1>1, <2>2, <2>3 DEF Sent
<1>6. Sent = Received
  BY <1>3, <1>5 DEF Sent, IInv, SenderInv
<1>7. ASSUME NEW n \in Nodes
      PROVE  messagesRelayed[n] =
               Cardinality({m \in Sent : n \in Relays(m.origin, m.destination)})
  <2>1. RelayInHand(n) = 0 /\ messagesRelayed[n] \in Nat
    BY <1>1 DEF RelayInHand, Settled, IInv, TypeOK
  <2>2. RelayedBy(n) = {m \in Sent : n \in Relays(m.origin, m.destination)}
    BY <1>1, <1>3, <1>6 DEF RelayedBy, HasRelayed
  <2>3. Cardinality(RelayedBy(n)) = messagesRelayed[n] + RelayInHand(n)
    BY <1>1 DEF CountInv, NeverRevisits
  <2> QED
    BY <2>1, <2>2, <2>3
<1> QED
  BY <1>6, <1>7

\* If no call fails, then at rest what was sent was received, and every node has
\* relayed exactly what is routed through it, for every overlay and every task
\* (messenger.go:139-169, :291, :308-324).
THEOREM TotalsMatch == Spec => []TotalsMatchAtRest
<1>1. IInv /\ CountInv => TotalsMatchAtRest
  BY AtRest DEF TotalsMatchAtRest
<1>2. IInv /\ WayInv /\ CountInv /\ [Next]_vars => CountInv'
  BY CountInvStep
<1> QED
  BY <1>1, <1>2, CountInvInit, Inductive, OnTheWay, PTL DEF Spec
=============================================================================
