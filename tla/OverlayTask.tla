----------------------------- MODULE OverlayTask -----------------------------
(***************************************************************************)
(* One run of the system: the registration node of RegistrationServer and  *)
(* the processes of Messenger, composed.  An RPC is a joint step of the    *)
(* two where the callee handles the call; the caller sees the answer, or   *)
(* a deadline that passed first, in a later step of its own.  A call that  *)
(* has been made is handled even if its caller has given up meanwhile.     *)
(*                                                                         *)
(* A messenger registers its own address once, so Call = Node; s.dial is   *)
(* grpc.Dial with WithBlock and no timeout, so it never fails; no client   *)
(* calls ProcessMetadata.                                                  *)
(***************************************************************************)
EXTENDS Integers, FiniteSets

CONSTANTS
  Node,        \* the messengers the operators start
  MayExit,     \* the messengers whose operator may end them
  Peers,       \* settings.Peers
  Retries,     \* 3 in the code
  MaxFaults,   \* bound on deadlines that pass and requests that are lost
  None

VARIABLES
  mu, registeredNodes, nodeConnections, overlaySent, register, deregister,
  monitor, overlay, monitorLoop, pushed, held, received, idleNodes, finishedNodes,
  starter, startSent, collector, metadata, printed, up,
  main, paths, broken, view, conns, task, attempt, blocked,
  faults       \* deadlines passed and requests lost so far

S == INSTANCE RegistrationServer WITH
       Call <- Node, CallNode <- [n \in Node |-> n], DialCanFail <- FALSE, MayReport <- {}
M == INSTANCE Messenger

svars == <<mu, registeredNodes, nodeConnections, overlaySent, register, deregister,
           monitor, overlay, monitorLoop, pushed, held, received, idleNodes, finishedNodes,
           starter, startSent, collector, metadata, printed, up>>
mvars == <<main, paths, broken, view, conns, task, attempt, blocked>>
vars == <<svars, mvars, faults>>

ASSUME TaskAssumption == S!ServerAssumption /\ MaxFaults \in Nat

Init == S!Init /\ M!MessengerInit /\ faults = 0

TypeOK == S!TypeOK /\ M!MessengerTypeOK /\ faults \in 0..MaxFaults

-----------------------------------------------------------------------------
ServerStep(A) == up /\ A /\ UNCHANGED <<mvars, faults>>
MessengerStep(A) == up /\ A /\ UNCHANGED <<svars, faults>>
Fault(A) == up /\ faults < MaxFaults /\ faults' = faults + 1 /\ A

-----------------------------------------------------------------------------
(* Registration and deregistration *)

Join(n) == MessengerStep(M!Join(n))

\* A call that has been made is handled even after its client gave up.
HandleRegister(n) ==
  /\ main[n] # "off"
  /\ ServerStep(S!RegisterCheck(n) \/ S!RegisterStore(n))

\* The dial returns only while the messenger serves.
Connect(n) == M!Running(n) /\ ServerStep(S!RegisterConnect(n))

\* A first registration of an address is not refused.
RegisterAnswer(n) == register[n] = "ok" /\ MessengerStep(M!Registered(n))

RegisterTimesOut(n) ==
  Fault(M!RegistrationFails(n) /\ UNCHANGED svars)

Leave(n) == n \in MayExit /\ MessengerStep(M!Leave(n))
Quit(n) == n \in MayExit /\ MessengerStep(M!Quit(n))

HandleDeregister(n) ==
  main[n] \in {"leaving", "left"} /\ ServerStep(S!DeregisterNode(n))

Exit(n) == deregister[n] # "none" /\ MessengerStep(M!Exit(n))

\* An error of the call is ignored.
ExitFails(n) == Fault(M!Exit(n) /\ UNCHANGED svars)

-----------------------------------------------------------------------------
(* Building and pushing the overlay *)

\* The nodes on the overlay's edges; a single node has none.
OnEdges == IF Cardinality(overlay) > 1 THEN overlay ELSE {}

\* The one deadline of 15 s for all pushes has been spent on a handler that
\* never returns.
PushDeadlineSpent == \E m \in monitorLoop.seen : "PushPaths" \in blocked[m]

PushPaths(n) ==
  /\ up
  /\ S!PushPaths(n)
  /\ IF M!Running(n) /\ ~PushDeadlineSpent
     THEN M!PushPaths(n, OnEdges)
     ELSE UNCHANGED mvars
  /\ UNCHANGED faults

\* The stream breaks off after some of the edges or before the first.
PushBreaks(n) ==
  /\ ~PushDeadlineSpent
  /\ \E nodes \in SUBSET OnEdges :
       Cardinality(nodes) # 1 /\ Fault(S!PushPaths(n) /\ M!PushBreaks(n, nodes))

Dial(n, m) == MessengerStep(M!Dial(n, m))
ReportReady(n) == MessengerStep(M!ReportReady(n))

-----------------------------------------------------------------------------
(* Status calls *)

TakeStatus(h) == M!Reported(h) /\ ServerStep(S!TakeStatus(h))

ReadyCall(n) == [id |-> n, status |-> "READY", attempt |-> 0]
CompleteCall(n) == [id |-> n, status |-> "COMPLETE", attempt |-> attempt[n]]

ReadyAnswered(n) == ReadyCall(n) \in received /\ MessengerStep(M!ReadyAnswered(n))
ReadyTimesOut(n) == Fault(M!ReadyTimesOut(n) /\ UNCHANGED svars)

FinishAnswered(n) == CompleteCall(n) \in received /\ MessengerStep(M!FinishAnswered(n))
FinishTimesOut(n) == Fault(M!FinishTimesOut(n) /\ UNCHANGED svars)

-----------------------------------------------------------------------------
(* The task *)

\* StartTask arrives; it is answered unless its handler blocks or the process
\* ends, and the answer may come after the deadline of 100 ms.
StartArrives(s, n) ==
  /\ up
  /\ M!Running(n)
  /\ M!StartTask(n)
  /\ \/ task'[n] # task[n] /\ S!StartTask(s, n, TRUE) /\ UNCHANGED faults
     \/ task'[n] = task[n] /\ S!StartTask(s, n, FALSE) /\ UNCHANGED faults
     \/ task'[n] # task[n] /\ Fault(S!StartTask(s, n, FALSE))

\* The messenger is gone, or the request is lost.
StartMissed(s, n) ==
  /\ S!StartTask(s, n, FALSE)
  /\ \/ up /\ ~M!Running(n) /\ UNCHANGED <<mvars, faults>>
     \/ Fault(UNCHANGED mvars)

ReportFinished(n) == MessengerStep(M!ReportFinished(n))

StartOther(s) == ServerStep(S!StartRetry(s) \/ S!StartEnds(s))

-----------------------------------------------------------------------------
(* Collecting the results *)

Collect(k, n) ==
  \/ M!Running(n) /\ ServerStep(S!CollectMetadata(k, n, "data"))
  \/ ~M!Running(n) /\ ServerStep(S!CollectMetadata(k, n, "nil"))
  \/ Fault(S!CollectMetadata(k, n, "nil") /\ UNCHANGED mvars)

-----------------------------------------------------------------------------
Monitor ==
  \/ ServerStep((\E n \in Node : S!Announce(n) \/ S!ListNode(n)) \/ S!BuildOverlay
                  \/ S!PushEnds \/ S!ApplyReady \/ S!ApplyComplete)
  \/ \E n \in Node : PushPaths(n) \/ PushBreaks(n)
  \/ \E h \in S!StatusCall : TakeStatus(h)

Starting(s) ==
  (\E n \in Node : StartArrives(s, n) \/ StartMissed(s, n)) \/ StartOther(s)

Collecting(k) ==
  (\E n \in Node : Collect(k, n)) \/ ServerStep(S!CollectEnds(k))

\* What a messenger and the handler of its RegisterNode call do by themselves.
Progress(n) ==
  \/ Join(n) \/ HandleRegister(n) \/ Connect(n) \/ RegisterAnswer(n)
  \/ HandleDeregister(n) \/ Exit(n)
  \/ (\E m \in Node : Dial(n, m)) \/ ReportReady(n) \/ ReadyAnswered(n)
  \/ ReportFinished(n) \/ FinishAnswered(n)

Next ==
  \/ \E n \in Node : \/ Progress(n) \/ Leave(n) \/ Quit(n) \/ ExitFails(n)
                     \/ RegisterTimesOut(n) \/ ReadyTimesOut(n) \/ FinishTimesOut(n)
  \/ Monitor
  \/ \E s \in Node : Starting(s)
  \/ \E k \in S!CompleteCall : Collecting(k)
  \/ ServerStep(S!MapRaceCrash)

Spec == Init /\ [][Next]_vars

(* Every goroutine that can run is scheduled, in both processes, and the   *)
(* operators start their messengers.                                       *)
Fairness ==
  /\ \A n \in Node : WF_vars(Progress(n)) /\ SF_vars(HandleRegister(n))
  /\ WF_vars(Monitor)
  /\ \A s \in Node : WF_vars(Starting(s))
  /\ \A k \in S!CompleteCall : WF_vars(Collecting(k))

FairSpec == Spec /\ Fairness

-----------------------------------------------------------------------------
(* Properties *)

\* The stage of a node in the terms of the README's process flow.
Stage(n) ==
  IF task[n] \in {"reporting", "done"} THEN "finished"
  ELSE IF task[n] = "sending" THEN "working"
  ELSE IF paths[n] \in {"reporting", "done"} THEN "ready"
  ELSE "joining"

Run == INSTANCE TaskRun WITH stage <- [n \in Node |-> Stage(n)], reported <- printed

\* The run follows the README's process flow (messenger.go and
\* registrationnode.go together implement TaskRun).
FollowsFlow == Run!Spec

\* While a node sends, every messenger on its overlay that still runs can
\* route: no relay meets an empty nodePathDict or a missing connection.
Routable ==
  \A n \in Node : \A m \in view[n] :
    M!Running(n) /\ task[n] = "sending" /\ M!Running(m)
      => /\ paths[m] \in {"reporting", "done"}
         /\ view[m] = view[n]
         /\ view[m] \ {m} \subseteq conns[m]

\* No messenger sends before Peers of them have called NodeReady, whoever
\* registers, leaves or dies meanwhile.
SendsAfterReady ==
  \A n \in Node : task[n] # "waiting" =>
    Cardinality({m \in Node : paths[m] \in {"reporting", "done"}}) >= Peers

\* The totals a table shows for a node were fetched after it had sent all its
\* messages.
CollectsReported ==
  \A n \in Node : metadata[n] = "data" => task[n] \in {"reporting", "done"}

\* A table is printed only of a run every overlay node has finished.
PrintsFinishedRun ==
  printed => \A n \in overlay : task[n] \in {"reporting", "done"}

\* Without lost requests or passed deadlines the results are printed.
ResultsPrinted == <>(printed \/ ~up)

\* Nothing the registration node does by itself is left to do: every status
\* call made has been applied and no goroutine is in a loop.
Settled ==
  /\ monitor = "select" /\ held = None
  /\ \A h \in S!StatusCall : M!Reported(h) => h \in received
  /\ \A s \in Node : starter[s].pc # "range"
  /\ \A k \in S!CompleteCall : collector[k].pc # "range"

\* Once every node of the overlay has completed its task, the results are
\* printed: the count of registered nodes is met (registrationnode.go:260).
ResultsFollow ==
  overlay # {} /\ (\A n \in overlay : task[n] = "done") /\ Settled => printed \/ ~up

\* A start request that is lost once reaches the node by a retry.
RetryReaches ==
  \A n \in Node :
    (n \in startSent /\ task[n] = "waiting") ~> (task[n] # "waiting" \/ ~M!Running(n) \/ ~up)
=============================================================================
