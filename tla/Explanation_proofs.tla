------------------------- MODULE Explanation_proofs -------------------------
(***************************************************************************)
(* Theorems about Explanation, for any contents and any number of graphs   *)
(* published.                                                              *)
(***************************************************************************)
EXTENDS Explanation, SequenceTheorems, TLAPS

Reading == {"read", "answered", "current"}
Answered == {"answered", "current"}

WorkerType == [pc : {"idle", "taken", "checked"} \union Reading, asked : Contents \union {NoContent},
               read : Contents \union {NoContent}, grounding : {"none", "READY", "EVIDENCE_ONLY"}]

ExplanationTypes ==
    /\ fingerprint \in Contents
    /\ architecture \in [of : Contents, status : Status]
    /\ indexer \in {"idle", "published", "ready"}
    /\ queue \in Seq(Contents)
    /\ worker \in WorkerType
    /\ worker.pc \in Reading => worker.read \in Contents
    /\ worker.pc \in Answered => worker.grounding # "none"

(* Until the last graph is explained, its job is to be queued, the last    *)
(* one that is, or the one the worker has when no other follows; and the   *)
(* graph which that job read is the last.                                  *)
QueuedLast == queue # <<>> /\ queue[Len(queue)] = fingerprint

WorkedOnLast ==
    /\ queue = <<>> /\ worker.pc # "idle" /\ worker.asked = fingerprint
    /\ worker.pc \in Reading => worker.read = fingerprint

Explained == architecture.of = fingerprint /\ architecture.status # "QUEUED"

LastJobInv ==
    clean => indexer # "idle" \/ QueuedLast \/ WorkedOnLast \/ (Quiet /\ Explained)

-----------------------------------------------------------------------------
LEMMA IdleWorkerType == IdleWorker \in WorkerType /\ IdleWorker.pc = "idle"
  BY DEF IdleWorker, WorkerType, Reading

LEMMA ExplanationInit == Init => ExplanationTypes /\ LastJobInv
  BY IdleWorkerType
  DEF Init, ExplanationTypes, LastJobInv, Quiet, Explained, Status, Reading, Answered

LEMMA TypesNext == ExplanationTypes /\ [Next]_vars => ExplanationTypes'
  <1> SUFFICES ASSUME ExplanationTypes, [Next]_vars PROVE ExplanationTypes'
    OBVIOUS
  <1> USE DEF ExplanationTypes, Reading, Answered
  <1>1. CASE UNCHANGED vars
    BY <1>1 DEF vars
  <1>2. CASE PublishGraph
    <2>1. PICK content \in Contents : /\ fingerprint' = content
                                      /\ architecture' = [of |-> content, status |-> "QUEUED"]
      BY <1>2 DEF PublishGraph
    <2> QED  BY <1>2, <2>1 DEF PublishGraph, Status
  <1>3. CASE IndexStep
    <2>1. CASE StageReady
      BY <2>1 DEF StageReady
    <2>2. CASE Enqueue
      <3>1. queue' \in Seq(Contents)
        BY <2>2 DEF Enqueue, EnqueueJob
      <3> QED  BY <2>2, <3>1 DEF Enqueue
    <2>3. CASE EnqueueFails
      <3>1. architecture' \in [of : Contents, status : Status]
        BY <2>3 DEF EnqueueFails, Status
      <3> QED  BY <2>3, <3>1 DEF EnqueueFails
    <2> QED  BY <1>3, <2>1, <2>2, <2>3 DEF IndexStep
  <1>4. CASE Take
    <2>1. queue' \in Seq(Contents) /\ Head(queue) \in Contents
      BY <1>4, HeadTailProperties DEF Take
    <2>2. worker' \in WorkerType /\ worker'.pc = "taken"
      BY <1>4, <2>1 DEF Take, IdleWorker, WorkerType
    <2> QED  BY <1>4, <2>1, <2>2 DEF Take
  <1>5. CASE CheckBefore \/ CheckAfter
    <2>1. worker' \in WorkerType /\ \/ worker'.pc = "idle"
                                    \/ worker'.pc = "checked"
                                    \/ worker.pc = "answered" /\ worker'.read = worker.read
                                       /\ worker'.grounding = worker.grounding
      BY <1>5, IdleWorkerType DEF CheckBefore, CheckAfter, WorkerType
    <2> QED  BY <1>5, <2>1 DEF CheckBefore, CheckAfter
  <1>6. CASE ReadGraph \/ Ask
    <2>1. worker' \in WorkerType /\ \/ worker'.pc = "read" /\ worker'.read = fingerprint
                                    \/ worker.pc = "read" /\ worker'.read = worker.read
                                       /\ worker'.grounding # "none"
      BY <1>6 DEF ReadGraph, Ask, WorkerType
    <2> QED  BY <1>6, <2>1 DEF ReadGraph, Ask
  <1>7. CASE StoreExplanation
    <2>1. architecture' \in [of : Contents, status : Status]
      BY <1>7 DEF StoreExplanation, WorkerType, Status
    <2> QED  BY <1>7, <2>1, IdleWorkerType DEF StoreExplanation
  <1>8. CASE JobFails
    BY <1>8, IdleWorkerType DEF JobFails
  <1> QED  BY <1>1, <1>2, <1>3, <1>4, <1>5, <1>6, <1>7, <1>8 DEF Next, WorkerStep

LEMMA LastJobNext == ExplanationTypes /\ LastJobInv /\ [Next]_vars => LastJobInv'
  <1> SUFFICES ASSUME ExplanationTypes, LastJobInv, [Next]_vars, clean', indexer' = "idle"
               PROVE  QueuedLast' \/ WorkedOnLast' \/ (Quiet' /\ Explained')
    BY DEF LastJobInv
  <1>1. CASE UNCHANGED vars
    BY <1>1 DEF vars, LastJobInv, QueuedLast, WorkedOnLast, Quiet, Explained
  <1>2. CASE PublishGraph \/ StageReady \/ EnqueueFails \/ JobFails
    BY <1>2 DEF PublishGraph, StageReady, EnqueueFails, JobFails
  <1>3. CASE Enqueue
    <2>1. queue' = Append(queue, fingerprint) /\ fingerprint' = fingerprint
      BY <1>3 DEF Enqueue, EnqueueJob
    <2>2. queue' # <<>> /\ queue'[Len(queue')] = fingerprint
      BY <2>1 DEF ExplanationTypes
    <2> QED  BY <2>1, <2>2 DEF QueuedLast
  <1>4. CASE WorkerStep
    <2>0. UNCHANGED <<fingerprint, indexer, clean>>
      BY <1>4 DEF WorkerStep, Take, CheckBefore, ReadGraph, Ask, CheckAfter, StoreExplanation
    <2>1. QueuedLast \/ WorkedOnLast \/ (Quiet /\ Explained)
      BY <2>0 DEF LastJobInv
    <2>2. CASE Take
      <3>1. QueuedLast
        BY <2>1, <2>2 DEF Take, WorkedOnLast, Quiet
      <3>2. /\ queue' = Tail(queue) /\ worker'.pc = "taken" /\ worker'.asked = Head(queue)
            /\ queue \in Seq(Contents)
        BY <2>2 DEF Take, IdleWorker, ExplanationTypes
      <3>3. CASE Len(queue) = 1
        <4>1. queue' = <<>> /\ Head(queue) = fingerprint
          BY <3>1, <3>2, <3>3 DEF QueuedLast
        <4> QED  BY <2>0, <3>2, <4>1 DEF WorkedOnLast, Reading
      <3>4. CASE Len(queue) # 1
        <4>1. queue # <<>> /\ queue' = Tail(queue) /\ queue \in Seq(Contents)
          BY <3>1, <3>2 DEF QueuedLast
        <4>2. Len(queue') = Len(queue) - 1 /\ Len(queue) \in Nat /\ Len(queue) >= 1
          BY <4>1
        <4>3. \A i \in 1..(Len(queue) - 1) : queue'[i] = queue[i + 1]
          BY <4>1
        <4>4. queue'[Len(queue')] = queue[Len(queue)]
          BY <3>4, <4>2, <4>3
        <4>5. queue' # <<>>
          BY <3>4, <4>2
        <4> QED  BY <2>0, <3>1, <4>4, <4>5 DEF QueuedLast
      <3> QED  BY <3>3, <3>4
    <2>3. ASSUME worker.pc # "idle", queue' = queue,
                 WorkedOnLast => WorkedOnLast' \/ (Quiet' /\ Explained')
          PROVE  QueuedLast' \/ WorkedOnLast' \/ (Quiet' /\ Explained')
      BY <2>0, <2>1, <2>3 DEF QueuedLast, Quiet
    <2>4. CASE CheckBefore \/ ReadGraph \/ Ask \/ CheckAfter
      <3>1. worker.pc # "idle" /\ queue' = queue
        BY <2>4 DEF CheckBefore, ReadGraph, Ask, CheckAfter
      <3>2. WorkedOnLast => WorkedOnLast'
        BY <2>0, <2>4
        DEF WorkedOnLast, ExplanationTypes, WorkerType, Reading,
            CheckBefore, ReadGraph, Ask, CheckAfter, Differs
      <3> QED  BY <2>3, <3>1, <3>2
    <2>5. CASE StoreExplanation
      <3>1. worker.pc = "current" /\ queue' = queue /\ worker' = IdleWorker
            /\ architecture' = [of |-> worker.read, status |-> worker.grounding]
        BY <2>5 DEF StoreExplanation
      <3>2. worker.grounding \in {"READY", "EVIDENCE_ONLY"}
        BY <3>1 DEF ExplanationTypes, WorkerType, Answered
      <3>3. WorkedOnLast => Quiet' /\ Explained'
        BY <2>0, <3>1, <3>2, IdleWorkerType DEF WorkedOnLast, Quiet, Explained, Reading
      <3> QED  BY <2>3, <3>1, <3>3
    <2> QED  BY <1>4, <2>2, <2>4, <2>5 DEF WorkerStep
  <1> QED  BY <1>1, <1>2, <1>3, <1>4 DEF Next, IndexStep

(* When nothing failed since the last graph was published and no job is    *)
(* left, the overview is that of the indexed graph, however many graphs    *)
(* were published while older jobs ran (generate_architecture).            *)
THEOREM LastGraphIsExplainedHolds == Spec => []LastGraphIsExplained
  <1>1. LastJobInv => LastGraphIsExplained
    BY DEF LastJobInv, LastGraphIsExplained, Quiet, QueuedLast, WorkedOnLast, Explained
  <1> QED  BY <1>1, ExplanationInit, TypesNext, LastJobNext, PTL DEF Spec
=============================================================================
