-------------------------- MODULE Guardian_proofs --------------------------
(***************************************************************************)
(* Theorems about Guardian, for any number of API threads, pushes,         *)
(* comments, runs, retries, redeliveries, restarts and kills, failing      *)
(* Redis and database or not, and any bound on the history.                *)
(***************************************************************************)
EXTENDS Guardian, FiniteSetTheorems, TLAPS

-----------------------------------------------------------------------------
(* Type correctness.                                                       *)

HookType == [pc : {"idle", "bound", "created", "stored"}, delivery : Delivery \union {0},
             id : RunId \union {NoId}, sha : Shas]

RunType == [status : RunStatus, sha : Shas, at : Nat, delivery : Delivery \union {0}]

RequestType == [pc : {"idle", "read", "mine", "other", "stored"}, id : RunId \union {NoId}, sha : Shas]

WorkerType == [pc : Reviewing \union {"idle", "begin", "failing", "failed", "raised"},
               id : RunId \union {NoId}, sha : Shas, rev : Shas]

(* The sha of these is that of a head GitHub was asked for.                *)
Fetched == {"fetched", "pending", "analyzed", "commented", "final", "complete", "failing"}

(* Who is not idle has a run, and the worker a head to publish for.        *)
GuardianTypes ==
    /\ TypeOK
    /\ hook.pc # "idle" => hook.id \in RunId /\ hook.delivery \in Delivery
    /\ hook.pc = "bound" => created < MaxRuns /\ hook.id = <<created + 1, 0>>
    /\ \A r \in Requests :
        /\ requests[r].pc # "idle" => requests[r].id \in RunId
        /\ requests[r].pc = "read" => requests[r].id[2] < MaxAttempts
    /\ worker.pc # "idle" => worker.id \in RunId
    /\ worker.pc \in Fetched => worker.sha \in Heads

LEMMA BoundsType ==
    /\ Heads \subseteq Shas /\ 0 \in Shas /\ 1 \in Heads /\ 1 \in Delivery
    /\ \A d \in Delivery : DeliveredSha(d) \in Shas
    /\ \A id \in RunId : id = <<id[1], id[2]>> /\ id[1] \in 1..MaxRuns /\ id[2] \in 0..MaxAttempts
  BY GuardianBounds DEF Heads, Shas, Delivery, DeliveredSha, RunId

LEMMA RetryType ==
    ASSUME NEW id \in RunId, id[2] < MaxAttempts
    PROVE  RetryOf(id) \in RunId /\ RetryOf(id)[1] = id[1] /\ RetryOf(id)[2] = id[2] + 1
  BY GuardianBounds DEF RunId, RetryOf

(* Statements of the store keep the types of the nodes.                    *)
LEMMA UpdateType ==
    ASSUME runs \in [RunId -> RunType], NEW id, NEW status \in RunStatus, NEW sha \in Shas,
           update_guardian_run(id, status, sha)
    PROVE  runs' \in [RunId -> RunType]
  BY DEF update_guardian_run, RunType

LEMMA FailType ==
    ASSUME runs \in [RunId -> RunType], NEW id \in RunId, fail_guardian_run_if_active(id)
    PROVE  runs' \in [RunId -> RunType]
  BY DEF fail_guardian_run_if_active, RunType, RunStatus

LEMMA PruneType ==
    ASSUME runs \in [RunId -> RunType], prune_guardian_runs
    PROVE  runs' \in [RunId -> RunType]
  <1>1. NoRun \in RunType
    BY BoundsType DEF NoRun, RunType, RunStatus
  <1> QED  BY <1>1 DEF prune_guardian_runs

LEMMA CreateType ==
    ASSUME runs \in [RunId -> RunType], clock \in Nat, NEW id \in RunId, NEW sha \in Shas,
           NEW d \in Delivery \union {0}, runs' = [runs EXCEPT ![id] = NewRun(sha, d)]
    PROVE  runs' \in [RunId -> RunType]
  <1>1. NewRun(sha, d) \in RunType
    BY DEF NewRun, RunType, RunStatus
  <1> QED  BY <1>1

(* ... even where a failure may have gone unrecorded.                      *)
LEMMA LostType ==
    ASSUME runs \in [RunId -> RunType], unrecorded \subseteq RunId, NEW id \in RunId, Lost(id)
    PROVE  runs' \in [RunId -> RunType] /\ unrecorded' \subseteq RunId
  BY DEF Lost

LEMMA RecordType ==
    ASSUME runs \in [RunId -> RunType], unrecorded \subseteq RunId, NEW id \in RunId, NEW sha \in Shas,
           RecordError(id, sha)
    PROVE  runs' \in [RunId -> RunType] /\ unrecorded' \subseteq RunId
  <1>1. CASE update_guardian_run(id, "ERROR", sha) /\ UNCHANGED unrecorded
    BY <1>1, UpdateType DEF RunStatus
  <1>2. CASE Lost(id)
    BY <1>2, LostType
  <1> QED  BY <1>1, <1>2 DEF RecordError

LEMMA IdleTypes ==
    /\ IdleHook \in HookType /\ IdleHook.pc = "idle"
    /\ IdleRequest \in RequestType /\ IdleRequest.pc = "idle"
    /\ IdleWorker \in WorkerType /\ IdleWorker.pc = "idle"
  BY BoundsType DEF IdleHook, HookType, IdleRequest, RequestType, IdleWorker, WorkerType

LEMMA TypesInit == Init => GuardianTypes
  <1> SUFFICES ASSUME Init PROVE GuardianTypes
    OBVIOUS
  <1>1. runs \in [RunId -> RunType]
    BY BoundsType DEF Init, NoRun, RunType, RunStatus
  <1>2. TypeOK
    BY <1>1, BoundsType, IdleTypes, GuardianBounds
    DEF Init, TypeOK, HookType, RunType, RequestType, WorkerType, Job, Heads, Shas
  <1> QED  BY <1>2, IdleTypes DEF Init, GuardianTypes, Fetched

LEMMA TypesGitHub ==
    ASSUME GuardianTypes, Push \/ Command \/ Redeliver
    PROVE  GuardianTypes'
  <1> USE GuardianBounds DEF GuardianTypes, TypeOK, ghVars, nodeVars, apiVars, pubVars
  <1>1. CASE Push
    <2>1. head' \in Heads /\ inFlight' \subseteq Delivery
      BY <1>1 DEF Push, Heads, Delivery
    <2> QED  BY <1>1, <2>1 DEF Push
  <1>2. CASE Command
    <2>1. commands' \in 0..MaxCommands /\ inFlight' \subseteq Delivery
      BY <1>2 DEF Command, Delivery
    <2> QED  BY <1>2, <2>1 DEF Command
  <1>3. CASE Redeliver
    <2>1. redelivered' \in 0..MaxRedeliveries /\ inFlight' \subseteq Delivery
      BY <1>3 DEF Redeliver
    <2> QED  BY <1>3, <2>1 DEF Redeliver
  <1> QED  BY <1>1, <1>2, <1>3

LEMMA TypesHook ==
    ASSUME GuardianTypes, HookReceive \/ HookStep \/ ApiRestart
    PROVE  GuardianTypes'
  <1> USE GuardianBounds DEF GuardianTypes, ghVars, nodeVars, apiVars, pubVars
  <1>0. runs \in [RunId -> RunType] /\ hook \in HookType /\ clock \in Nat
    BY DEF TypeOK, RunType, HookType
  <1>1. CASE HookReceive
    <2>1. PICK d \in inFlight :
            /\ inFlight' = inFlight \ {d}
            /\ \/ /\ created < MaxRuns
                  /\ seen' = seen \union {d}
                  /\ hook' = [pc |-> "bound", delivery |-> d, id |-> <<created + 1, 0>>,
                              sha |-> DeliveredSha(d)]
               \/ UNCHANGED <<seen, hook>>
               \/ seen' = seen \union {d} /\ UNCHANGED hook
      BY <1>1 DEF HookReceive
    <2>2. d \in Delivery /\ DeliveredSha(d) \in Shas
      BY BoundsType DEF TypeOK
    <2>3. created < MaxRuns => <<created + 1, 0>> \in RunId
      BY DEF TypeOK, RunId
    <2>4. inFlight' \subseteq Delivery /\ seen' \subseteq Delivery
      BY <2>1, <2>2 DEF TypeOK
    <2>6. hook' \in HookType
      <3>1. ASSUME NEW id \in RunId
            PROVE  [pc |-> "bound", delivery |-> d, id |-> id, sha |-> DeliveredSha(d)] \in HookType
        BY <2>2 DEF HookType
      <3> QED  BY <1>0, <2>1, <2>3, <3>1
    <2>5. /\ hook'.pc # "idle" => hook'.id \in RunId /\ hook'.delivery \in Delivery
          /\ hook'.pc = "bound" => created < MaxRuns /\ hook'.id = <<created + 1, 0>>
      BY <1>1, <2>1, <2>2, <2>3 DEF HookReceive
    <2> QED  BY <1>1, <2>4, <2>5, <2>6 DEF HookReceive, TypeOK, HookType
  <1>2. CASE HookCreate
    <2>1. runs' \in [RunId -> RunType]
      BY <1>0, <1>2, CreateType DEF HookCreate, HookType
    <2>4. created' = created + 1 /\ clock' = clock + 1 /\ created < MaxRuns
      BY <1>2 DEF HookCreate
    <2>5. created \in 0..MaxRuns /\ clock \in Nat
      BY DEF TypeOK
    <2> HIDE DEF GuardianTypes
    <2>2. created' \in 0..MaxRuns /\ clock' \in Nat
      BY <2>4, <2>5
    <2> USE DEF GuardianTypes
    <2>3. hook' \in HookType /\ hook'.pc = "created" /\ hook'.id = hook.id /\ hook'.delivery = hook.delivery
      BY <1>0, <1>2 DEF HookCreate, HookType
    <2> QED  BY <1>2, <2>1, <2>2, <2>3 DEF HookCreate, TypeOK, HookType, RunType
  <1>3. CASE HookPrune
    <2>1. runs' \in [RunId -> RunType]
      BY <1>0, <1>3, PruneType DEF HookPrune
    <2>2. hook' \in HookType /\ hook'.pc = "stored" /\ hook'.id = hook.id /\ hook'.delivery = hook.delivery
      BY <1>0, <1>3 DEF HookPrune, HookType
    <2> QED  BY <1>3, <2>1, <2>2 DEF HookPrune, TypeOK, HookType, RunType
  <1>4. CASE HookEnqueue
    <2>1. [id |-> hook.id, sha |-> hook.sha] \in Job
      BY <1>0, <1>4 DEF HookEnqueue, HookType, Job
    <2>2. queue' \in Seq(Job)
      BY <1>4, <2>1 DEF HookEnqueue, TypeOK
    <2> QED  BY <1>4, <2>2, IdleTypes DEF HookEnqueue, TypeOK, HookType
  <1>7. CASE HookFails
    <2>1. runs' \in [RunId -> RunType] /\ unrecorded' \subseteq RunId
      BY <1>0, <1>7, LostType DEF HookFails, HookType, TypeOK
    <2>2. seen' \subseteq Delivery
      BY <1>7 DEF HookFails, DeleteKey, TypeOK
    <2> QED  BY <1>7, <2>1, <2>2, IdleTypes DEF HookFails, TypeOK, HookType, RunType
  <1>5. CASE HookEnqueueFails
    <2>1. runs' \in [RunId -> RunType] /\ unrecorded' \subseteq RunId
      BY <1>0, <1>5, LostType, RecordType DEF HookEnqueueFails, HookType, TypeOK
    <2>2. seen' \subseteq Delivery
      BY <1>5 DEF HookEnqueueFails, DeleteKey, TypeOK
    <2> QED  BY <1>5, <2>1, <2>2, IdleTypes DEF HookEnqueueFails, TypeOK, HookType, RunType
  <1>6. CASE ApiRestart
    BY <1>6, IdleTypes DEF ApiRestart, TypeOK, HookType, RequestType
  <1> QED  BY <1>1, <1>2, <1>3, <1>4, <1>5, <1>6, <1>7 DEF HookStep

LEMMA TypesRequest ==
    ASSUME GuardianTypes, NEW r \in Requests,
           RetryStep(r) \/ \E id \in RunId : RetryRead(r, id)
    PROVE  GuardianTypes'
  <1> USE GuardianBounds DEF GuardianTypes, ghVars, nodeVars, apiVars, pubVars
  <1>0. runs \in [RunId -> RunType] /\ requests \in [Requests -> RequestType] /\ clock \in Nat
    BY DEF TypeOK, RunType, RequestType
  <1>1. ASSUME NEW pc \in {"read", "mine", "other", "stored"}, NEW id \in RunId, NEW sha \in Shas,
               pc = "read" => id[2] < MaxAttempts,
               SetRequest(r, pc, id, sha)
        PROVE  /\ requests' \in [Requests -> RequestType]
               /\ \A q \in Requests :
                    /\ requests'[q].pc # "idle" => requests'[q].id \in RunId
                    /\ requests'[q].pc = "read" => requests'[q].id[2] < MaxAttempts
    <2>1. [pc |-> pc, id |-> id, sha |-> sha] \in RequestType
      BY DEF RequestType
    <2> QED  BY <1>0, <1>1, <2>1 DEF SetRequest
  <1>2. ASSUME EndRequest(r)
        PROVE  /\ requests' \in [Requests -> RequestType]
               /\ \A q \in Requests :
                    /\ requests'[q].pc # "idle" => requests'[q].id \in RunId
                    /\ requests'[q].pc = "read" => requests'[q].id[2] < MaxAttempts
    BY <1>0, <1>2, IdleTypes DEF EndRequest
  <1>3. ASSUME NEW id \in RunId, RetryRead(r, id)
        PROVE  GuardianTypes'
    <2>1. SetRequest(r, "read", id, runs[id].sha) /\ runs[id].sha \in Shas /\ id[2] < MaxAttempts
      BY <1>0, <1>3 DEF RetryRead, RunType
    <2> QED  BY <1>1, <1>3, <2>1 DEF RetryRead, TypeOK, RequestType
  <1>4. CASE RetryCreate(r)
    <2> DEFINE id == requests[r].id
               sha == requests[r].sha
    <2>1. id \in RunId /\ sha \in Shas /\ RetryOf(id) \in RunId
      BY <1>0, <1>4, RetryType DEF RetryCreate, RequestType
    <2>2. PICK pc \in {"mine", "other"} : SetRequest(r, pc, RetryOf(id), sha)
      BY <1>4 DEF RetryCreate
    <2>3. /\ requests' \in [Requests -> RequestType]
          /\ \A q \in Requests :
               /\ requests'[q].pc # "idle" => requests'[q].id \in RunId
               /\ requests'[q].pc = "read" => requests'[q].id[2] < MaxAttempts
      BY <1>1, <2>1, <2>2
    <2>4. \/ clock' = clock + 1 /\ runs' = [runs EXCEPT ![RetryOf(id)] = NewRun(sha, 0)]
          \/ UNCHANGED <<runs, clock>>
      BY <1>4 DEF RetryCreate
    <2>5. runs' \in [RunId -> RunType] /\ clock' \in Nat
      BY <1>0, <2>1, <2>4, CreateType
    <2> QED  BY <1>4, <2>3, <2>5 DEF RetryCreate, TypeOK, RunType, RequestType
  <1>5. CASE RetryPrune(r)
    <2>1. runs' \in [RunId -> RunType]
      BY <1>0, <1>5, PruneType DEF RetryPrune
    <2>2. \/ EndRequest(r)
          \/ SetRequest(r, "stored", requests[r].id, requests[r].sha)
      BY <1>0, <1>5 DEF RetryPrune, SetRequest, RequestType
    <2>3. requests[r].id \in RunId /\ requests[r].sha \in Shas
      BY <1>0, <1>5 DEF RetryPrune, RequestType
    <2>4. /\ requests' \in [Requests -> RequestType]
          /\ \A q \in Requests :
               /\ requests'[q].pc # "idle" => requests'[q].id \in RunId
               /\ requests'[q].pc = "read" => requests'[q].id[2] < MaxAttempts
      BY <1>1, <1>2, <2>2, <2>3
    <2> QED  BY <1>5, <2>1, <2>4 DEF RetryPrune, TypeOK, RunType, RequestType
  <1>6. CASE RetryEnqueue(r)
    <2>1. [id |-> requests[r].id, sha |-> requests[r].sha] \in Job
      BY <1>0, <1>6 DEF RetryEnqueue, RequestType, Job
    <2>2. queue' \in Seq(Job)
      BY <1>6, <2>1 DEF RetryEnqueue, TypeOK
    <2> QED  BY <1>2, <1>6, <2>2 DEF RetryEnqueue, TypeOK, RequestType
  <1>7. CASE RetryEnqueueFails(r)
    <2>1. runs' \in [RunId -> RunType] /\ unrecorded' \subseteq RunId
      BY <1>0, <1>7, RecordType DEF RetryEnqueueFails, RequestType, TypeOK
    <2> QED  BY <1>2, <1>7, <2>1 DEF RetryEnqueueFails, TypeOK, RunType, RequestType
  <1>8. CASE RetryFails(r)
    <2>1. runs' \in [RunId -> RunType] /\ unrecorded' \subseteq RunId
      BY <1>0, <1>8, LostType DEF RetryFails, TypeOK
    <2> QED  BY <1>2, <1>8, <2>1 DEF RetryFails, TypeOK, RunType, RequestType
  <1> QED  BY <1>3, <1>4, <1>5, <1>6, <1>7, <1>8 DEF RetryStep

LEMMA TypesWorker ==
    ASSUME GuardianTypes, WorkerStep \/ WorkHorseKilled
    PROVE  GuardianTypes'
  <1> USE GuardianBounds DEF GuardianTypes, ghVars, nodeVars, apiVars, pubVars
  <1>0. runs \in [RunId -> RunType] /\ worker \in WorkerType /\ clock \in Nat
    BY DEF TypeOK, RunType, WorkerType
  <1>1. ASSUME NEW pc \in Reviewing \union {"failing", "failed", "raised"}, Goto(pc),
               worker.pc # "idle", pc \in Fetched => worker.sha \in Heads
        PROVE  /\ worker' \in WorkerType
               /\ worker'.pc # "idle" => worker'.id \in RunId
               /\ worker'.pc \in Fetched => worker'.sha \in Heads
    BY <1>0, <1>1 DEF Goto, WorkerType
  <1>2. CASE TakeReview
    <2>1. Head(queue) \in Job /\ queue' \in Seq(Job)
      BY <1>2 DEF TakeReview, TypeOK
    <2>2. worker' \in WorkerType /\ worker'.id \in RunId /\ worker'.pc \notin Fetched
      BY <1>2, <2>1, BoundsType DEF TakeReview, WorkerType, Job, Fetched
    <2> QED  BY <1>2, <2>1, <2>2 DEF TakeReview, TypeOK, WorkerType
  <1>3. CASE NotReady
    <2>1. Goto("raised") /\ worker.pc # "idle" /\ "raised" \notin Fetched
      BY <1>3 DEF NotReady, Fetched
    <2> QED  BY <1>1, <1>3, <2>1 DEF NotReady, TypeOK, WorkerType
  <1>4. CASE BeginReview
    <2>1. Goto("running") /\ worker.pc # "idle" /\ "running" \in Reviewing /\ "running" \notin Fetched
      BY <1>4 DEF BeginReview, Fetched, Reviewing
    <2>2. runs' \in [RunId -> RunType]
      BY <1>0, <1>4, UpdateType DEF BeginReview, WorkerType, RunStatus
    <2> QED  BY <1>1, <1>4, <2>1, <2>2 DEF BeginReview, TypeOK, WorkerType, RunType
  <1>5. CASE Fetch
    <2>1. head \in Heads /\ head \in Shas
      BY BoundsType DEF TypeOK
    <2>2. worker' \in WorkerType /\ worker'.id = worker.id /\ worker'.sha = head
      BY <1>0, <1>5, <2>1 DEF Fetch, WorkerType, Reviewing
    <2> QED  BY <1>5, <2>1, <2>2 DEF Fetch, TypeOK, WorkerType
  <1>6. ASSUME NEW state \in {"pending", "success", "failure", "error"}, NEW rev \in Shas,
               PublishStatus(state, rev), worker.pc # "idle"
        PROVE  /\ statuses' \in [Heads -> {"none", "pending", "success", "failure", "error"}]
               /\ reviewed' \in [Heads -> Shas]
               /\ publisher' \in [Heads -> RunId \union {NoId}]
    BY <1>6 DEF PublishStatus, TypeOK
  <1>7. CASE Pending
    <2>1. Goto("pending") /\ worker.pc # "idle" /\ "pending" \in Reviewing /\ worker.sha \in Heads
      BY <1>7 DEF Pending, Fetched, Reviewing
    <2>2. PublishStatus("pending", 0) /\ 0 \in Shas
      BY <1>7, BoundsType DEF Pending
    <2> QED  BY <1>1, <1>6, <1>7, <2>1, <2>2 DEF Pending, TypeOK, WorkerType
  <1>8. CASE Analyze
    <2>1. head \in Shas
      BY BoundsType DEF TypeOK
    <2>2. worker' \in WorkerType /\ worker'.id = worker.id /\ worker'.sha = worker.sha
      BY <1>0, <1>8, <2>1 DEF Analyze, ClonedHead, WorkerType, Reviewing
    <2> QED  BY <1>8, <2>2 DEF Analyze, TypeOK, WorkerType, Fetched
  <1>9. CASE Comment
    <2>1. Goto("commented") /\ worker.pc # "idle" /\ "commented" \in Reviewing /\ worker.sha \in Heads
      BY <1>9 DEF Comment, Fetched, Reviewing
    <2>2. comment' \in Shas
      BY <1>0, <1>9 DEF Comment, WorkerType
    <2> QED  BY <1>1, <1>9, <2>1, <2>2 DEF Comment, TypeOK, WorkerType
  <1>10. CASE FinalStatus
    <2>1. Goto("final") /\ worker.pc # "idle" /\ "final" \in Reviewing /\ worker.sha \in Heads
      BY <1>10 DEF FinalStatus, Fetched, Reviewing
    <2>2. PublishStatus(Verdict, worker.rev) /\ Verdict \in {"success", "failure"} /\ worker.rev \in Shas
      BY <1>0, <1>10 DEF FinalStatus, Verdict, WorkerType
    <2> QED  BY <1>1, <1>6, <1>10, <2>1, <2>2 DEF FinalStatus, TypeOK, WorkerType
  <1>11. CASE CompleteRun
    <2>1. Goto("complete") /\ worker.pc # "idle" /\ "complete" \in Reviewing /\ worker.sha \in Heads
      BY <1>11 DEF CompleteRun, Fetched, Reviewing
    <2>2. runs' \in [RunId -> RunType]
      BY <1>0, <1>11, UpdateType DEF CompleteRun, CompletedSha, WorkerType, RunStatus
    <2> QED  BY <1>1, <1>11, <2>1, <2>2 DEF CompleteRun, TypeOK, WorkerType, RunType
  <1>12. CASE ReviewDone
    BY <1>12, IdleTypes DEF ReviewDone, TypeOK, WorkerType, Fetched
  <1>13. CASE ReviewFails
    <2>1. worker.pc # "idle"
      BY <1>13 DEF ReviewFails, Reviewing
    <2>2. CASE worker.sha # 0 /\ Goto("failing")
      <3>1. worker.sha \in Heads
        BY <1>0, <2>2 DEF WorkerType, Heads, Shas
      <3> QED  BY <1>1, <1>13, <2>1, <2>2, <3>1 DEF ReviewFails, TypeOK, WorkerType
    <2>3. CASE Goto("failed")
      BY <1>1, <1>13, <2>1, <2>3 DEF ReviewFails, TypeOK, WorkerType, Fetched
    <2> QED  BY <1>13, <2>2, <2>3 DEF ReviewFails
  <1>14. CASE ErrorStatus
    <2>1. Goto("failed") /\ worker.pc # "idle" /\ "failed" \notin Fetched
      BY <1>14 DEF ErrorStatus, Fetched
    <2>2. (PublishStatus("error", 0) /\ 0 \in Shas) \/ UNCHANGED <<statuses, reviewed, publisher>>
      BY <1>14, BoundsType DEF ErrorStatus
    <2> QED  BY <1>1, <1>6, <1>14, <2>1, <2>2 DEF ErrorStatus, TypeOK, WorkerType
  <1>15. CASE ErrorRun
    <2>1. Goto("raised") /\ worker.pc # "idle" /\ "raised" \notin Fetched
      BY <1>15 DEF ErrorRun, Fetched
    <2>2. runs' \in [RunId -> RunType]
      BY <1>0, <1>15, UpdateType DEF ErrorRun, WorkerType, RunStatus
    <2> QED  BY <1>1, <1>15, <2>1, <2>2 DEF ErrorRun, TypeOK, WorkerType, RunType
  <1>16. CASE FailureCallback \/ WorkHorseKilled
    <2>1. JobFailed /\ worker.id \in RunId
      BY <1>16 DEF FailureCallback, WorkHorseKilled
    <2>2. runs' \in [RunId -> RunType] /\ unrecorded' \subseteq RunId
      BY <1>0, <2>1, FailType, LostType DEF JobFailed, TypeOK
    <2> QED  BY <2>1, <2>2, IdleTypes DEF JobFailed, TypeOK, WorkerType, RunType, Fetched
  <1> QED  BY <1>2, <1>3, <1>4, <1>5, <1>7, <1>8, <1>9, <1>10, <1>11, <1>12, <1>13, <1>14, <1>15, <1>16
           DEF WorkerStep

LEMMA TypesNext == GuardianTypes /\ [Next]_vars => GuardianTypes'
  <1> SUFFICES ASSUME GuardianTypes, [Next]_vars PROVE GuardianTypes'
    OBVIOUS
  <1>1. CASE UNCHANGED vars
    BY <1>1 DEF GuardianTypes, TypeOK, vars, ghVars, nodeVars, apiVars, pubVars
  <1> QED  BY <1>1, TypesGitHub, TypesHook, TypesRequest, TypesWorker DEF Next

LEMMA TypesHold == Spec => []GuardianTypes
  BY TypesInit, TypesNext, PTL DEF Spec

(* A sha that is stored, queued or published is one of the pull request's, *)
(* in every state of the program.                                          *)
THEOREM TypeCorrect == Spec => []TypeOK
  <1>1. GuardianTypes => TypeOK
    BY DEF GuardianTypes
  <1> QED  BY <1>1, TypesHold, PTL

-----------------------------------------------------------------------------
(* The history: retries of a run are created one after the other, and a    *)
(* prune removes the oldest first.                                         *)

(* id and other are attempts of one run, id the earlier one.               *)
Earlier(id, other) == id[1] = other[1] /\ id[2] < other[2]

(* A job, or a handler or the worker that has it, is for id.               *)
Claimed(id) == AboutToQueue(id) \/ InQueue(id) # {} \/ OnIt(id)

HistoryInv ==
    /\ \A id \in RunId :
        /\ Stored(id) => id[1] <= created /\ runs[id].at <= clock
        /\ Claimed(id) => id[1] <= created
    /\ \A r \in Requests : requests[r].pc # "idle" => requests[r].id[1] <= created
    /\ \A id, other \in RunId : Earlier(id, other) /\ Stored(id) =>
        /\ Stored(other) => runs[id].at < runs[other].at
        /\ Claimed(other) => Stored(other)
        /\ \A last \in RunId : Earlier(other, last) /\ Stored(last) => Stored(other)

(* Nobody but its holder has a job for a run.                              *)
Holding(r) == requests[r].pc \in {"mine", "stored"}

Waiting(id) == AboutToQueue(id) \/ InQueue(id) # {} \/ (worker.pc = "begin" /\ worker.id = id)

UniqueInv ==
    /\ \A i, j \in DOMAIN queue : queue[i].id = queue[j].id => i = j
    /\ \A i \in DOMAIN queue : ~OnIt(queue[i].id)
    /\ \A r \in Requests : Holding(r) =>
        /\ InQueue(requests[r].id) = {} /\ ~OnIt(requests[r].id)
        /\ \A other \in Requests : Holding(other) /\ requests[other].id = requests[r].id => other = r
    /\ hook.pc \in {"created", "stored"} =>
        /\ InQueue(hook.id) = {} /\ ~OnIt(hook.id)
        /\ \A r \in Requests : Holding(r) => requests[r].id # hook.id

(* The status that the holder of a run's job finds.                        *)
StatusInv ==
    /\ \A id \in RunId : Waiting(id) => runs[id].status \in {"ABSENT", "QUEUED"}
    /\ worker.pc \in Reviewing \ {"complete"} => runs[worker.id].status \in {"ABSENT", "RUNNING"}
    /\ worker.pc = "complete" => runs[worker.id].status \in {"ABSENT", "COMPLETE"}
    /\ worker.pc \in {"failing", "failed"} => runs[worker.id].status \in {"ABSENT", "RUNNING", "COMPLETE"}
    /\ \A id \in RunId \ unrecorded : runs[id].status = "RUNNING" => OnIt(id)
    /\ \A id \in RunId \ unrecorded : runs[id].status = "QUEUED" => Claimed(id)

GuardianInv == HistoryInv /\ UniqueInv /\ StatusInv

(* The keys of deliveries, and the runs there are for them.                *)
DeliveryInv ==
    /\ \A id \in RunId \ unrecorded :
        runs[id].status \notin {"ABSENT", "ERROR"} /\ runs[id].delivery # 0 => runs[id].delivery \in seen
    /\ hook.pc # "idle" =>
        /\ hook.delivery \in seen
        /\ \A id \in RunId \ unrecorded :
            runs[id].status \notin {"ABSENT", "ERROR"} /\ runs[id].delivery = hook.delivery =>
                hook.pc # "bound" /\ id = hook.id
    /\ OneLiveRunPerDelivery

(* Heads only grow: who looks later sees no older one.  What is complete   *)
(* was announced.                                                          *)
HeadInv ==
    /\ comment <= head
    /\ worker.pc \in {"fetched", "pending"} => worker.sha <= head
    /\ worker.pc = "analyzed" => comment <= worker.rev
    /\ worker.pc \in {"analyzed", "commented"} => worker.sha <= worker.rev /\ worker.rev <= head
    /\ worker.pc \in {"commented", "final"} => worker.sha <= comment
    /\ worker.pc \in {"pending", "analyzed", "commented", "final"} => statuses[worker.sha] # "none"
    /\ \A id \in RunId : runs[id].status = "COMPLETE" =>
        runs[id].sha \in Heads /\ runs[id].sha <= comment /\ statuses[runs[id].sha] # "none"
    /\ VerdictNotOlder

Unsettled == {"pending", "analyzed", "commented", "failing", "failed", "raised"}

(* What is not settled on GitHub: the run that published it will tell of   *)
(* a failure, did so, or was pruned, and is not created again.             *)
PendingAt(h) ==
    LET id == publisher[h] IN
    /\ id \in RunId /\ id[1] <= created
    /\ runs[id].status \in {"ERROR", "ABSENT", "RUNNING"}
    /\ runs[id].status = "RUNNING" =>
        \/ worker.pc \in Unsettled /\ worker.id = id /\ worker.sha = h
        \/ id \in unrecorded /\ ~OnIt(id)
    /\ ~Stored(id) => \A earlier \in RunId : Earlier(earlier, id) => ~Stored(earlier)

PendingInv == \A h \in Heads : statuses[h] = "pending" => PendingAt(h)

-----------------------------------------------------------------------------
(* Who holds jobs, and what steps do to them.                              *)

HookHolds == hook.pc \in {"created", "stored"}

LEMMA Appended ==
    ASSUME queue \in Seq(Job), NEW job \in Job, queue' = Append(queue, job)
    PROVE  /\ DOMAIN queue' = DOMAIN queue \union {Len(queue) + 1}
           /\ Len(queue) + 1 \notin DOMAIN queue
           /\ queue'[Len(queue) + 1] = job
           /\ \A i \in DOMAIN queue : queue'[i] = queue[i]
           /\ \A id : InQueue(id)' # {} <=> InQueue(id) # {} \/ id = job.id
  <1>1. /\ DOMAIN queue' = DOMAIN queue \union {Len(queue) + 1}
        /\ Len(queue) + 1 \notin DOMAIN queue
        /\ queue'[Len(queue) + 1] = job
        /\ \A i \in DOMAIN queue : queue'[i] = queue[i]
    OBVIOUS
  <1> QED  BY <1>1 DEF InQueue

LEMMA Taken ==
    ASSUME queue \in Seq(Job), queue # <<>>, queue' = Tail(queue)
    PROVE  /\ 1 \in DOMAIN queue /\ Head(queue) = queue[1]
           /\ \A i \in DOMAIN queue' : i + 1 \in DOMAIN queue /\ queue'[i] = queue[i + 1]
           /\ \A id : InQueue(id) # {} <=> InQueue(id)' # {} \/ id = queue[1].id
  <1>1. /\ 1 \in DOMAIN queue /\ Head(queue) = queue[1]
        /\ \A i \in DOMAIN queue' : i + 1 \in DOMAIN queue /\ queue'[i] = queue[i + 1]
        /\ \A i \in DOMAIN queue : i = 1 \/ (i - 1 \in DOMAIN queue' /\ queue'[i - 1] = queue[i])
    OBVIOUS
  <1>2. ASSUME NEW id
        PROVE  InQueue(id) # {} <=> InQueue(id)' # {} \/ id = queue[1].id
    <2>1. ASSUME NEW i \in InQueue(id), id # queue[1].id
          PROVE  InQueue(id)' # {}
      <3>1. i \in DOMAIN queue /\ queue[i].id = id /\ i # 1
        BY <2>1 DEF InQueue
      <3>2. i - 1 \in InQueue(id)'
        BY <1>1, <3>1 DEF InQueue
      <3> QED  BY <3>2
    <2>2. InQueue(id)' # {} => InQueue(id) # {}
      BY <1>1 DEF InQueue
    <2>3. id = queue[1].id => InQueue(id) # {}
      BY <1>1 DEF InQueue
    <2> QED  BY <2>1, <2>2, <2>3
  <1> QED  BY <1>1, <1>2

(* Nobody comes to hold a job; some may lose theirs.                       *)
NoNewHolder ==
    /\ queue' = queue
    /\ HookHolds' => HookHolds /\ hook'.id = hook.id
    /\ \A r \in Requests : Holding(r)' => Holding(r) /\ requests'[r].id = requests[r].id
    /\ worker'.pc # "idle" => worker.pc # "idle" /\ worker'.id = worker.id

(* Nobody loses one.                                                       *)
HoldersStay ==
    /\ queue' = queue
    /\ HookHolds => HookHolds' /\ hook'.id = hook.id
    /\ \A r \in Requests : Holding(r) => Holding(r)' /\ requests'[r].id = requests[r].id
    /\ worker.pc # "idle" => worker'.pc # "idle" /\ worker'.id = worker.id

LEMMA ClaimsShrink ==
    ASSUME NoNewHolder, NEW id
    PROVE  /\ AboutToQueue(id)' => AboutToQueue(id)
           /\ InQueue(id)' = InQueue(id)
           /\ OnIt(id)' => OnIt(id)
           /\ Claimed(id)' => Claimed(id)
  BY DEF NoNewHolder, HookHolds, Holding, AboutToQueue, InQueue, OnIt, Claimed

LEMMA ClaimsStay ==
    ASSUME HoldersStay, NEW id, Claimed(id)
    PROVE  Claimed(id)'
  BY DEF HoldersStay, HookHolds, Holding, AboutToQueue, InQueue, OnIt, Claimed

LEMMA UniqueKept ==
    ASSUME UniqueInv, NoNewHolder
    PROVE  UniqueInv'
  <1>1. \A id : InQueue(id)' = InQueue(id) /\ (OnIt(id)' => OnIt(id))
    BY ClaimsShrink
  <1> QED  BY <1>1 DEF UniqueInv, NoNewHolder, HookHolds

(* The nodes are the same ones, whatever their status.                     *)
SameNodes ==
    /\ \A id \in RunId : (Stored(id)' <=> Stored(id)) /\ runs'[id].at = runs[id].at
    /\ created' = created /\ clock' = clock

LEMMA HistoryKept ==
    ASSUME HistoryInv, SameNodes, \A id : Claimed(id)' => Claimed(id),
           \A r \in Requests : requests'[r].pc # "idle" =>
                requests[r].pc # "idle" /\ requests'[r].id = requests[r].id
    PROVE  HistoryInv'
  BY DEF HistoryInv, SameNodes

(* A write to a run that is not pruned changes its status alone.           *)
LEMMA UpdateKeeps ==
    ASSUME runs \in [RunId -> RunType], NEW id, NEW status \in RunStatus \ {"ABSENT"}, NEW sha \in Shas,
           update_guardian_run(id, status, sha), UNCHANGED <<created, clock>>
    PROVE  /\ SameNodes
           /\ \A other \in RunId : other # id => runs'[other] = runs[other]
           /\ id \in RunId => runs'[id].status = IF Stored(id) THEN status ELSE "ABSENT"
           /\ \A other \in RunId : runs'[other].delivery = runs[other].delivery
  BY DEF update_guardian_run, SameNodes, Stored, RunType

LEMMA FailKeeps ==
    ASSUME runs \in [RunId -> RunType], NEW id \in RunId,
           fail_guardian_run_if_active(id), UNCHANGED <<created, clock>>
    PROVE  /\ SameNodes
           /\ \A other \in RunId : other # id => runs'[other] = runs[other]
           /\ runs'[id].status = IF runs[id].status \in {"QUEUED", "RUNNING"} THEN "ERROR" ELSE runs[id].status
           /\ \A other \in RunId : runs'[other].delivery = runs[other].delivery
  BY DEF fail_guardian_run_if_active, SameNodes, Stored, RunType

-----------------------------------------------------------------------------
(* GuardianInv is inductive.                                               *)

LEMMA GuardianInit == Init => GuardianInv
  <1> SUFFICES ASSUME Init PROVE GuardianInv
    OBVIOUS
  <1>1. /\ \A id \in RunId : ~Stored(id) /\ runs[id].status = "ABSENT"
        /\ \A id : ~Claimed(id) /\ ~AboutToQueue(id) /\ InQueue(id) = {}
        /\ \A r \in Requests : requests[r].pc = "idle"
        /\ hook.pc = "idle" /\ worker.pc = "idle" /\ queue = <<>>
    BY DEF Init, Stored, NoRun, Claimed, AboutToQueue, InQueue, OnIt, IdleHook, IdleRequest, IdleWorker
  <1>2. HistoryInv
    BY <1>1 DEF HistoryInv
  <1>3. UniqueInv
    BY <1>1 DEF UniqueInv, Holding
  <1>4. StatusInv
    BY <1>1 DEF StatusInv, Waiting, Reviewing
  <1> QED  BY <1>2, <1>3, <1>4 DEF GuardianInv

(* Steps that touch neither nodes, nor jobs, nor who holds them.           *)
LEMMA Elsewhere ==
    ASSUME GuardianInv, SameNodes, runs' = runs, NoNewHolder, HoldersStay,
           worker' = worker, unrecorded \subseteq unrecorded',
           \A r \in Requests : requests'[r].pc # "idle" =>
                requests'[r].id[1] <= created
    PROVE  GuardianInv'
  <1>1. \A id : Claimed(id)' <=> Claimed(id)
    BY ClaimsShrink, ClaimsStay
  <1>2. \A id : Waiting(id)' => Waiting(id)
    BY ClaimsShrink DEF Waiting
  <1>3. HistoryInv'
    BY <1>1 DEF GuardianInv, HistoryInv, SameNodes
  <1>4. UniqueInv'
    BY UniqueKept DEF GuardianInv
  <1>5. StatusInv'
    BY <1>1, <1>2 DEF GuardianInv, StatusInv, OnIt
  <1> QED  BY <1>3, <1>4, <1>5 DEF GuardianInv

LEMMA GuardianElsewhere ==
    ASSUME GuardianTypes, GuardianInv,
           \/ Push \/ Command \/ Redeliver \/ HookReceive
           \/ \E r \in Requests, id \in RunId : RetryRead(r, id)
    PROVE  GuardianInv'
  <1> USE DEF ghVars, nodeVars, apiVars, pubVars
  <1>1. CASE Push \/ Command \/ Redeliver
    <2>1. UNCHANGED <<hook, runs, created, clock, requests, unrecorded, queue, worker>>
      BY <1>1 DEF Push, Command, Redeliver
    <2>2. SameNodes /\ NoNewHolder /\ HoldersStay
      BY <2>1 DEF SameNodes, Stored, NoNewHolder, HoldersStay, HookHolds, Holding
    <2> QED  BY <2>1, <2>2, Elsewhere DEF GuardianInv, HistoryInv
  <1>2. CASE HookReceive
    <2>1. /\ UNCHANGED <<runs, created, clock, requests, unrecorded, queue, worker>>
          /\ hook.pc = "idle" /\ hook'.pc \in {"idle", "bound"}
      BY <1>2 DEF HookReceive
    <2>2. SameNodes /\ NoNewHolder /\ HoldersStay
      BY <2>1 DEF SameNodes, Stored, NoNewHolder, HoldersStay, HookHolds, Holding
    <2> QED  BY <2>1, <2>2, Elsewhere DEF GuardianInv, HistoryInv
  <1>3. ASSUME NEW r \in Requests, NEW id \in RunId, RetryRead(r, id)
        PROVE  GuardianInv'
    <2>1. /\ UNCHANGED <<hook, runs, created, clock, unrecorded, queue, worker>>
          /\ requests[r].pc = "idle" /\ Stored(id)
          /\ requests' = [requests EXCEPT ![r] = [pc |-> "read", id |-> id, sha |-> runs[id].sha]]
      BY <1>3 DEF RetryRead, SetRequest, Stored
    <2>2. /\ requests'[r].pc = "read" /\ requests'[r].id = id
          /\ \A q \in Requests : q # r => requests'[q] = requests[q]
      BY <2>1 DEF GuardianTypes, TypeOK
    <2>3. SameNodes /\ NoNewHolder /\ HoldersStay
      BY <2>1, <2>2 DEF SameNodes, Stored, NoNewHolder, HoldersStay, HookHolds, Holding
    <2>4. id[1] <= created
      BY <2>1 DEF GuardianInv, HistoryInv
    <2> QED  BY <2>1, <2>2, <2>3, <2>4, Elsewhere DEF GuardianInv, HistoryInv
  <1> QED  BY <1>1, <1>2, <1>3

-----------------------------------------------------------------------------
(* Prunes.                                                                 *)

LEMMA RunIdFinite == IsFiniteSet(RunId)
  <1>1. IsFiniteSet(1..MaxRuns) /\ IsFiniteSet(0..MaxAttempts)
    BY FS_Interval, GuardianBounds
  <1> QED  BY <1>1, FS_Product DEF RunId

(* A run that was created later is not removed before an earlier one.      *)
LEMMA NewerMonotone ==
    ASSUME runs \in [RunId -> RunType], NEW id \in RunId, NEW other \in RunId,
           runs[id].at < runs[other].at, Cardinality(Newer(id)) < KeepRuns
    PROVE  Cardinality(Newer(other)) < KeepRuns
  <1>1. Newer(other) \subseteq Newer(id) /\ Newer(id) \subseteq RunId
    BY DEF Newer, RunType
  <1>2. IsFiniteSet(Newer(id)) /\ IsFiniteSet(Newer(other))
    BY <1>1, RunIdFinite, FS_Subset
  <1>3. Cardinality(Newer(other)) <= Cardinality(Newer(id))
    BY <1>1, <1>2, FS_Subset
  <1>4. Cardinality(Newer(other)) \in Nat /\ Cardinality(Newer(id)) \in Nat
    BY <1>2, FS_CardinalityType
  <1> QED  BY <1>3, <1>4, GuardianBounds

LEMMA PruneKeeps ==
    ASSUME runs \in [RunId -> RunType], prune_guardian_runs
    PROVE  /\ \A id \in RunId : Stored(id)' => Stored(id) /\ runs'[id] = runs[id]
           /\ \A id \in RunId : ~Stored(id)' => runs'[id] = NoRun
           /\ \A id, other \in RunId :
                Stored(id)' /\ Stored(other) /\ runs[id].at < runs[other].at => Stored(other)'
  <1>1. \A id \in RunId : runs'[id] = IF Stored(id) /\ Cardinality(Newer(id)) < KeepRuns
                                       THEN runs[id] ELSE NoRun
    BY DEF prune_guardian_runs
  <1>2. \A id \in RunId : Stored(id)' <=> Stored(id) /\ Cardinality(Newer(id)) < KeepRuns
    BY <1>1 DEF Stored, NoRun
  <1> QED  BY <1>1, <1>2, NewerMonotone DEF NoRun

LEMMA GuardianPrune ==
    ASSUME GuardianTypes, GuardianInv, prune_guardian_runs, NoNewHolder, HoldersStay,
           UNCHANGED <<created, clock, unrecorded, worker>>,
           \A r \in Requests : requests'[r].pc # "idle" =>
                requests[r].pc # "idle" /\ requests'[r].id = requests[r].id
    PROVE  GuardianInv'
  <1>0. runs \in [RunId -> RunType]
    BY DEF GuardianTypes, TypeOK, RunType
  <1>1. \A id : Claimed(id)' <=> Claimed(id)
    BY ClaimsShrink, ClaimsStay
  <1>2. \A id : Waiting(id)' => Waiting(id)
    BY ClaimsShrink DEF Waiting
  <1>3. HistoryInv'
    <2>1. ASSUME NEW id \in RunId
          PROVE  /\ Stored(id)' => id[1] <= created' /\ runs'[id].at <= clock'
                 /\ Claimed(id)' => id[1] <= created'
      BY <1>0, <1>1, PruneKeeps DEF GuardianInv, HistoryInv
    <2>2. ASSUME NEW id \in RunId, NEW other \in RunId, Earlier(id, other), Stored(id)'
          PROVE  /\ Stored(other)' => runs'[id].at < runs'[other].at
                 /\ Claimed(other)' => Stored(other)'
                 /\ \A last \in RunId : Earlier(other, last) /\ Stored(last)' => Stored(other)'
      <3>1. Stored(id) /\ runs'[id] = runs[id]
        BY <1>0, <2>2, PruneKeeps
      <3>2. Stored(other) => Stored(other)' /\ runs'[other] = runs[other]
        BY <1>0, <2>2, <3>1, PruneKeeps DEF GuardianInv, HistoryInv
      <3>3. \A last \in RunId : Stored(last)' => Stored(last)
        BY <1>0, PruneKeeps
      <3> QED  BY <1>1, <2>2, <3>1, <3>2, <3>3 DEF GuardianInv, HistoryInv
    <2> QED  BY <2>1, <2>2 DEF GuardianInv, HistoryInv
  <1>4. UniqueInv'
    BY UniqueKept DEF GuardianInv
  <1>5. \A id \in RunId : runs'[id].status \in {"ABSENT", runs[id].status}
    BY <1>0, PruneKeeps DEF NoRun
  <1>6. worker.pc # "idle" => worker.id \in RunId
    BY DEF GuardianTypes
  <1>7. StatusInv'
    BY <1>1, <1>2, <1>5, <1>6 DEF GuardianInv, StatusInv, OnIt, Reviewing
  <1> QED  BY <1>3, <1>4, <1>7 DEF GuardianInv

-----------------------------------------------------------------------------
(* The webhook.                                                            *)

LEMMA GuardianHookCreate ==
    ASSUME GuardianTypes, GuardianInv, HookCreate
    PROVE  GuardianInv'
  <1> DEFINE id == hook.id
  <1>1. /\ id \in RunId /\ id[1] = created + 1 /\ id[2] = 0 /\ created \in Nat /\ clock \in Nat
        /\ runs \in [RunId -> RunType]
    BY DEF HookCreate, GuardianTypes, TypeOK, RunType
  <1>2. /\ ~HookHolds /\ HookHolds' /\ hook'.id = id
        /\ created' = created + 1 /\ clock' = clock + 1
        /\ runs' = [runs EXCEPT ![id] = NewRun(hook.sha, hook.delivery)]
        /\ UNCHANGED <<requests, unrecorded, queue, worker>>
    BY DEF HookCreate, HookHolds, GuardianTypes, TypeOK, apiVars
  <1>3. /\ runs'[id].status = "QUEUED" /\ runs'[id].at = clock'
        /\ \A other \in RunId : other # id => runs'[other] = runs[other]
    BY <1>1, <1>2 DEF NewRun
  <1>4. \A other \in RunId : other[1] = id[1] => ~Stored(other) /\ ~Claimed(other)
    BY <1>1 DEF GuardianInv, HistoryInv
  <1>5. /\ \A other : other # id => (AboutToQueue(other)' <=> AboutToQueue(other))
        /\ AboutToQueue(id)'
        /\ \A other : InQueue(other)' = InQueue(other) /\ (OnIt(other)' <=> OnIt(other))
    BY <1>2 DEF AboutToQueue, HookHolds, InQueue, OnIt
  <1>6. \A other : other # id => (Claimed(other)' <=> Claimed(other))
    BY <1>5 DEF Claimed
  <1>7. /\ Stored(id)' /\ \A other \in RunId : other # id => (Stored(other)' <=> Stored(other))
    BY <1>2, <1>3 DEF Stored
  <1>8. HistoryInv'
    <2>1. ASSUME NEW run \in RunId
          PROVE  /\ Stored(run)' => run[1] <= created' /\ runs'[run].at <= clock'
                 /\ Claimed(run)' => run[1] <= created'
      <3>1. CASE run = id
        BY <1>1, <1>2, <1>3, <3>1
      <3>2. CASE run # id
        <4>1. /\ Stored(run) => run[1] <= created /\ runs[run].at <= clock
              /\ Claimed(run) => run[1] <= created
          BY DEF GuardianInv, HistoryInv
        <4>2. runs[run].at \in Nat /\ run[1] \in Nat
          BY <1>1, BoundsType DEF RunType
        <4> QED  BY <1>1, <1>2, <1>3, <1>6, <1>7, <3>2, <4>1, <4>2
      <3> QED  BY <3>1, <3>2
    <2>2. \A r \in Requests : requests'[r].pc # "idle" => requests'[r].id[1] <= created'
      BY <1>1, <1>2, BoundsType DEF GuardianInv, HistoryInv, GuardianTypes
    <2>3. ASSUME NEW run \in RunId, NEW other \in RunId, Earlier(run, other), Stored(run)'
          PROVE  /\ Stored(other)' => runs'[run].at < runs'[other].at
                 /\ Claimed(other)' => Stored(other)'
                 /\ \A last \in RunId : Earlier(other, last) /\ Stored(last)' => Stored(other)'
      <3>1. other # id
        BY <1>1, <2>3, BoundsType DEF Earlier
      <3>2. CASE run = id
        <4>1. ~Stored(other) /\ ~Claimed(other)
          BY <1>4, <2>3, <3>2 DEF Earlier
        <4>2. \A last \in RunId : Earlier(other, last) => ~Stored(last)' \/ last = id
          BY <1>4, <1>7, <2>3, <3>2 DEF Earlier
        <4>3. ~Earlier(other, id)
          BY <1>1, BoundsType DEF Earlier
        <4> QED  BY <1>6, <1>7, <3>1, <4>1, <4>2, <4>3
      <3>3. CASE run # id
        <4>1. ~Earlier(other, id)
          BY <1>1, BoundsType DEF Earlier
        <4> QED  BY <1>3, <1>6, <1>7, <2>3, <3>1, <3>3, <4>1 DEF GuardianInv, HistoryInv
      <3> QED  BY <3>2, <3>3
    <2> QED  BY <2>1, <2>2, <2>3 DEF HistoryInv
  <1>9. UniqueInv'
    <2>1. ~AboutToQueue(id) /\ InQueue(id) = {} /\ ~OnIt(id)
      BY <1>1, <1>4 DEF Claimed
    <2> QED  BY <1>2, <1>5, <2>1 DEF GuardianInv, UniqueInv, AboutToQueue, Holding, HookHolds
  <1>10. StatusInv'
    <2>1. ~OnIt(id)
      BY <1>1, <1>4 DEF Claimed
    <2>2. \A other : other # id => (Waiting(other)' <=> Waiting(other))
      BY <1>2, <1>5 DEF Waiting
    <2>3. /\ worker.pc # "idle" => worker.id \in RunId /\ worker.id # id
      BY <2>1 DEF GuardianTypes, OnIt
    <2>4. Claimed(id)'
      BY <1>5 DEF Claimed
    <2>5. ASSUME NEW run \in RunId
          PROVE  /\ Waiting(run)' => runs'[run].status \in {"ABSENT", "QUEUED"}
                 /\ runs'[run].status = "RUNNING" => OnIt(run)' \/ run \in unrecorded
                 /\ runs'[run].status = "QUEUED" => Claimed(run)' \/ run \in unrecorded
      BY <1>2, <1>3, <1>5, <1>6, <2>2, <2>4 DEF GuardianInv, StatusInv
    <2>6. worker.pc # "idle" => runs'[worker.id] = runs[worker.id]
      BY <1>3, <2>3
    <2> QED  BY <1>2, <2>5, <2>6 DEF GuardianInv, StatusInv, Reviewing
  <1> QED  BY <1>8, <1>9, <1>10 DEF GuardianInv

LEMMA GuardianHookPrune ==
    ASSUME GuardianTypes, GuardianInv, HookPrune
    PROVE  GuardianInv'
  <1>1. /\ prune_guardian_runs
        /\ hook.pc = "created" /\ hook'.pc = "stored" /\ hook'.id = hook.id
        /\ UNCHANGED <<created, clock, requests, unrecorded, queue, worker>>
    BY DEF HookPrune, GuardianTypes, TypeOK, apiVars
  <1>2. NoNewHolder /\ HoldersStay
    BY <1>1 DEF NoNewHolder, HoldersStay, HookHolds, Holding
  <1> QED  BY <1>1, <1>2, GuardianPrune

(* A job is queued for the holder of the run: it moves there.              *)
LEMMA Moved ==
    ASSUME GuardianTypes, GuardianInv, UNCHANGED <<runs, created, clock, unrecorded, worker>>,
           NEW job \in Job, queue' = Append(queue, job),
           InQueue(job.id) = {}, ~OnIt(job.id), AboutToQueue(job.id),
           HookHolds' => HookHolds /\ hook'.id = hook.id /\ hook.id # job.id,
           \A r \in Requests : Holding(r)' =>
                Holding(r) /\ requests'[r].id = requests[r].id /\ requests[r].id # job.id,
           \A id : AboutToQueue(id) /\ id # job.id => AboutToQueue(id)',
           \A r \in Requests : requests'[r].pc # "idle" =>
                requests[r].pc # "idle" /\ requests'[r].id = requests[r].id
    PROVE  GuardianInv'
  <1>0. queue \in Seq(Job)
    BY DEF GuardianTypes, TypeOK
  <1>1. \A id : OnIt(id)' <=> OnIt(id)
    BY DEF OnIt
  <1>2. \A id : InQueue(id)' # {} <=> InQueue(id) # {} \/ id = job.id
    BY <1>0, Appended
  <1>3. \A id : AboutToQueue(id)' => AboutToQueue(id) /\ id # job.id
    BY DEF AboutToQueue, HookHolds, Holding
  <1>4. \A id : Claimed(id)' <=> Claimed(id)
    BY <1>1, <1>2, <1>3 DEF Claimed
  <1>5. \A id : Waiting(id)' => Waiting(id)
    BY <1>2, <1>3 DEF Waiting
  <1>6. SameNodes
    BY DEF SameNodes, Stored
  <1>7. HistoryInv'
    BY <1>4, <1>6, HistoryKept DEF GuardianInv
  <1>8. UniqueInv'
    <2>1. /\ DOMAIN queue' = DOMAIN queue \union {Len(queue) + 1}
          /\ queue'[Len(queue) + 1] = job
          /\ \A i \in DOMAIN queue : queue'[i] = queue[i]
      BY <1>0, Appended
    <2>2. \A i \in DOMAIN queue : queue[i].id # job.id
      BY DEF InQueue
    <2>3. /\ \A i, j \in DOMAIN queue' : queue'[i].id = queue'[j].id => i = j
          /\ \A i \in DOMAIN queue' : ~OnIt(queue[i].id)'
      BY <1>1, <2>1, <2>2 DEF GuardianInv, UniqueInv
    <2>4. \A r \in Requests : Holding(r)' =>
            /\ InQueue(requests[r].id)' = {} /\ ~OnIt(requests[r].id)'
            /\ \A other \in Requests : Holding(other)' /\ requests'[other].id = requests'[r].id => other = r
      BY <1>1, <1>2 DEF GuardianInv, UniqueInv
    <2>5. HookHolds' =>
            /\ InQueue(hook.id)' = {} /\ ~OnIt(hook.id)'
            /\ \A r \in Requests : Holding(r)' => requests'[r].id # hook'.id
      BY <1>1, <1>2 DEF GuardianInv, UniqueInv, HookHolds
    <2> QED  BY <2>3, <2>4, <2>5 DEF UniqueInv, HookHolds
  <1>9. StatusInv'
    BY <1>1, <1>4, <1>5 DEF GuardianInv, StatusInv
  <1> QED  BY <1>7, <1>8, <1>9 DEF GuardianInv

LEMMA GuardianHookEnqueue ==
    ASSUME GuardianTypes, GuardianInv, HookEnqueue
    PROVE  GuardianInv'
  <1> DEFINE job == [id |-> hook.id, sha |-> hook.sha]
  <1>1. /\ HookHolds /\ ~HookHolds' /\ queue' = Append(queue, job)
        /\ UNCHANGED <<runs, created, clock, requests, unrecorded, worker>>
    BY DEF HookEnqueue, HookHolds, IdleHook, nodeVars, apiVars
  <1>2. job \in Job
    BY <1>1 DEF GuardianTypes, TypeOK, HookHolds, Job
  <1>3. /\ InQueue(hook.id) = {} /\ ~OnIt(hook.id) /\ AboutToQueue(hook.id)
        /\ \A r \in Requests : Holding(r) => requests[r].id # hook.id
    BY <1>1 DEF GuardianInv, UniqueInv, HookHolds, AboutToQueue
  <1>4. \A id : AboutToQueue(id) /\ id # hook.id => AboutToQueue(id)'
    BY <1>1 DEF AboutToQueue
  <1>5. \A r \in Requests : Holding(r)' => Holding(r) /\ requests'[r].id = requests[r].id /\ requests[r].id # hook.id
    BY <1>1, <1>3 DEF Holding
  <1>6. job.id = hook.id
    OBVIOUS
  <1> HIDE DEF job
  <1> QED  BY <1>1, <1>2, <1>3, <1>4, <1>5, <1>6, Moved

(* The job of a holder is refused, or its run ended.                       *)
LEMMA Dropped ==
    ASSUME GuardianTypes, GuardianInv, SameNodes, NoNewHolder, NEW id \in RunId,
           unrecorded \subseteq unrecorded',
           \A other : other # id /\ Claimed(other) => Claimed(other)',
           \A other \in RunId : other # id => runs'[other].status = runs[other].status,
           runs'[id].status \notin {"QUEUED", "RUNNING"} \/ id \in unrecorded',
           worker' = worker \/ worker'.pc = "idle", worker.pc # "idle" => worker.id # id \/ worker'.pc = "idle",
           ~Waiting(id)' \/ runs'[id].status = "ABSENT",
           \A r \in Requests : requests'[r].pc # "idle" =>
                requests[r].pc # "idle" /\ requests'[r].id = requests[r].id,
           \A other \in RunId : other # id /\ OnIt(other) => OnIt(other)'
    PROVE  GuardianInv'
  <1>1. \A other : Claimed(other)' => Claimed(other)
    BY ClaimsShrink
  <1>2. HistoryInv'
    BY <1>1, HistoryKept DEF GuardianInv
  <1>3. UniqueInv'
    BY UniqueKept DEF GuardianInv
  <1>4. \A other : Waiting(other)' => Waiting(other)
    BY ClaimsShrink DEF Waiting
  <1>5. ASSUME NEW other \in RunId
        PROVE  /\ Waiting(other)' => runs'[other].status \in {"ABSENT", "QUEUED"}
               /\ runs'[other].status = "RUNNING" => OnIt(other)' \/ other \in unrecorded'
               /\ runs'[other].status = "QUEUED" => Claimed(other)' \/ other \in unrecorded'
    BY <1>4 DEF GuardianInv, StatusInv
  <1>6. worker'.pc # "idle" => worker' = worker /\ worker.id \in RunId
                                /\ runs'[worker.id].status = runs[worker.id].status
    BY DEF GuardianTypes
  <1>7. StatusInv'
    BY <1>5, <1>6 DEF GuardianInv, StatusInv, Reviewing
  <1> QED  BY <1>2, <1>3, <1>7 DEF GuardianInv

(* What a handler writes of the run whose job it could not queue.          *)
LEMMA RecordKeeps ==
    ASSUME GuardianTypes, NEW id \in RunId, NEW sha \in Shas, RecordError(id, sha) \/ Lost(id),
           UNCHANGED <<created, clock>>
    PROVE  /\ SameNodes /\ unrecorded \subseteq unrecorded'
           /\ runs'[id].status \in {"ABSENT", "ERROR"} \/ id \in unrecorded'
           /\ \A other \in RunId : other # id => runs'[other].status = runs[other].status
  <1>1. CASE Lost(id)
    BY <1>1 DEF Lost, SameNodes, Stored
  <1>2. CASE update_guardian_run(id, "ERROR", sha) /\ UNCHANGED unrecorded
    <2>1. runs \in [RunId -> RunType] /\ "ERROR" \in RunStatus \ {"ABSENT"}
      BY DEF GuardianTypes, TypeOK, RunType, RunStatus
    <2> QED  BY <1>2, <2>1, UpdateKeeps
  <1> QED  BY <1>1, <1>2 DEF RecordError

LEMMA GuardianHookEnds ==
    ASSUME GuardianTypes, GuardianInv, HookHolds, hook' = IdleHook,
           RecordError(hook.id, hook.sha) \/ Lost(hook.id),
           UNCHANGED <<created, clock, requests, queue, worker>>
    PROVE  GuardianInv'
  <1>1. PICK id \in RunId : id = hook.id
    BY DEF HookHolds, GuardianTypes
  <1>2. ~HookHolds' /\ hook.sha \in Shas
    BY DEF HookHolds, IdleHook, GuardianTypes, TypeOK
  <1>3. /\ SameNodes /\ unrecorded \subseteq unrecorded'
        /\ runs'[id].status \notin {"QUEUED", "RUNNING"} \/ id \in unrecorded'
        /\ \A other \in RunId : other # id => runs'[other].status = runs[other].status
    BY <1>1, <1>2, RecordKeeps
  <1>4. /\ NoNewHolder
        /\ \A other : other # id /\ Claimed(other) => Claimed(other)'
        /\ \A other : OnIt(other) => OnIt(other)'
    BY <1>1, <1>2 DEF NoNewHolder, HookHolds, Holding, Claimed, AboutToQueue, InQueue, OnIt
  <1>5. ~Waiting(id)' /\ ~OnIt(id)
    BY <1>1, <1>2 DEF GuardianInv, UniqueInv, Waiting, AboutToQueue, HookHolds, Holding, InQueue, OnIt
  <1>6. worker.pc # "idle" => worker.id # id
    BY <1>5 DEF OnIt
  <1> QED  BY <1>2, <1>3, <1>4, <1>5, <1>6, Dropped

LEMMA GuardianHookFails ==
    ASSUME GuardianTypes, GuardianInv, HookFails \/ HookEnqueueFails
    PROVE  GuardianInv'
  <1>0. UNCHANGED <<created, clock, requests, queue, worker>> /\ hook' = IdleHook
    BY DEF HookFails, HookEnqueueFails, apiVars
  <1>1. CASE HookFails /\ hook.pc = "bound"
    <2>1. UNCHANGED <<runs, unrecorded>> /\ ~HookHolds /\ ~HookHolds'
      BY <1>0, <1>1, IdleTypes DEF HookFails, HookHolds
    <2>2. SameNodes /\ NoNewHolder /\ HoldersStay
      BY <1>0, <2>1 DEF SameNodes, Stored, NoNewHolder, HoldersStay, Holding
    <2> QED  BY <1>0, <2>1, <2>2, Elsewhere DEF GuardianInv, HistoryInv
  <1>2. CASE HookFails /\ hook.pc = "created"
    BY <1>0, <1>2, GuardianHookEnds DEF HookFails, HookHolds
  <1>3. CASE HookEnqueueFails
    BY <1>0, <1>3, GuardianHookEnds DEF HookEnqueueFails, HookHolds
  <1> QED  BY <1>1, <1>2, <1>3 DEF HookFails

(* A restart of the API: what its handlers had is lost.                    *)
LEMMA GuardianApiRestart ==
    ASSUME GuardianTypes, GuardianInv, ApiRestart
    PROVE  GuardianInv'
  <1>1. /\ ~HookHolds' /\ \A r \in Requests : requests'[r].pc = "idle" /\ ~Holding(r)'
        /\ unrecorded' = unrecorded \union {id \in RunId : AboutToQueue(id)}
        /\ UNCHANGED <<runs, created, clock, queue, worker>>
    BY DEF ApiRestart, HookHolds, Holding, IdleHook, IdleRequest, GuardianTypes, TypeOK, nodeVars
  <1>2. NoNewHolder /\ SameNodes
    BY <1>1 DEF NoNewHolder, SameNodes, Stored
  <1>3. \A id : (Claimed(id)' => Claimed(id)) /\ (OnIt(id)' <=> OnIt(id))
    BY <1>1, <1>2, ClaimsShrink DEF OnIt
  <1>4. \A id : Waiting(id)' => Waiting(id)
    BY <1>1, <1>2, ClaimsShrink DEF Waiting
  <1>5. HistoryInv' /\ UniqueInv'
    BY <1>1, <1>2, <1>3, HistoryKept, UniqueKept DEF GuardianInv
  <1>6. \A id \in RunId \ unrecorded' : Claimed(id) => Claimed(id)'
    BY <1>1 DEF Claimed, InQueue, OnIt
  <1>7. StatusInv'
    BY <1>1, <1>3, <1>4, <1>6 DEF GuardianInv, StatusInv
  <1> QED  BY <1>5, <1>7 DEF GuardianInv

-----------------------------------------------------------------------------
(* Retries.                                                                *)

LEMMA RequestSet ==
    ASSUME GuardianTypes, NEW r \in Requests, NEW pc, NEW id, NEW sha, SetRequest(r, pc, id, sha)
    PROVE  /\ requests'[r].pc = pc /\ requests'[r].id = id
           /\ \A other \in Requests : other # r => requests'[other] = requests[other]
  BY DEF SetRequest, GuardianTypes, TypeOK

LEMMA RequestEnds ==
    ASSUME GuardianTypes, NEW r \in Requests, EndRequest(r)
    PROVE  /\ requests'[r].pc = "idle"
           /\ \A other \in Requests : other # r => requests'[other] = requests[other]
  BY DEF EndRequest, IdleRequest, GuardianTypes, TypeOK

(* A retry that is not there yet: nor is a later one, nor a job for it.    *)
LEMMA NoLaterAttempt ==
    ASSUME GuardianTypes, GuardianInv, NEW id \in RunId, id[2] < MaxAttempts,
           Stored(id), ~Stored(RetryOf(id))
    PROVE  \A other \in RunId : Earlier(id, other) => ~Stored(other) /\ ~Claimed(other)
  <1>1. RetryOf(id) \in RunId /\ RetryOf(id)[1] = id[1] /\ RetryOf(id)[2] = id[2] + 1
    BY RetryType
  <1>2. Earlier(id, RetryOf(id))
    BY <1>1, BoundsType DEF Earlier
  <1> SUFFICES ASSUME NEW other \in RunId, Earlier(id, other)
               PROVE  ~Stored(other) /\ ~Claimed(other)
    OBVIOUS
  <1>3. other = RetryOf(id) \/ Earlier(RetryOf(id), other)
    BY <1>1, BoundsType DEF Earlier
  <1>4. ~Stored(other)
    BY <1>1, <1>2, <1>3 DEF GuardianInv, HistoryInv
  <1> QED  BY <1>4 DEF GuardianInv, HistoryInv

LEMMA GuardianRetryCreate ==
    ASSUME GuardianTypes, GuardianInv, NEW r \in Requests, RetryCreate(r)
    PROVE  GuardianInv'
  <1>1. PICK src \in RunId, sha \in Shas : src = requests[r].id /\ sha = requests[r].sha /\ src[2] < MaxAttempts
    BY DEF RetryCreate, GuardianTypes, TypeOK
  <1>2. PICK id \in RunId : id = RetryOf(src) /\ id[1] = src[1] /\ id[2] = src[2] + 1
    BY <1>1, RetryType
  <1>3. /\ requests[r].pc = "read" /\ ~Holding(r) /\ src[1] <= created
        /\ UNCHANGED <<hook, created, unrecorded, queue, worker>>
    BY <1>1 DEF RetryCreate, Holding, GuardianInv, HistoryInv
  <1>4. CASE ~(Stored(src) /\ runs[src].status = "ERROR" /\ ~Stored(id))
    <2>1. UNCHANGED <<runs, clock>> /\ SetRequest(r, "other", id, sha)
      BY <1>1, <1>2, <1>4 DEF RetryCreate, Mine, Stored
    <2>2. /\ requests'[r].pc = "other" /\ requests'[r].id = id
          /\ \A other \in Requests : other # r => requests'[other] = requests[other]
      BY <2>1, RequestSet
    <2>3. SameNodes /\ NoNewHolder /\ HoldersStay
      BY <1>3, <2>1, <2>2 DEF SameNodes, Stored, NoNewHolder, HoldersStay, HookHolds, Holding
    <2> QED  BY <1>2, <1>3, <2>1, <2>2, <2>3, Elsewhere DEF GuardianInv, HistoryInv
  <1>5. CASE Stored(src) /\ runs[src].status = "ERROR" /\ ~Stored(id)
    <2>1. /\ clock' = clock + 1 /\ runs' = [runs EXCEPT ![id] = NewRun(sha, 0)]
          /\ SetRequest(r, "mine", id, sha)
      BY <1>1, <1>2, <1>5 DEF RetryCreate, Mine
    <2>2. /\ requests'[r].pc = "mine" /\ requests'[r].id = id
          /\ \A other \in Requests : other # r => requests'[other] = requests[other]
      BY <2>1, RequestSet
    <2>3. runs \in [RunId -> RunType] /\ clock \in Nat /\ created \in Nat
      BY DEF GuardianTypes, TypeOK, RunType
    <2>4. /\ runs'[id].status = "QUEUED" /\ runs'[id].at = clock'
          /\ \A other \in RunId : other # id => runs'[other] = runs[other]
      BY <2>1, <2>3 DEF NewRun
    <2>5. Stored(id)' /\ \A other \in RunId : other # id => (Stored(other)' <=> Stored(other))
      BY <2>4 DEF Stored
    <2>6. \A other \in RunId : Earlier(src, other) => ~Stored(other) /\ ~Claimed(other)
      BY <1>1, <1>2, <1>5, NoLaterAttempt
    <2>7. Earlier(src, id) /\ \A other \in RunId : Earlier(id, other) => Earlier(src, other)
      BY <1>2, BoundsType DEF Earlier
    <2>8. ~AboutToQueue(id) /\ InQueue(id) = {} /\ ~OnIt(id)
      BY <2>6, <2>7 DEF Claimed
    <2>9. /\ \A other : other # id => (AboutToQueue(other)' <=> AboutToQueue(other))
          /\ AboutToQueue(id)'
          /\ \A other : InQueue(other)' = InQueue(other) /\ (OnIt(other)' <=> OnIt(other))
      BY <1>3, <2>2 DEF AboutToQueue, Holding, InQueue, OnIt
    <2>10. \A other : other # id => (Claimed(other)' <=> Claimed(other))
      BY <2>9 DEF Claimed
    <2>11. HistoryInv'
      <3>1. ASSUME NEW run \in RunId
            PROVE  /\ Stored(run)' => run[1] <= created' /\ runs'[run].at <= clock'
                   /\ Claimed(run)' => run[1] <= created'
        <4>1. runs[run].at \in Nat
          BY <2>3 DEF RunType
        <4> QED  BY <1>2, <1>3, <2>1, <2>3, <2>4, <2>5, <2>10, <4>1 DEF GuardianInv, HistoryInv
      <3>2. \A q \in Requests : requests'[q].pc # "idle" => requests'[q].id[1] <= created'
        BY <1>2, <1>3, <2>2 DEF GuardianInv, HistoryInv
      <3>3. ASSUME NEW run \in RunId, NEW other \in RunId, Earlier(run, other), Stored(run)'
            PROVE  /\ Stored(other)' => runs'[run].at < runs'[other].at
                   /\ Claimed(other)' => Stored(other)'
                   /\ \A last \in RunId : Earlier(other, last) /\ Stored(last)' => Stored(other)'
        <4>1. CASE run = id
          <5>1. Earlier(src, other) /\ other # id
            BY <2>7, <3>3, <4>1, BoundsType DEF Earlier
          <5>2. ASSUME NEW last \in RunId, Earlier(other, last)
                PROVE  ~Stored(last)'
            <6>1. Earlier(src, last) /\ last # id
              BY <2>7, <3>3, <4>1, <5>2, BoundsType DEF Earlier
            <6> QED  BY <2>5, <2>6, <6>1
          <5> QED  BY <2>5, <2>6, <2>10, <5>1, <5>2
        <4>2. CASE run # id /\ other = id
          <5>1. runs[run].at <= clock /\ runs[run].at \in Nat
            BY <2>3, <2>5, <3>3, <4>2 DEF GuardianInv, HistoryInv, RunType
          <5> QED  BY <2>1, <2>3, <2>4, <2>5, <4>2, <5>1
        <4>3. CASE run # id /\ other # id
          <5>1. Stored(run) /\ runs'[run] = runs[run] /\ runs'[other] = runs[other]
            BY <2>4, <2>5, <3>3, <4>3
          <5>2. ASSUME Earlier(other, id)
                PROVE  Stored(other)
            <6>1. other = src \/ Earlier(other, src)
              BY <1>2, <5>2, BoundsType DEF Earlier
            <6> QED  BY <1>5, <3>3, <5>1, <6>1 DEF GuardianInv, HistoryInv
          <5> QED  BY <2>5, <2>10, <3>3, <4>3, <5>1, <5>2 DEF GuardianInv, HistoryInv
        <4> QED  BY <4>1, <4>2, <4>3
      <3> QED  BY <3>1, <3>2, <3>3 DEF HistoryInv
    <2>12. UniqueInv'
      <3>1. \A q \in Requests : Holding(q) => requests[q].id # id
        BY <2>8 DEF AboutToQueue, Holding
      <3>2. HookHolds => hook.id # id
        BY <2>8 DEF AboutToQueue, HookHolds
      <3>3. \A q \in Requests : q # r => (Holding(q)' <=> Holding(q)) /\ requests'[q].id = requests[q].id
        BY <2>2 DEF Holding
      <3> QED  BY <1>3, <2>2, <2>8, <2>9, <3>1, <3>2, <3>3 DEF GuardianInv, UniqueInv, HookHolds
    <2>13. StatusInv'
      <3>1. \A other : other # id => (Waiting(other)' <=> Waiting(other))
        BY <1>3, <2>9 DEF Waiting
      <3>2. Claimed(id)'
        BY <2>9 DEF Claimed
      <3>3. ASSUME NEW run \in RunId
            PROVE  /\ Waiting(run)' => runs'[run].status \in {"ABSENT", "QUEUED"}
                   /\ runs'[run].status = "RUNNING" => OnIt(run)' \/ run \in unrecorded
                   /\ runs'[run].status = "QUEUED" => Claimed(run)' \/ run \in unrecorded
        BY <1>3, <2>4, <2>9, <2>10, <3>1, <3>2 DEF GuardianInv, StatusInv
      <3>4. worker.pc # "idle" => worker' = worker /\ runs'[worker.id] = runs[worker.id]
        BY <1>3, <2>4, <2>8 DEF OnIt, GuardianTypes
      <3> QED  BY <1>3, <3>3, <3>4 DEF GuardianInv, StatusInv, Reviewing
    <2> QED  BY <2>11, <2>12, <2>13 DEF GuardianInv
  <1> QED  BY <1>4, <1>5

LEMMA GuardianRetryPrune ==
    ASSUME GuardianTypes, GuardianInv, NEW r \in Requests, RetryPrune(r)
    PROVE  GuardianInv'
  <1>1. /\ prune_guardian_runs
        /\ UNCHANGED <<hook, created, clock, unrecorded, queue, worker>>
    BY DEF RetryPrune
  <1>2. /\ \A other \in Requests : other # r => requests'[other] = requests[other]
        /\ \/ requests'[r].pc = "stored" /\ requests'[r].id = requests[r].id /\ requests[r].pc = "mine"
           \/ requests'[r].pc = "idle" /\ requests[r].pc = "other"
    <2>1. CASE requests[r].pc = "mine" /\ requests' = [requests EXCEPT ![r].pc = "stored"]
      BY <2>1 DEF GuardianTypes, TypeOK
    <2>2. CASE requests[r].pc = "other" /\ EndRequest(r)
      BY <2>2, RequestEnds
    <2> QED  BY <2>1, <2>2 DEF RetryPrune
  <1>3. NoNewHolder /\ HoldersStay
    BY <1>1, <1>2 DEF NoNewHolder, HoldersStay, HookHolds, Holding
  <1>4. \A other \in Requests : requests'[other].pc # "idle" =>
                requests[other].pc # "idle" /\ requests'[other].id = requests[other].id
    BY <1>2
  <1> QED  BY <1>1, <1>3, <1>4, GuardianPrune

LEMMA GuardianRetryEnqueue ==
    ASSUME GuardianTypes, GuardianInv, NEW r \in Requests, RetryEnqueue(r)
    PROVE  GuardianInv'
  <1> DEFINE job == [id |-> requests[r].id, sha |-> requests[r].sha]
  <1>1. /\ Holding(r) /\ queue' = Append(queue, job)
        /\ requests'[r].pc = "idle"
        /\ \A other \in Requests : other # r => requests'[other] = requests[other]
        /\ UNCHANGED <<hook, runs, created, clock, unrecorded, worker>>
    BY RequestEnds DEF RetryEnqueue, Holding, nodeVars
  <1>2. job \in Job
    BY <1>1 DEF GuardianTypes, TypeOK, Holding, Job
  <1>3. job.id = requests[r].id
    OBVIOUS
  <1> HIDE DEF job
  <1>4. /\ InQueue(job.id) = {} /\ ~OnIt(job.id) /\ AboutToQueue(job.id)
        /\ \A other \in Requests : Holding(other) /\ other # r => requests[other].id # job.id
        /\ HookHolds => hook.id # job.id
    BY <1>1, <1>3 DEF GuardianInv, UniqueInv, HookHolds, AboutToQueue, Holding
  <1>5. \A id : AboutToQueue(id) /\ id # job.id => AboutToQueue(id)'
    BY <1>1, <1>3 DEF AboutToQueue, Holding
  <1>6. \A other \in Requests : Holding(other)' =>
            Holding(other) /\ requests'[other].id = requests[other].id /\ requests[other].id # job.id
    BY <1>1, <1>4 DEF Holding
  <1>7. HookHolds' => HookHolds /\ hook'.id = hook.id /\ hook.id # job.id
    BY <1>1, <1>4 DEF HookHolds
  <1>8. \A other \in Requests : requests'[other].pc # "idle" =>
            requests[other].pc # "idle" /\ requests'[other].id = requests[other].id
    BY <1>1
  <1> QED  BY <1>1, <1>2, <1>4, <1>5, <1>6, <1>7, <1>8, Moved

LEMMA GuardianRetryEnds ==
    ASSUME GuardianTypes, GuardianInv, NEW r \in Requests, Holding(r), EndRequest(r),
           RecordError(requests[r].id, requests[r].sha) \/ Lost(requests[r].id),
           UNCHANGED <<hook, created, clock, queue, worker>>
    PROVE  GuardianInv'
  <1>1. PICK id \in RunId : id = requests[r].id
    BY DEF Holding, GuardianTypes
  <1>2. /\ requests'[r].pc = "idle" /\ requests[r].sha \in Shas
        /\ \A other \in Requests : other # r => requests'[other] = requests[other]
    BY RequestEnds DEF GuardianTypes, TypeOK
  <1>3. /\ SameNodes /\ unrecorded \subseteq unrecorded'
        /\ runs'[id].status \notin {"QUEUED", "RUNNING"} \/ id \in unrecorded'
        /\ \A other \in RunId : other # id => runs'[other].status = runs[other].status
    BY <1>1, <1>2, RecordKeeps
  <1>4. /\ NoNewHolder
        /\ \A other : other # id /\ Claimed(other) => Claimed(other)'
        /\ \A other : OnIt(other) => OnIt(other)'
    BY <1>1, <1>2 DEF NoNewHolder, HookHolds, Holding, Claimed, AboutToQueue, InQueue, OnIt
  <1>5. ~Waiting(id)' /\ ~OnIt(id)
    BY <1>1, <1>2 DEF GuardianInv, UniqueInv, Waiting, AboutToQueue, HookHolds, Holding, InQueue, OnIt
  <1>6. worker.pc # "idle" => worker.id # id
    BY <1>5 DEF OnIt
  <1>7. \A other \in Requests : requests'[other].pc # "idle" =>
            requests[other].pc # "idle" /\ requests'[other].id = requests[other].id
    BY <1>2
  <1> QED  BY <1>2, <1>3, <1>4, <1>5, <1>6, <1>7, Dropped

LEMMA GuardianRetryFails ==
    ASSUME GuardianTypes, GuardianInv, NEW r \in Requests, RetryFails(r) \/ RetryEnqueueFails(r)
    PROVE  GuardianInv'
  <1>0. UNCHANGED <<hook, created, clock, queue, worker>> /\ EndRequest(r)
    BY DEF RetryFails, RetryEnqueueFails
  <1>1. CASE RetryFails(r) /\ ~Holding(r)
    <2>1. /\ UNCHANGED <<runs, unrecorded>> /\ requests'[r].pc = "idle"
          /\ \A other \in Requests : other # r => requests'[other] = requests[other]
      BY <1>0, <1>1, RequestEnds DEF RetryFails, Holding
    <2>2. SameNodes /\ NoNewHolder /\ HoldersStay
      BY <1>0, <1>1, <2>1 DEF SameNodes, Stored, NoNewHolder, HoldersStay, HookHolds, Holding
    <2> QED  BY <1>0, <2>1, <2>2, Elsewhere DEF GuardianInv, HistoryInv
  <1>2. CASE RetryFails(r) /\ Holding(r)
    BY <1>0, <1>2, GuardianRetryEnds DEF RetryFails, Holding
  <1>3. CASE RetryEnqueueFails(r)
    BY <1>0, <1>3, GuardianRetryEnds DEF RetryEnqueueFails, Holding
  <1> QED  BY <1>1, <1>2, <1>3

-----------------------------------------------------------------------------
(* The worker.                                                             *)

(* What a step of the worker leaves alone.                                 *)
WorkerAlone == UNCHANGED <<hook, created, clock, requests>>

LEMMA GuardianTake ==
    ASSUME GuardianTypes, GuardianInv, TakeReview
    PROVE  GuardianInv'
  <1>0. queue \in Seq(Job) /\ queue # <<>> /\ queue' = Tail(queue)
    BY DEF TakeReview, GuardianTypes, TypeOK
  <1>1. /\ worker.pc = "idle" /\ worker'.pc = "begin" /\ worker'.id = queue[1].id
        /\ 1 \in DOMAIN queue
        /\ UNCHANGED <<hook, runs, created, clock, requests, unrecorded>>
    BY <1>0, Taken DEF TakeReview, nodeVars, apiVars
  <1>2. /\ \A i \in DOMAIN queue' : i + 1 \in DOMAIN queue /\ queue'[i] = queue[i + 1]
        /\ \A id : InQueue(id) # {} <=> InQueue(id)' # {} \/ id = queue[1].id
    BY <1>0, Taken
  <1>3. /\ \A id : AboutToQueue(id)' <=> AboutToQueue(id)
        /\ \A id : ~OnIt(id) /\ (OnIt(id)' <=> id = queue[1].id)
    BY <1>1 DEF AboutToQueue, OnIt
  <1>4. \A id : Claimed(id)' <=> Claimed(id)
    BY <1>2, <1>3 DEF Claimed
  <1>5. \A id : Waiting(id)' => Waiting(id)
    BY <1>1, <1>2, <1>3 DEF Waiting
  <1>6. SameNodes
    BY <1>1 DEF SameNodes, Stored
  <1>7. HistoryInv'
    BY <1>1, <1>4, <1>6, HistoryKept DEF GuardianInv
  <1>8. UniqueInv'
    <2>1. \A i \in DOMAIN queue' : i + 1 # 1 /\ i \in Int
      BY <1>0
    <2>2. /\ \A i, j \in DOMAIN queue' : queue'[i].id = queue'[j].id => i = j
          /\ \A i \in DOMAIN queue' : queue'[i].id # queue[1].id
      BY <1>1, <1>2, <2>1 DEF GuardianInv, UniqueInv
    <2>3. ASSUME NEW id, InQueue(id) = {}
          PROVE  InQueue(id)' = {} /\ ~OnIt(id)'
      BY <1>2, <1>3, <2>3
    <2> QED  BY <1>1, <1>3, <2>2, <2>3 DEF GuardianInv, UniqueInv, Holding
  <1>9. StatusInv'
    BY <1>1, <1>3, <1>4, <1>5 DEF GuardianInv, StatusInv, Reviewing
  <1> QED  BY <1>7, <1>8, <1>9 DEF GuardianInv

(* The worker goes on with its run, which may change status.               *)
LEMMA Worked ==
    ASSUME GuardianTypes, GuardianInv, SameNodes, WorkerAlone, queue' = queue, unrecorded' = unrecorded,
           worker.pc # "idle", worker'.pc \notin {"idle", "begin"}, worker'.id = worker.id,
           \A other \in RunId : other # worker.id => runs'[other].status = runs[other].status,
           worker'.pc \in Reviewing \ {"complete"} => runs'[worker.id].status \in {"ABSENT", "RUNNING"},
           worker'.pc = "complete" => runs'[worker.id].status \in {"ABSENT", "COMPLETE"},
           worker'.pc \in {"failing", "failed"} => runs'[worker.id].status \in {"ABSENT", "RUNNING", "COMPLETE"}
    PROVE  GuardianInv'
  <1>1. NoNewHolder /\ HoldersStay
    BY DEF WorkerAlone, NoNewHolder, HoldersStay, HookHolds, Holding
  <1>2. \A id : (Claimed(id)' <=> Claimed(id)) /\ (OnIt(id)' <=> OnIt(id))
    BY <1>1, ClaimsShrink, ClaimsStay DEF OnIt
  <1>3. \A id : Waiting(id)' => Waiting(id) /\ id # worker.id
    <2>1. ~AboutToQueue(worker.id) /\ InQueue(worker.id) = {}
      BY DEF GuardianInv, UniqueInv, AboutToQueue, HookHolds, Holding, InQueue, OnIt
    <2>2. \A id : (AboutToQueue(id)' => AboutToQueue(id)) /\ InQueue(id)' = InQueue(id)
      BY <1>1, ClaimsShrink
    <2> QED  BY <2>1, <2>2 DEF Waiting
  <1>4. HistoryInv' /\ UniqueInv'
    BY <1>1, <1>2, HistoryKept, UniqueKept DEF GuardianInv, WorkerAlone
  <1>5. worker.id \in RunId /\ OnIt(worker.id) /\ Claimed(worker.id)
    BY DEF GuardianTypes, OnIt, Claimed
  <1>6. ASSUME NEW id \in RunId
        PROVE  /\ Waiting(id)' => runs'[id].status \in {"ABSENT", "QUEUED"}
               /\ runs'[id].status = "RUNNING" => OnIt(id)' \/ id \in unrecorded
               /\ runs'[id].status = "QUEUED" => Claimed(id)' \/ id \in unrecorded
    BY <1>2, <1>3, <1>5 DEF GuardianInv, StatusInv, WorkerAlone
  <1>7. StatusInv'
    BY <1>6 DEF StatusInv
  <1> QED  BY <1>4, <1>7 DEF GuardianInv

(* The worker is done with its run.                                        *)
LEMMA WorkEnds ==
    ASSUME GuardianTypes, GuardianInv, SameNodes, WorkerAlone, queue' = queue,
           unrecorded \subseteq unrecorded', worker.pc # "idle", worker'.pc = "idle",
           \A other \in RunId : other # worker.id => runs'[other].status = runs[other].status,
           runs'[worker.id].status \notin {"QUEUED", "RUNNING"} \/ worker.id \in unrecorded'
    PROVE  GuardianInv'
  <1>1. PICK id \in RunId : id = worker.id
    BY DEF GuardianTypes
  <1>2. NoNewHolder
    BY DEF WorkerAlone, NoNewHolder, HookHolds, Holding
  <1>3. ~Waiting(id)'
    <2>1. ~AboutToQueue(id) /\ InQueue(id) = {}
      BY <1>1 DEF GuardianInv, UniqueInv, AboutToQueue, HookHolds, Holding, InQueue, OnIt
    <2>2. ~AboutToQueue(id)' /\ InQueue(id)' = {}
      BY <1>2, <2>1, ClaimsShrink
    <2> QED  BY <2>2 DEF Waiting
  <1>4. \A other : other # id => ~OnIt(other) /\ (Claimed(other) => Claimed(other)')
    BY <1>1 DEF WorkerAlone, OnIt, Claimed, AboutToQueue, InQueue
  <1>5. \A r \in Requests : requests'[r].pc # "idle" =>
            requests[r].pc # "idle" /\ requests'[r].id = requests[r].id
    BY DEF WorkerAlone
  <1> QED  BY <1>1, <1>2, <1>3, <1>4, <1>5, Dropped

LEMMA GuardianWorker ==
    ASSUME GuardianTypes, GuardianInv, WorkerStep \/ WorkHorseKilled
    PROVE  GuardianInv'
  <1> USE DEF ghVars, nodeVars, apiVars, pubVars, WorkerAlone
  <1>0. runs \in [RunId -> RunType] /\ worker \in WorkerType
    BY DEF GuardianTypes, TypeOK, RunType, WorkerType
  <1>1. worker.pc # "idle" => worker.id \in RunId /\ worker.sha \in Shas
    BY <1>0 DEF GuardianTypes, WorkerType
  <1>2. \A pc : Goto(pc) => worker'.pc = pc /\ worker'.id = worker.id
    BY <1>0 DEF Goto, WorkerType
  <1>3. CASE TakeReview
    BY <1>3, GuardianTake
  <1>4. ASSUME UNCHANGED <<runs, unrecorded>>, WorkerAlone, queue' = queue, worker.pc # "idle",
               worker'.pc \notin {"idle", "begin"}, worker'.id = worker.id,
               \/ worker.pc \in Reviewing \ {"complete"} /\ worker'.pc \in Reviewing \ {"complete"}
               \/ worker.pc \in Reviewing /\ worker'.pc \in {"failing", "failed"}
               \/ worker.pc \in {"failing", "failed"} /\ worker'.pc \in {"failed", "raised"}
               \/ worker'.pc = "raised"
        PROVE  GuardianInv'
    <2>1. SameNodes
      BY <1>4 DEF SameNodes, Stored
    <2> QED  BY <1>4, <2>1, Worked DEF GuardianInv, StatusInv, Reviewing
  <1>5. CASE NotReady
    BY <1>2, <1>4, <1>5 DEF NotReady
  <1>6. CASE Fetch \/ Analyze
    BY <1>0, <1>4, <1>6 DEF Fetch, Analyze, Reviewing, WorkerType
  <1>7. CASE Pending \/ Comment \/ FinalStatus
    BY <1>2, <1>4, <1>7 DEF Pending, Comment, FinalStatus, Reviewing
  <1>8. CASE ReviewFails
    BY <1>2, <1>4, <1>8 DEF ReviewFails, Reviewing
  <1>9. CASE ErrorStatus
    BY <1>2, <1>4, <1>9 DEF ErrorStatus
  <1>10. ASSUME NEW status \in RunStatus \ {"ABSENT"}, update_guardian_run(worker.id, status, worker.sha),
                worker.pc # "idle", WorkerAlone
         PROVE  /\ SameNodes
                /\ \A other \in RunId : other # worker.id => runs'[other].status = runs[other].status
                /\ runs'[worker.id].status \in {"ABSENT", status}
    <2>1. /\ SameNodes
          /\ \A other \in RunId : other # worker.id => runs'[other] = runs[other]
          /\ runs'[worker.id].status = IF Stored(worker.id) THEN status ELSE "ABSENT"
      BY <1>0, <1>1, <1>10, UpdateKeeps
    <2> QED  BY <2>1
  <1>11. CASE BeginReview
    <2>1. "RUNNING" \in RunStatus \ {"ABSENT"} /\ Goto("running") /\ worker.pc # "idle"
      BY <1>11 DEF BeginReview, RunStatus
    <2> QED  BY <1>2, <1>10, <1>11, <2>1, Worked DEF BeginReview
  <1>12. CASE CompleteRun
    <2>1. "COMPLETE" \in RunStatus \ {"ABSENT"} /\ Goto("complete") /\ worker.pc # "idle"
      BY <1>12 DEF CompleteRun, RunStatus
    <2> QED  BY <1>2, <1>10, <1>12, <2>1, Worked DEF CompleteRun, CompletedSha
  <1>13. CASE ErrorRun
    <2>1. "ERROR" \in RunStatus \ {"ABSENT"} /\ Goto("raised") /\ worker.pc # "idle"
      BY <1>13 DEF ErrorRun, RunStatus
    <2>2. CASE update_guardian_run(worker.id, "ERROR", worker.sha)
      BY <1>2, <1>10, <1>13, <2>1, <2>2, Worked DEF ErrorRun, Reviewing
    <2>3. CASE UNCHANGED runs
      BY <1>2, <1>4, <1>13, <2>1, <2>3 DEF ErrorRun
    <2> QED  BY <1>13, <2>2, <2>3 DEF ErrorRun
  <1>14. CASE ReviewDone
    <2>1. runs'[worker.id].status \notin {"QUEUED", "RUNNING"}
      BY <1>14 DEF ReviewDone, GuardianInv, StatusInv
    <2>2. SameNodes
      BY <1>14 DEF ReviewDone, SameNodes, Stored
    <2> QED  BY <1>14, <2>1, <2>2, IdleTypes, WorkEnds DEF ReviewDone
  <1>15. CASE FailureCallback \/ WorkHorseKilled
    <2>1. JobFailed /\ worker.pc # "idle"
      BY <1>15 DEF FailureCallback, WorkHorseKilled
    <2>2. CASE Lost(worker.id)
      <3>1. SameNodes /\ unrecorded \subseteq unrecorded' /\ worker.id \in unrecorded' /\ runs' = runs
        BY <2>1, <2>2 DEF Lost, SameNodes, Stored, JobFailed
      <3> QED  BY <2>1, <3>1, IdleTypes, WorkEnds DEF JobFailed
    <2>3. CASE fail_guardian_run_if_active(worker.id) /\ UNCHANGED unrecorded
      <3>1. /\ SameNodes
            /\ \A other \in RunId : other # worker.id => runs'[other] = runs[other]
            /\ runs'[worker.id].status = IF runs[worker.id].status \in {"QUEUED", "RUNNING"} THEN "ERROR"
                                         ELSE runs[worker.id].status
        BY <1>0, <1>1, <2>1, <2>3, FailKeeps DEF JobFailed
      <3> QED  BY <2>1, <2>3, <3>1, IdleTypes, WorkEnds DEF JobFailed
    <2> QED  BY <2>1, <2>2, <2>3 DEF JobFailed
  <1> QED  BY <1>3, <1>5, <1>6, <1>7, <1>8, <1>9, <1>11, <1>12, <1>13, <1>14, <1>15 DEF WorkerStep

LEMMA GuardianNext == GuardianTypes /\ GuardianInv /\ [Next]_vars => GuardianInv'
  <1> SUFFICES ASSUME GuardianTypes, GuardianInv, [Next]_vars PROVE GuardianInv'
    OBVIOUS
  <1>1. CASE UNCHANGED vars
    <2>1. UNCHANGED <<hook, runs, created, clock, requests, unrecorded, queue, worker>>
      BY <1>1 DEF vars, ghVars, nodeVars, apiVars, pubVars
    <2>2. SameNodes /\ NoNewHolder /\ HoldersStay
      BY <2>1 DEF SameNodes, Stored, NoNewHolder, HoldersStay, HookHolds, Holding
    <2> QED  BY <2>1, <2>2, Elsewhere DEF GuardianInv, HistoryInv
  <1>2. CASE HookStep
    BY <1>2, GuardianHookCreate, GuardianHookPrune, GuardianHookEnqueue, GuardianHookFails DEF HookStep
  <1>3. ASSUME NEW r \in Requests, RetryStep(r)
        PROVE  GuardianInv'
    BY <1>3, GuardianRetryCreate, GuardianRetryPrune, GuardianRetryEnqueue, GuardianRetryFails
       DEF RetryStep
  <1> QED  BY <1>1, <1>2, <1>3, GuardianElsewhere, GuardianApiRestart, GuardianWorker DEF Next

LEMMA GuardianHolds == Spec => [](GuardianTypes /\ GuardianInv)
  BY TypesInit, TypesNext, GuardianInit, GuardianNext, PTL DEF Spec

-----------------------------------------------------------------------------
(* What the invariant gives.                                               *)

LEMMA AtMostOne ==
    ASSUME NEW S, NEW x, S \subseteq {x}
    PROVE  Cardinality(S) \in 0..1 /\ (Cardinality(S) = 0 <=> S = {})
  <1>1. S = {} \/ S = {x}
    OBVIOUS
  <1> QED  BY <1>1, FS_EmptySet, FS_Singleton

(* "Repeated clicks reuse the same queued retry instead of creating        *)
(* concurrent jobs": whoever clicks, retries and redelivers, however often *)
(* and in whatever order, a run never has two jobs, two handlers that      *)
(* queue one, or a second job while it is reviewed.                        *)
THEOREM AtMostOneJobHolds == Spec => []AtMostOneJob
  <1>1. GuardianInv => AtMostOneJob
    <2> SUFFICES ASSUME GuardianInv, NEW id \in RunId
                 PROVE  Cardinality(InQueue(id)) + (IF OnIt(id) THEN 1 ELSE 0)
                          + Cardinality({r \in Requests : requests[r].pc \in {"mine", "stored"}
                                                          /\ requests[r].id = id}) <= 1
      BY DEF AtMostOneJob
    <2> DEFINE H == {r \in Requests : requests[r].pc \in {"mine", "stored"} /\ requests[r].id = id}
    <2>1. Cardinality(InQueue(id)) \in 0..1 /\ (Cardinality(InQueue(id)) = 0 <=> InQueue(id) = {})
      <3>1. \E i : InQueue(id) \subseteq {i}
        BY DEF GuardianInv, UniqueInv, InQueue
      <3> QED  BY <3>1, AtMostOne
    <2>2. Cardinality(H) \in 0..1 /\ (Cardinality(H) = 0 <=> H = {})
      <3>1. \E r : H \subseteq {r}
        BY DEF GuardianInv, UniqueInv, Holding
      <3> QED  BY <3>1, AtMostOne
    <2>3. H # {} => InQueue(id) = {} /\ ~OnIt(id)
      BY DEF GuardianInv, UniqueInv, Holding
    <2>4. OnIt(id) => InQueue(id) = {}
      BY DEF GuardianInv, UniqueInv, InQueue
    <2> HIDE DEF H
    <2>5. Cardinality(InQueue(id)) + (IF OnIt(id) THEN 1 ELSE 0) + Cardinality(H) <= 1
      BY <2>1, <2>2, <2>3, <2>4
    <2> QED  BY <2>5 DEF H
  <1> QED  BY <1>1, GuardianHolds, PTL

(* A run shown as queued has a job, or a handler that is about to queue    *)
(* it, and one shown as running is the one the worker reviews, however     *)
(* Redis, the database, GitHub and the processes fail; but for the runs    *)
(* whose own failure could not be written.                                 *)
THEOREM RunHasJobHolds == Spec => []RunHasJob
  <1>1. GuardianInv => RunHasJob
    BY DEF GuardianInv, StatusInv, RunHasJob, Claimed
  <1> QED  BY <1>1, GuardianHolds, PTL

-----------------------------------------------------------------------------
(* What a step does to the nodes: one is created, one changes its status,  *)
(* or some are removed.                                                    *)

CreatedRun(id, d) ==
    /\ id \in RunId /\ ~Stored(id)
    /\ runs'[id].status = "QUEUED" /\ runs'[id].delivery = d /\ runs'[id].at = clock + 1
    /\ clock' = clock + 1
    /\ \A other \in RunId \ {id} : runs'[other] = runs[other]

Became(id, from, to) ==
    /\ id \in RunId /\ runs[id].status \in from \ {"ABSENT"}
    /\ runs'[id].status = to /\ runs'[id].delivery = runs[id].delivery /\ runs'[id].at = runs[id].at
    /\ \A other \in RunId \ {id} : runs'[other] = runs[other]

(* No later attempt of the same run is there.                              *)
Latest(id) == id[1] > created \/ \E src \in RunId : Stored(src) /\ src[2] < MaxAttempts /\ id = RetryOf(src)

Pruned == \A id \in RunId : runs'[id] \in {runs[id], NoRun}

Unended == {"QUEUED", "RUNNING", "COMPLETE"}

LEMMA HookCreates ==
    ASSUME GuardianTypes, GuardianInv, HookCreate
    PROVE  CreatedRun(hook.id, hook.delivery) /\ Latest(hook.id)
  <1>1. hook.id \in RunId /\ hook.id[1] = created + 1 /\ created \in Nat
    BY GuardianBounds DEF GuardianTypes, TypeOK, HookCreate
  <1>2. ~Stored(hook.id)
    BY <1>1 DEF GuardianInv, HistoryInv
  <1> QED  BY <1>1, <1>2 DEF GuardianTypes, TypeOK, HookCreate, CreatedRun, NewRun, Latest

LEMMA RetryCreates ==
    ASSUME GuardianTypes, NEW r \in Requests, RetryCreate(r)
    PROVE  \/ runs' = runs /\ clock' = clock
           \/ CreatedRun(RetryOf(requests[r].id), 0) /\ Latest(RetryOf(requests[r].id))
  <1> DEFINE id == requests[r].id
  <1>1. id \in RunId /\ id[2] < MaxAttempts
    BY DEF GuardianTypes, RetryCreate
  <1>2. RetryOf(id) \in RunId
    BY <1>1, RetryType
  <1>3. CASE runs[id].status = "ERROR" /\ ~Stored(RetryOf(id))
    <2>1. clock' = clock + 1 /\ runs' = [runs EXCEPT ![RetryOf(id)] = NewRun(requests[r].sha, 0)]
      BY <1>3 DEF RetryCreate
    <2>2. CreatedRun(RetryOf(id), 0)
      BY <1>2, <1>3, <2>1 DEF GuardianTypes, TypeOK, CreatedRun, NewRun
    <2>3. Latest(RetryOf(id))
      BY <1>1, <1>3 DEF Latest, Stored
    <2> QED  BY <2>2, <2>3
  <1>4. CASE ~(runs[id].status = "ERROR" /\ ~Stored(RetryOf(id)))
    BY <1>4 DEF RetryCreate
  <1> QED  BY <1>3, <1>4

LEMMA Prunes ==
    ASSUME prune_guardian_runs
    PROVE  Pruned
  BY DEF prune_guardian_runs, Pruned

LEMMA Updates ==
    ASSUME GuardianTypes, NEW id \in RunId, NEW status \in RunStatus \ {"ABSENT"}, NEW sha \in Shas,
           update_guardian_run(id, status, sha), NEW from, runs[id].status \in from
    PROVE  \/ runs' = runs /\ ~Stored(id)
           \/ Became(id, from, status) /\ runs'[id].sha = sha
  BY DEF GuardianTypes, TypeOK, update_guardian_run, Became, Stored

LEMMA Records ==
    ASSUME GuardianTypes, NEW id \in RunId, NEW sha \in Shas, runs[id].status \in {"ABSENT", "QUEUED"},
           RecordError(id, sha) \/ Lost(id)
    PROVE  \/ runs' = runs /\ (~Stored(id) \/ id \in unrecorded')
           \/ Became(id, {"QUEUED"}, "ERROR")
  <1>1. CASE Lost(id)
    BY <1>1 DEF Lost
  <1>2. CASE update_guardian_run(id, "ERROR", sha)
    <2>1. \/ runs' = runs /\ ~Stored(id)
          \/ Became(id, {"ABSENT", "QUEUED"}, "ERROR")
      BY <1>2, Updates DEF RunStatus
    <2> QED  BY <2>1 DEF Became
  <1> QED  BY <1>1, <1>2 DEF RecordError

LEMMA HookWrites ==
    ASSUME GuardianTypes, GuardianInv, HookFails \/ HookEnqueueFails
    PROVE  \/ runs' = runs /\ (hook.pc = "bound" \/ ~Stored(hook.id) \/ hook.id \in unrecorded')
           \/ Became(hook.id, {"QUEUED"}, "ERROR")
  <1>1. CASE HookFails /\ hook.pc = "bound"
    BY <1>1 DEF HookFails
  <1>2. CASE (HookFails /\ hook.pc = "created") \/ HookEnqueueFails
    <2>1. hook.id \in RunId /\ hook.sha \in Shas
      BY <1>2 DEF GuardianTypes, TypeOK, HookFails, HookEnqueueFails
    <2>2. runs[hook.id].status \in {"ABSENT", "QUEUED"}
      BY <1>2, <2>1 DEF HookEnqueueFails, GuardianInv, StatusInv, Waiting, AboutToQueue
    <2>3. RecordError(hook.id, hook.sha) \/ Lost(hook.id)
      BY <1>2 DEF HookFails, HookEnqueueFails
    <2> QED  BY <2>1, <2>2, <2>3, Records
  <1> QED  BY <1>1, <1>2 DEF HookFails

LEMMA RetryWrites ==
    ASSUME GuardianTypes, GuardianInv, NEW r \in Requests, RetryFails(r) \/ RetryEnqueueFails(r)
    PROVE  runs' = runs \/ Became(requests[r].id, {"QUEUED"}, "ERROR")
  <1>1. CASE RetryFails(r)
    BY <1>1 DEF RetryFails, Lost
  <1>2. CASE RetryEnqueueFails(r)
    <2>1. requests[r].id \in RunId /\ requests[r].sha \in Shas
      BY <1>2 DEF GuardianTypes, TypeOK, RetryEnqueueFails
    <2>2. runs[requests[r].id].status \in {"ABSENT", "QUEUED"}
      BY <1>2, <2>1 DEF RetryEnqueueFails, GuardianInv, StatusInv, Waiting, AboutToQueue
    <2> QED  BY <1>2, <2>1, <2>2, Records DEF RetryEnqueueFails
  <1> QED  BY <1>1, <1>2

LEMMA Begins ==
    ASSUME GuardianTypes, GuardianInv, BeginReview
    PROVE  runs' = runs \/ Became(worker.id, {"QUEUED"}, "RUNNING")
  <1>1. /\ worker.id \in RunId /\ worker.sha \in Shas
        /\ update_guardian_run(worker.id, "RUNNING", worker.sha)
    BY DEF GuardianTypes, TypeOK, BeginReview
  <1>2. runs[worker.id].status \in {"ABSENT", "QUEUED"}
    BY <1>1 DEF BeginReview, GuardianInv, StatusInv, Waiting
  <1>3. runs' = runs \/ Became(worker.id, {"ABSENT", "QUEUED"}, "RUNNING")
    BY <1>1, <1>2, Updates DEF RunStatus
  <1> QED  BY <1>3 DEF Became

LEMMA Completes ==
    ASSUME GuardianTypes, GuardianInv, CompleteRun
    PROVE  \/ runs' = runs
           \/ Became(worker.id, {"RUNNING"}, "COMPLETE") /\ runs'[worker.id].sha = worker.sha
  <1>1. /\ worker.id \in RunId /\ worker.sha \in Shas
        /\ update_guardian_run(worker.id, "COMPLETE", worker.sha)
    BY DEF GuardianTypes, TypeOK, CompleteRun, CompletedSha
  <1>2. runs[worker.id].status \in {"ABSENT", "RUNNING"}
    BY <1>1 DEF CompleteRun, GuardianInv, StatusInv, Reviewing
  <1>3. \/ runs' = runs
        \/ Became(worker.id, {"ABSENT", "RUNNING"}, "COMPLETE") /\ runs'[worker.id].sha = worker.sha
    BY <1>1, <1>2, Updates DEF RunStatus
  <1> QED  BY <1>3 DEF Became

LEMMA Errs ==
    ASSUME GuardianTypes, GuardianInv, ErrorRun
    PROVE  runs' = runs \/ Became(worker.id, Unended, "ERROR")
  <1>1. worker.id \in RunId /\ worker.sha \in Shas
    BY DEF GuardianTypes, TypeOK, ErrorRun
  <1>2. runs[worker.id].status \in {"ABSENT", "RUNNING", "COMPLETE"}
    BY <1>1 DEF ErrorRun, GuardianInv, StatusInv
  <1>3. runs' = runs \/ Became(worker.id, {"ABSENT", "RUNNING", "COMPLETE"}, "ERROR")
    BY <1>1, <1>2, Updates DEF ErrorRun, RunStatus
  <1> QED  BY <1>3 DEF Became, Unended

LEMMA Fails ==
    ASSUME GuardianTypes, worker.pc # "idle", JobFailed
    PROVE  \/ runs' = runs /\ (runs[worker.id].status \notin {"QUEUED", "RUNNING"} \/ worker.id \in unrecorded')
           \/ Became(worker.id, Unended, "ERROR")
  BY DEF GuardianTypes, TypeOK, JobFailed, Lost, fail_guardian_run_if_active, Became, Unended

LEMMA UnrecordedGrows == [Next]_vars => unrecorded \subseteq unrecorded'
  <1> USE DEF nodeVars
  <1>1. CASE HookStep
    BY <1>1 DEF HookStep, HookCreate, HookPrune, HookFails, HookEnqueue, HookEnqueueFails, RecordError, Lost
  <1>2. ASSUME NEW r \in Requests, RetryStep(r) \/ \E id \in RunId : RetryRead(r, id)
        PROVE  unrecorded \subseteq unrecorded'
    BY <1>2 DEF RetryStep, RetryCreate, RetryPrune, RetryFails, RetryEnqueue, RetryEnqueueFails, RetryRead,
       RecordError, Lost
  <1>3. CASE WorkerStep \/ WorkHorseKilled
    BY <1>3 DEF WorkerStep, WorkHorseKilled, FailureCallback, JobFailed, Lost, TakeReview, NotReady, BeginReview,
       Fetch, Pending, Analyze, Comment, FinalStatus, CompleteRun, ReviewDone, ReviewFails, ErrorStatus, ErrorRun
  <1>4. CASE Push \/ Command \/ Redeliver \/ HookReceive \/ ApiRestart \/ UNCHANGED vars
    BY <1>4 DEF vars, Push, Command, Redeliver, HookReceive, ApiRestart
  <1> QED  BY <1>1, <1>2, <1>3, <1>4 DEF Next

-----------------------------------------------------------------------------
(* One live run per delivery.                                              *)

Live(id) == runs[id].status \notin {"ABSENT", "ERROR"}

(* Runs end, and the keys of those that live on stay.                      *)
LEMMA DeliveryKept ==
    ASSUME DeliveryInv, unrecorded \subseteq unrecorded',
           \A id \in RunId : Live(id)' => Live(id) /\ runs'[id].delivery = runs[id].delivery,
           \A id \in RunId \ unrecorded' :
                Live(id)' /\ runs[id].delivery \in seen => runs[id].delivery \in seen',
           \/ hook'.pc = "idle"
           \/ /\ hook.pc # "idle" /\ hook'.delivery = hook.delivery /\ hook'.id = hook.id
              /\ hook'.pc = "bound" => hook.pc = "bound"
              /\ hook.delivery \in seen => hook.delivery \in seen'
    PROVE  DeliveryInv'
  <1>1. OneLiveRunPerDelivery'
    BY DEF DeliveryInv, OneLiveRunPerDelivery, Live, Stored
  <1>2. \A id \in RunId \ unrecorded' : Live(id)' /\ runs'[id].delivery # 0 => runs'[id].delivery \in seen'
    BY DEF DeliveryInv, Live
  <1>3. hook'.pc # "idle" =>
        /\ hook'.delivery \in seen'
        /\ \A id \in RunId \ unrecorded' : Live(id)' /\ runs'[id].delivery = hook'.delivery =>
                hook'.pc # "bound" /\ id = hook'.id
    BY DEF DeliveryInv, Live
  <1> QED  BY <1>1, <1>2, <1>3 DEF DeliveryInv, Live

(* A run is created: no live one has its delivery.                         *)
LEMMA DeliveryCreated ==
    ASSUME DeliveryInv, NEW id, NEW d \in seen \union {0}, CreatedRun(id, d), seen' = seen,
           unrecorded' = unrecorded,
           d # 0 => \A other \in RunId \ unrecorded : Live(other) => runs[other].delivery # d,
           hook.pc # "idle" => hook.delivery # 0,
           \/ d = 0 /\ hook' = hook
           \/ /\ hook.pc = "bound" /\ id = hook.id /\ d = hook.delivery
              /\ hook'.pc = "created" /\ hook'.id = hook.id /\ hook'.delivery = hook.delivery
    PROVE  DeliveryInv'
  <1>1. \A other \in RunId : Live(other)' =>
            \/ other = id /\ runs'[other].delivery = d
            \/ other # id /\ Live(other) /\ runs'[other].delivery = runs[other].delivery
    BY DEF CreatedRun, Live
  <1>2. OneLiveRunPerDelivery'
    BY <1>1 DEF DeliveryInv, OneLiveRunPerDelivery, Live, Stored
  <1>3. \A other \in RunId \ unrecorded' : Live(other)' /\ runs'[other].delivery # 0 => runs'[other].delivery \in seen'
    BY <1>1 DEF DeliveryInv, Live
  <1>4. hook'.pc # "idle" =>
        /\ hook'.delivery \in seen'
        /\ \A other \in RunId \ unrecorded' : Live(other)' /\ runs'[other].delivery = hook'.delivery =>
                hook'.pc # "bound" /\ other = hook'.id
    BY <1>1 DEF DeliveryInv, Live
  <1> QED  BY <1>2, <1>3, <1>4 DEF DeliveryInv, Live

LEMMA BecameLives ==
    ASSUME NEW id, NEW from, NEW to \in RunStatus, Became(id, from, to), "ERROR" \notin from
    PROVE  \A other \in RunId : Live(other)' => Live(other) /\ runs'[other].delivery = runs[other].delivery
  BY DEF Became, Live

LEMMA PrunedLives ==
    ASSUME Pruned
    PROVE  \A id \in RunId : Live(id)' => Live(id) /\ runs'[id].delivery = runs[id].delivery
  BY DEF Pruned, Live, NoRun

LEMMA DeliveryInit == Init => DeliveryInv
  BY DEF Init, DeliveryInv, OneLiveRunPerDelivery, Stored, NoRun, IdleHook

LEMMA DeliveryHook ==
    ASSUME GuardianTypes, GuardianInv, DeliveryInv, HookReceive \/ HookStep \/ ApiRestart
    PROVE  DeliveryInv'
  <1> USE DEF ghVars, nodeVars, apiVars, pubVars
  <1>0. /\ hook \in HookType /\ (hook.pc # "idle" => hook.delivery \in Delivery /\ hook.delivery # 0)
        /\ 0 \notin Delivery
    BY DEF GuardianTypes, TypeOK, HookType, Delivery
  <1>1. CASE HookReceive
    <2>1. UNCHANGED <<runs, unrecorded>> /\ hook.pc = "idle"
      BY <1>1 DEF HookReceive
    <2>2. CASE seen \subseteq seen' /\ UNCHANGED hook
      BY <2>1, <2>2, DeliveryKept DEF Live
    <2>3. ASSUME NEW d \in inFlight, d \notin seen, seen' = seen \union {d},
                 hook'.delivery = d, hook'.pc = "bound"
          PROVE  DeliveryInv'
      <3>1. d # 0
        BY <1>0 DEF GuardianTypes, TypeOK
      <3>2. OneLiveRunPerDelivery'
        BY <2>1 DEF DeliveryInv, OneLiveRunPerDelivery, Stored
      <3> QED  BY <2>1, <2>3, <3>1, <3>2 DEF DeliveryInv
    <2> QED  BY <1>1, <2>2, <2>3 DEF HookReceive, Fresh
  <1>2. CASE HookCreate
    <2>1. CreatedRun(hook.id, hook.delivery)
      BY <1>2, HookCreates
    <2>2. /\ hook.delivery \in seen
          /\ \A other \in RunId \ unrecorded : Live(other) => runs[other].delivery # hook.delivery
      BY <1>2 DEF HookCreate, DeliveryInv, Live
    <2>3. hook.pc = "bound" /\ hook'.pc = "created" /\ hook'.id = hook.id /\ hook'.delivery = hook.delivery
      BY <1>0, <1>2 DEF HookCreate, HookType
    <2> QED  BY <1>0, <1>2, <2>1, <2>2, <2>3, DeliveryCreated DEF HookCreate
  <1>3. CASE HookPrune
    <2>1. hook.pc = "created" /\ hook'.pc = "stored" /\ hook'.id = hook.id /\ hook'.delivery = hook.delivery
      BY <1>0, <1>3 DEF HookPrune, HookType
    <2> QED  BY <1>3, <2>1, Prunes, PrunedLives, DeliveryKept DEF HookPrune
  <1>4. CASE HookEnqueue
    BY <1>4, IdleTypes, DeliveryKept DEF HookEnqueue, Live
  <1>5. CASE HookFails \/ HookEnqueueFails
    <2>1. \/ runs' = runs /\ (hook.pc = "bound" \/ ~Stored(hook.id) \/ hook.id \in unrecorded')
          \/ Became(hook.id, {"QUEUED"}, "ERROR")
      BY <1>5, HookWrites
    <2>2. /\ \A other \in RunId : Live(other)' => Live(other) /\ runs'[other].delivery = runs[other].delivery
          /\ hook.pc = "bound" \/ hook.id \in unrecorded' \/ runs'[hook.id].status \in {"ABSENT", "ERROR"}
      BY <2>1, BecameLives DEF RunStatus, Live, Stored, Became
    <2>3. unrecorded \subseteq unrecorded'
      BY <1>5, UnrecordedGrows DEF Next, HookStep
    <2>4. ASSUME NEW id \in RunId \ unrecorded', Live(id)', runs[id].delivery \in seen
          PROVE  runs[id].delivery \in seen'
      <3>1. Live(id) /\ id \notin unrecorded
        BY <2>2, <2>3, <2>4
      <3>2. runs[id].delivery = hook.delivery => hook.pc # "bound" /\ id = hook.id
        BY <1>5, <3>1 DEF HookFails, HookEnqueueFails, DeliveryInv, Live
      <3>3. runs[id].delivery # hook.delivery
        BY <2>2, <2>4, <3>2 DEF Live
      <3> QED  BY <1>5, <2>4, <3>3 DEF HookFails, HookEnqueueFails, DeleteKey
    <2>5. hook'.pc = "idle"
      BY <1>5, IdleTypes DEF HookFails, HookEnqueueFails
    <2> QED  BY <2>2, <2>3, <2>4, <2>5, DeliveryKept
  <1>6. CASE ApiRestart
    BY <1>6, UnrecordedGrows, IdleTypes, DeliveryKept DEF ApiRestart, Live, Next
  <1> QED  BY <1>1, <1>2, <1>3, <1>4, <1>5, <1>6 DEF HookStep

LEMMA DeliveryRetry ==
    ASSUME GuardianTypes, GuardianInv, DeliveryInv, NEW r \in Requests,
           RetryStep(r) \/ \E id \in RunId : RetryRead(r, id)
    PROVE  DeliveryInv'
  <1> USE DEF ghVars, nodeVars, apiVars, pubVars
  <1>0. UNCHANGED <<seen, hook>> /\ unrecorded \subseteq unrecorded'
    BY UnrecordedGrows
    DEF Next, RetryStep, RetryCreate, RetryPrune, RetryFails, RetryEnqueue, RetryEnqueueFails, RetryRead
  <1>1. ASSUME \A id \in RunId : Live(id)' => Live(id) /\ runs'[id].delivery = runs[id].delivery
        PROVE  DeliveryInv'
    BY <1>0, <1>1, DeliveryKept
  <1>2. CASE \E id \in RunId : RetryRead(r, id)
    BY <1>1, <1>2 DEF RetryRead, Live
  <1>3. CASE RetryCreate(r)
    <2>1. CASE runs' = runs
      BY <1>1, <2>1 DEF Live
    <2>2. CASE CreatedRun(RetryOf(requests[r].id), 0)
      <3>1. hook.pc # "idle" => hook.delivery # 0
        BY DEF GuardianTypes, Delivery
      <3> QED  BY <1>0, <1>3, <2>2, <3>1, DeliveryCreated DEF RetryCreate
    <2> QED  BY <1>3, <2>1, <2>2, RetryCreates
  <1>4. CASE RetryPrune(r)
    BY <1>1, <1>4, Prunes, PrunedLives DEF RetryPrune
  <1>5. CASE RetryEnqueue(r)
    BY <1>1, <1>5 DEF RetryEnqueue, Live
  <1>6. CASE RetryFails(r) \/ RetryEnqueueFails(r)
    <2>1. runs' = runs \/ Became(requests[r].id, {"QUEUED"}, "ERROR")
      BY <1>6, RetryWrites
    <2> QED  BY <1>1, <2>1, BecameLives DEF RunStatus, Live
  <1> QED  BY <1>2, <1>3, <1>4, <1>5, <1>6 DEF RetryStep

(* What the worker does to the nodes.                                      *)
LEMMA WorkerWrites ==
    ASSUME GuardianTypes, GuardianInv, WorkerStep \/ WorkHorseKilled
    PROVE  \/ runs' = runs
           \/ BeginReview /\ Became(worker.id, {"QUEUED"}, "RUNNING")
           \/ CompleteRun /\ Became(worker.id, {"RUNNING"}, "COMPLETE") /\ runs'[worker.id].sha = worker.sha
           \/ Became(worker.id, Unended, "ERROR")
  <1>1. CASE FailureCallback \/ WorkHorseKilled
    BY <1>1, Fails DEF FailureCallback, WorkHorseKilled
  <1>2. CASE ErrorRun
    BY <1>2, Errs
  <1>3. CASE BeginReview
    BY <1>3, Begins
  <1>4. CASE CompleteRun
    BY <1>4, Completes
  <1>5. CASE \/ TakeReview \/ NotReady \/ Fetch \/ Pending \/ Analyze \/ Comment
             \/ FinalStatus \/ ReviewDone \/ ReviewFails \/ ErrorStatus
    BY <1>5 DEF nodeVars, TakeReview, NotReady, Fetch, Pending, Analyze, Comment,
       FinalStatus, ReviewDone, ReviewFails, ErrorStatus
  <1> QED  BY <1>1, <1>2, <1>3, <1>4, <1>5 DEF WorkerStep

LEMMA WorkerLeaves ==
    ASSUME WorkerStep \/ WorkHorseKilled
    PROVE  UNCHANGED <<ghVars, seen, hook, created, clock, apiVars>>
  BY DEF nodeVars, WorkerStep, WorkHorseKilled, FailureCallback, JobFailed, TakeReview, NotReady, BeginReview,
     Fetch, Pending, Analyze, Comment, FinalStatus, CompleteRun, ReviewDone, ReviewFails, ErrorStatus, ErrorRun

(* ... and who it works for.                                               *)
LEMMA WorkerGoesOn ==
    ASSUME GuardianTypes, WorkerStep \/ WorkHorseKilled, ~TakeReview
    PROVE  worker'.pc = "idle" \/ (worker.pc # "idle" /\ worker'.id = worker.id)
  <1>0. worker \in WorkerType
    BY DEF GuardianTypes, TypeOK, WorkerType
  <1>1. \A pc : Goto(pc) => worker'.id = worker.id
    BY <1>0 DEF Goto, WorkerType
  <1>2. CASE ReviewDone \/ FailureCallback \/ WorkHorseKilled
    BY <1>2, IdleTypes DEF ReviewDone, FailureCallback, WorkHorseKilled, JobFailed
  <1>3. CASE Fetch \/ Analyze
    BY <1>0, <1>3 DEF Fetch, Analyze, WorkerType
  <1>4. CASE NotReady \/ BeginReview \/ ErrorStatus \/ ErrorRun \/ ReviewFails
    BY <1>1, <1>4 DEF NotReady, BeginReview, ErrorStatus, ErrorRun, ReviewFails, Reviewing
  <1>5. CASE Pending \/ Comment \/ FinalStatus \/ CompleteRun
    BY <1>1, <1>5 DEF Pending, Comment, FinalStatus, CompleteRun
  <1> QED  BY <1>2, <1>3, <1>4, <1>5 DEF WorkerStep

LEMMA DeliveryNext == GuardianTypes /\ GuardianInv /\ DeliveryInv /\ [Next]_vars => DeliveryInv'
  <1> SUFFICES ASSUME GuardianTypes, GuardianInv, DeliveryInv, [Next]_vars PROVE DeliveryInv'
    OBVIOUS
  <1>1. ASSUME UNCHANGED <<seen, hook>>,
               \A id \in RunId : Live(id)' => Live(id) /\ runs'[id].delivery = runs[id].delivery
        PROVE  DeliveryInv'
    BY <1>1, UnrecordedGrows, DeliveryKept
  <1>2. CASE UNCHANGED vars \/ Push \/ Command \/ Redeliver
    BY <1>1, <1>2 DEF vars, nodeVars, Push, Command, Redeliver, Live
  <1>3. CASE WorkerStep \/ WorkHorseKilled
    <2>1. \A id \in RunId : Live(id)' => Live(id) /\ runs'[id].delivery = runs[id].delivery
      BY <1>3, WorkerWrites, BecameLives DEF Live, RunStatus, Unended
    <2> QED  BY <1>1, <1>3, <2>1, WorkerLeaves
  <1> QED  BY <1>2, <1>3, DeliveryHook, DeliveryRetry DEF Next

(* A webhook delivered again, while Redis holds its key, makes no second   *)
(* run, whatever is redelivered, pruned, retried, restarted or fails in    *)
(* between; but for a run in ERROR, or left without a job.                 *)
THEOREM OneLiveRunPerDeliveryHolds == Spec => []OneLiveRunPerDelivery
  <1>1. DeliveryInv => OneLiveRunPerDelivery
    BY DEF DeliveryInv
  <1> QED  BY <1>1, TypesInit, TypesNext, GuardianInit, GuardianNext, DeliveryInit, DeliveryNext, PTL DEF Spec

-----------------------------------------------------------------------------
(* Heads, the comment and the verdicts.                                    *)

(* A step of GitHub or of the API process.                                 *)
ApiStep ==
    \/ Push \/ Command \/ Redeliver
    \/ HookReceive \/ HookStep
    \/ \E r \in Requests : RetryStep(r) \/ \E id \in RunId : RetryRead(r, id)
    \/ ApiRestart

LEMMA ApiWrites ==
    ASSUME GuardianTypes, GuardianInv, ApiStep
    PROVE  \/ runs' = runs /\ clock' = clock
           \/ \E id, d : CreatedRun(id, d) /\ Latest(id)
           \/ prune_guardian_runs /\ Pruned /\ clock' = clock
           \/ (\E id : Became(id, {"QUEUED"}, "ERROR")) /\ clock' = clock
  <1> USE DEF nodeVars
  <1>1. CASE \/ Push \/ Command \/ Redeliver \/ HookReceive \/ HookEnqueue \/ ApiRestart
    BY <1>1 DEF Push, Command, Redeliver, HookReceive, HookEnqueue, ApiRestart
  <1>2. CASE HookCreate
    BY <1>2, HookCreates
  <1>3. CASE HookPrune
    BY <1>3, Prunes DEF HookPrune
  <1>4. CASE HookFails \/ HookEnqueueFails
    BY <1>4, HookWrites DEF HookFails, HookEnqueueFails
  <1>5. ASSUME NEW r \in Requests, RetryStep(r) \/ \E id \in RunId : RetryRead(r, id)
        PROVE  \/ runs' = runs /\ clock' = clock
               \/ \E id, d : CreatedRun(id, d) /\ Latest(id)
               \/ prune_guardian_runs /\ Pruned /\ clock' = clock
               \/ (\E id : Became(id, {"QUEUED"}, "ERROR")) /\ clock' = clock
    <2>1. CASE RetryCreate(r)
      BY <2>1, RetryCreates
    <2>2. CASE RetryPrune(r)
      BY <2>2, Prunes DEF RetryPrune
    <2>3. CASE RetryFails(r) \/ RetryEnqueueFails(r)
      BY <2>3, RetryWrites DEF RetryFails, RetryEnqueueFails
    <2>4. CASE RetryEnqueue(r) \/ \E id \in RunId : RetryRead(r, id)
      BY <2>4 DEF RetryEnqueue, RetryRead
    <2> QED  BY <1>5, <2>1, <2>2, <2>3, <2>4 DEF RetryStep
  <1> QED  BY <1>1, <1>2, <1>3, <1>4, <1>5 DEF ApiStep, HookStep

LEMMA ApiLeaves ==
    ASSUME ApiStep
    PROVE  /\ UNCHANGED <<worker, comment, statuses, reviewed, publisher>>
           /\ head' \in {head, head + 1} /\ created' \in {created, created + 1}
  <1> USE DEF ghVars, pubVars, nodeVars
  <1>1. CASE \/ Push \/ Command \/ Redeliver \/ HookReceive \/ ApiRestart
    BY <1>1 DEF Push, Command, Redeliver, HookReceive, ApiRestart
  <1>2. CASE HookStep
    BY <1>2 DEF HookStep, HookCreate, HookPrune, HookFails, HookEnqueue, HookEnqueueFails
  <1>3. ASSUME NEW r \in Requests, RetryStep(r) \/ \E id \in RunId : RetryRead(r, id)
        PROVE  UNCHANGED <<worker, comment, statuses, reviewed, publisher, head, created>>
    BY <1>3 DEF RetryStep, RetryCreate, RetryPrune, RetryFails, RetryEnqueue, RetryEnqueueFails, RetryRead
  <1> QED  BY <1>1, <1>2, <1>3 DEF ApiStep

LEMMA HeadInit == Init => HeadInv
  <1> SUFFICES ASSUME Init PROVE HeadInv
    OBVIOUS
  <1>1. comment = 0 /\ head = 1 /\ worker.pc = "idle"
    BY DEF Init, IdleWorker
  <1>2. \A id \in RunId : runs[id].status = "ABSENT"
    BY DEF Init, NoRun
  <1>3. VerdictNotOlder
    BY DEF Init, VerdictNotOlder
  <1> QED  BY <1>1, <1>2, <1>3 DEF HeadInv

LEMMA HeadApi ==
    ASSUME GuardianTypes, GuardianInv, HeadInv, ApiStep
    PROVE  HeadInv'
  <1>1. \A id \in RunId : runs'[id].status = "COMPLETE" => runs'[id] = runs[id]
    BY ApiWrites DEF CreatedRun, Pruned, Became, NoRun
  <1>2. head \in Int /\ comment \in Int /\ worker.sha \in Int /\ worker.rev \in Int
    BY DEF GuardianTypes, TypeOK, Heads, Shas
  <1>3. VerdictNotOlder'
    BY ApiLeaves DEF HeadInv, VerdictNotOlder
  <1> QED  BY <1>1, <1>2, <1>3, ApiLeaves DEF HeadInv

(* The worker's steps, without the nodes.                                  *)
LEMMA HeadWorker ==
    ASSUME GuardianTypes, GuardianInv, HeadInv, WorkerStep \/ WorkHorseKilled
    PROVE  HeadInv' /\ comment' >= comment
  <1> USE DEF ghVars, nodeVars, apiVars, pubVars
  <1>0. /\ head \in Int /\ comment \in Int /\ worker.sha \in Int /\ worker.rev \in Int
        /\ worker.pc \in Fetched => worker.sha \in Heads
        /\ worker \in WorkerType
        /\ \A h \in Heads : h \in Int
        /\ statuses \in [Heads -> {"none", "pending", "success", "failure", "error"}]
        /\ reviewed \in [Heads -> Shas]
    BY DEF GuardianTypes, TypeOK, Heads, Shas, WorkerType
  <1>1. head' = head
    BY WorkerLeaves
  <1>2. \A pc : Goto(pc) => /\ worker'.pc = pc /\ worker'.sha = worker.sha
                            /\ worker'.rev = worker.rev /\ worker'.id = worker.id
    BY <1>0 DEF Goto, WorkerType
  <1>3. \A id \in RunId : runs'[id].status = "COMPLETE" =>
            \/ runs'[id] = runs[id]
            \/ CompleteRun /\ id = worker.id /\ runs'[id].sha = worker.sha
    BY WorkerWrites DEF Became
  <1>4. ASSUME comment' >= comment, comment' \in Int, CompleteRun => comment' = comment /\ statuses' = statuses,
               \A h \in Heads : statuses[h] # "none" => statuses'[h] # "none"
        PROVE  \A id \in RunId : runs'[id].status = "COMPLETE" =>
                    runs'[id].sha \in Heads /\ runs'[id].sha <= comment' /\ statuses'[runs'[id].sha] # "none"
    <2>1. CompleteRun => /\ worker.sha \in Heads /\ worker.sha <= comment
                         /\ statuses[worker.sha] # "none"
      BY <1>0 DEF CompleteRun, HeadInv, Fetched
    <2>2. \A id \in RunId : runs[id].status = "COMPLETE" =>
                runs[id].sha \in Heads /\ runs[id].sha <= comment /\ statuses[runs[id].sha] # "none"
      BY DEF HeadInv
    <2> QED  BY <1>0, <1>3, <1>4, <2>1, <2>2
  <1>5. CASE Comment
    <2>1. /\ comment' = worker.rev /\ UNCHANGED <<statuses, reviewed>> /\ ~CompleteRun
          /\ comment <= worker.rev /\ worker.sha <= worker.rev /\ worker.rev <= head
          /\ worker'.pc = "commented" /\ worker'.sha = worker.sha /\ worker'.rev = worker.rev
          /\ statuses[worker.sha] # "none"
      BY <1>2, <1>5 DEF Comment, HeadInv, CompleteRun
    <2>2. VerdictNotOlder'
      BY <2>1 DEF HeadInv, VerdictNotOlder
    <2> QED  BY <1>0, <1>1, <1>4, <2>1, <2>2 DEF HeadInv
  <1>6. ASSUME NEW state \in {"pending", "success", "failure", "error"}, NEW rev \in Shas,
               PublishStatus(state, rev), worker.sha \in Heads, comment' = comment, ~CompleteRun,
               state \in {"success", "failure"} => rev >= worker.sha
        PROVE  /\ VerdictNotOlder'
               /\ statuses'[worker.sha] # "none"
               /\ \A id \in RunId : runs'[id].status = "COMPLETE" =>
                    runs'[id].sha \in Heads /\ runs'[id].sha <= comment' /\ statuses'[runs'[id].sha] # "none"
    <2>1. /\ statuses'[worker.sha] = state /\ reviewed'[worker.sha] = rev
          /\ \A h \in Heads : h # worker.sha => statuses'[h] = statuses[h] /\ reviewed'[h] = reviewed[h]
      BY <1>0, <1>6 DEF PublishStatus
    <2>2. VerdictNotOlder'
      BY <1>6, <2>1 DEF HeadInv, VerdictNotOlder
    <2> QED  BY <1>0, <1>4, <1>6, <2>1, <2>2
  <1>7. CASE Pending
    <2>1. /\ worker.sha \in Heads /\ worker.sha <= head /\ comment' = comment /\ ~CompleteRun
          /\ worker'.pc = "pending" /\ worker'.sha = worker.sha /\ worker'.rev = worker.rev
      BY <1>0, <1>2, <1>7 DEF Pending, HeadInv, CompleteRun, Fetched
    <2>2. PublishStatus("pending", 0) /\ 0 \in Shas
      BY <1>7, BoundsType DEF Pending
    <2> QED  BY <1>0, <1>1, <1>6, <2>1, <2>2 DEF HeadInv
  <1>8. CASE FinalStatus
    <2>1. /\ worker.sha \in Heads /\ worker.sha <= worker.rev /\ worker.rev <= head /\ comment' = comment
          /\ worker.sha <= comment /\ ~CompleteRun /\ worker.rev \in Shas
          /\ worker'.pc = "final" /\ worker'.sha = worker.sha /\ worker'.rev = worker.rev
      BY <1>0, <1>2, <1>8 DEF FinalStatus, HeadInv, CompleteRun, Fetched, WorkerType
    <2>2. PublishStatus(Verdict, worker.rev) /\ Verdict \in {"success", "failure"}
      BY <1>8 DEF FinalStatus, Verdict
    <2> QED  BY <1>0, <1>1, <1>6, <2>1, <2>2 DEF HeadInv
  <1>9. ASSUME comment' = comment, UNCHANGED <<statuses, reviewed>>,
               \/ worker'.pc \in {"idle", "begin", "running", "failing", "failed", "raised", "complete"}
               \/ worker'.pc = "fetched" /\ worker'.sha = head
               \/ worker.pc = "pending" /\ worker'.pc = "analyzed" /\ worker'.sha = worker.sha /\ worker'.rev = head
        PROVE  HeadInv' /\ comment' >= comment
    <2>1. VerdictNotOlder'
      BY <1>9 DEF HeadInv, VerdictNotOlder
    <2>2. \A id \in RunId : runs'[id].status = "COMPLETE" =>
            runs'[id].sha \in Heads /\ runs'[id].sha <= comment' /\ statuses'[runs'[id].sha] # "none"
      BY <1>0, <1>4, <1>9
    <2> QED  BY <1>0, <1>1, <1>9, <2>1, <2>2 DEF HeadInv
  <1>10. CASE ErrorStatus
    <2>1. worker.sha \in Heads /\ comment' = comment /\ ~CompleteRun /\ worker'.pc = "failed"
      BY <1>0, <1>2, <1>10 DEF ErrorStatus, CompleteRun, Fetched
    <2>2. CASE PublishStatus("error", 0)
      <3>1. 0 \in Shas
        BY BoundsType
      <3> QED  BY <1>0, <1>1, <1>6, <2>1, <2>2, <3>1 DEF HeadInv
    <2> QED  BY <1>9, <1>10, <2>1, <2>2 DEF ErrorStatus
  <1>11. CASE Fetch \/ Analyze
    BY <1>0, <1>9, <1>11 DEF Fetch, Analyze, ClonedHead, WorkerType
  <1>12. CASE TakeReview \/ ReviewDone \/ FailureCallback \/ WorkHorseKilled
    BY <1>9, <1>12 DEF TakeReview, ReviewDone, FailureCallback, WorkHorseKilled, JobFailed, IdleWorker
  <1>13. CASE NotReady \/ BeginReview \/ CompleteRun \/ ReviewFails \/ ErrorRun
    BY <1>2, <1>9, <1>13 DEF NotReady, BeginReview, CompleteRun, ReviewFails, ErrorRun
  <1> QED  BY <1>5, <1>7, <1>8, <1>10, <1>11, <1>12, <1>13 DEF WorkerStep

LEMMA HeadNext ==
    GuardianTypes /\ GuardianInv /\ HeadInv /\ [Next]_vars => HeadInv' /\ comment' >= comment
  <1> SUFFICES ASSUME GuardianTypes, GuardianInv, HeadInv, [Next]_vars
               PROVE  HeadInv' /\ comment' >= comment
    OBVIOUS
  <1>0. comment \in Int
    BY DEF GuardianTypes, TypeOK, Shas
  <1>1. CASE UNCHANGED vars
    BY <1>0, <1>1 DEF vars, ghVars, nodeVars, pubVars, HeadInv, VerdictNotOlder
  <1>2. CASE ApiStep
    BY <1>0, <1>2, HeadApi, ApiLeaves
  <1> QED  BY <1>1, <1>2, HeadWorker DEF Next, ApiStep

LEMMA HeadHolds == Spec => []HeadInv
  BY TypesInit, TypesNext, GuardianInit, GuardianNext, HeadInit, HeadNext, PTL DEF Spec

(* No head is judged by the code of an older one, whatever is pushed while *)
(* reviews are queued, fail, are killed and retried.                       *)
THEOREM VerdictNotOlderHolds == Spec => []VerdictNotOlder
  <1>1. HeadInv => VerdictNotOlder
    BY DEF HeadInv
  <1> QED  BY <1>1, HeadHolds, PTL

(* The one comment of the pull request never goes back to an older head.   *)
THEOREM CommentNeverOlderHolds == Spec => CommentNeverOlder
  <1>1. GuardianTypes /\ GuardianInv /\ HeadInv /\ [Next]_vars => [comment' >= comment]_vars
    BY HeadNext
  <1> QED  BY <1>1, GuardianHolds, HeadHolds, PTL DEF Spec, CommentNeverOlder

-----------------------------------------------------------------------------
(* Heads that are pending.                                                 *)

LEMMA PendingInit == Init => PendingInv
  BY DEF Init, PendingInv

(* The API process creates, prunes and fails runs, but not those.          *)
LEMMA PendingApi ==
    ASSUME GuardianTypes, GuardianInv, PendingInv, ApiStep
    PROVE  PendingInv'
  <1>0. /\ UNCHANGED <<worker, statuses, publisher>> /\ unrecorded \subseteq unrecorded'
        /\ runs \in [RunId -> RunType] /\ created \in Nat
    BY ApiLeaves, UnrecordedGrows DEF Next, ApiStep, GuardianTypes, TypeOK, RunType
  <1>1. created <= created' /\ created' \in Nat
    BY <1>0, ApiLeaves
  <1> SUFFICES ASSUME NEW h \in Heads, statuses[h] = "pending"
               PROVE  PendingAt(h)'
    BY <1>0 DEF PendingInv
  <1>2. PICK id \in RunId : id = publisher[h] /\ id[1] \in Nat /\ id[1] <= created
    BY BoundsType DEF PendingInv, PendingAt
  <1>3. /\ runs[id].status \in {"ERROR", "ABSENT", "RUNNING"}
        /\ runs[id].status = "RUNNING" =>
            \/ worker.pc \in Unsettled /\ worker.id = id /\ worker.sha = h
            \/ id \in unrecorded /\ ~OnIt(id)
        /\ ~Stored(id) => \A earlier \in RunId : Earlier(earlier, id) => ~Stored(earlier)
    BY <1>2 DEF PendingInv, PendingAt
  <1>4. ASSUME runs'[id].status \in {runs[id].status, "ABSENT"},
               ~Stored(id)' => \A earlier \in RunId : Earlier(earlier, id) => ~Stored(earlier)'
        PROVE  PendingAt(h)'
    BY <1>0, <1>1, <1>2, <1>3, <1>4 DEF PendingAt, OnIt
  <1>5. CASE runs' = runs
    BY <1>3, <1>4, <1>5 DEF Stored
  <1>6. ASSUME NEW new, NEW d, CreatedRun(new, d), Latest(new)
        PROVE  PendingAt(h)'
    <2>1. new \in RunId /\ ~Stored(new)
      BY <1>6 DEF CreatedRun
    <2>2. ~Stored(id) => new # id /\ ~Earlier(new, id)
      <3>1. CASE new[1] > created
        BY <1>0, <1>2, <2>1, <3>1, BoundsType DEF Earlier
      <3>2. ASSUME NEW src \in RunId, Stored(src), src[2] < MaxAttempts, new = RetryOf(src)
            PROVE  ~Stored(id) => new # id /\ ~Earlier(new, id)
        <4>1. new[1] = src[1] /\ new[2] = src[2] + 1
          BY <3>2, RetryType
        <4>2. Earlier(src, new) /\ (Earlier(new, id) => Earlier(src, id))
          BY <2>1, <3>2, <4>1, BoundsType DEF Earlier
        <4> QED  BY <1>3, <3>2, <4>2
      <3> QED  BY <1>6, <3>1, <3>2 DEF Latest
    <2>3. new # id
      <3>1. CASE Stored(id)
        BY <2>1, <3>1
      <3> QED  BY <2>2, <3>1
    <2>4. \A other \in RunId : other # new => runs'[other] = runs[other]
      BY <1>6 DEF CreatedRun
    <2> QED  BY <1>3, <1>4, <2>1, <2>2, <2>3, <2>4 DEF Stored
  <1>7. CASE prune_guardian_runs
    <2>1. runs'[id].status \in {runs[id].status, "ABSENT"}
      BY <1>0, <1>7, PruneKeeps DEF NoRun
    <2>2. ASSUME NEW earlier \in RunId, Earlier(earlier, id), ~Stored(id)', Stored(earlier)'
          PROVE  FALSE
      <3>1. Stored(earlier)
        BY <1>0, <1>7, <2>2, PruneKeeps
      <3>2. CASE Stored(id)
        <4>1. runs[earlier].at < runs[id].at
          BY <2>2, <3>1, <3>2 DEF GuardianInv, HistoryInv
        <4> QED  BY <1>0, <1>7, <2>2, <3>2, <4>1, PruneKeeps
      <3> QED  BY <1>3, <2>2, <3>1, <3>2
    <2> QED  BY <1>4, <2>1, <2>2
  <1>8. ASSUME NEW other, Became(other, {"QUEUED"}, "ERROR")
        PROVE  PendingAt(h)'
    <2>1. other # id /\ runs'[id] = runs[id]
      BY <1>3, <1>8 DEF Became
    <2>2. \A run \in RunId : Stored(run)' <=> Stored(run)
      BY <1>8 DEF Became, Stored
    <2> QED  BY <1>3, <1>4, <2>1, <2>2
  <1> QED  BY <1>5, <1>6, <1>7, <1>8, ApiWrites

(* So does the worker, unless it is the run's own review.                  *)
LEMMA PendingStays ==
    ASSUME GuardianTypes, GuardianInv, PendingInv, WorkerStep \/ WorkHorseKilled,
           NEW h \in Heads, statuses[h] = "pending", publisher'[h] = publisher[h],
           worker.pc \in Unsettled /\ worker.sha = h =>
             \/ worker'.pc \in Unsettled /\ worker'.id = worker.id /\ worker'.sha = h
             \/ runs'[worker.id].status # "RUNNING"
             \/ worker.id \in unrecorded' /\ worker'.pc = "idle"
    PROVE  PendingAt(h)'
  <1>1. PICK id \in RunId : id = publisher[h] /\ id[1] <= created
    BY DEF PendingInv, PendingAt
  <1>2. /\ runs[id].status \in {"ERROR", "ABSENT", "RUNNING"}
        /\ runs[id].status = "RUNNING" =>
            \/ worker.pc \in Unsettled /\ worker.id = id /\ worker.sha = h
            \/ id \in unrecorded /\ ~OnIt(id)
        /\ ~Stored(id) => \A earlier \in RunId : Earlier(earlier, id) => ~Stored(earlier)
    BY <1>1 DEF PendingInv, PendingAt
  <1>3. unrecorded \subseteq unrecorded' /\ created' = created
    BY UnrecordedGrows, WorkerLeaves DEF Next
  <1>4. \A run \in RunId : Stored(run)' <=> Stored(run)
    BY WorkerWrites DEF Became, Stored
  <1>5. CASE runs[id].status # "RUNNING"
    <2>1. runs'[id] = runs[id]
      BY <1>2, <1>5, WorkerWrites DEF Became, Unended
    <2> QED  BY <1>1, <1>2, <1>3, <1>4, <1>5, <2>1 DEF PendingAt
  <1>6. CASE runs[id].status = "RUNNING" /\ id \in unrecorded /\ ~OnIt(id)
    <2>1. runs'[id] = runs[id]
      <3>1. runs' # runs => worker.pc # "idle"
        BY DEF WorkerStep, WorkHorseKilled, FailureCallback, TakeReview, NotReady, BeginReview, nodeVars,
           Fetch, Pending, Analyze, Comment, FinalStatus, CompleteRun, ReviewDone, ReviewFails, ErrorStatus, ErrorRun
      <3> QED  BY <1>6, <3>1, WorkerWrites DEF Became, OnIt
    <2>2. ~OnIt(id)'
      <3>1. CASE TakeReview
        <4>1. worker'.id = queue[1].id /\ 1 \in InQueue(queue[1].id)
          BY <3>1, Taken DEF TakeReview, GuardianTypes, TypeOK, InQueue
        <4>2. Waiting(queue[1].id)
          BY <4>1 DEF Waiting
        <4> QED  BY <1>6, <4>1, <4>2 DEF GuardianInv, StatusInv, OnIt
      <3>2. CASE ~TakeReview
        <4>1. worker'.pc = "idle" \/ (worker.pc # "idle" /\ worker'.id = worker.id)
          BY <3>2, WorkerGoesOn
        <4> QED  BY <1>6, <4>1 DEF OnIt
      <3> QED  BY <3>1, <3>2
    <2> QED  BY <1>1, <1>2, <1>3, <1>4, <1>6, <2>1, <2>2 DEF PendingAt, Stored
  <1>7. CASE runs[id].status = "RUNNING" /\ worker.pc \in Unsettled /\ worker.id = id /\ worker.sha = h
    <2>1. Stored(id) /\ Stored(id)'
      BY <1>4, <1>7 DEF Stored
    <2>2. runs'[id].status \in {"RUNNING", "ERROR"}
      BY <1>7, WorkerWrites DEF Became, CompleteRun, Unsettled
    <2>3. runs'[id].status = "RUNNING" =>
            \/ worker'.pc \in Unsettled /\ worker'.id = id /\ worker'.sha = h
            \/ id \in unrecorded' /\ ~OnIt(id)'
      BY <1>7 DEF OnIt
    <2> QED  BY <1>1, <1>3, <2>1, <2>2, <2>3 DEF PendingAt
  <1> QED  BY <1>2, <1>5, <1>6, <1>7

LEMMA PendingWorker ==
    ASSUME GuardianTypes, GuardianInv, PendingInv, WorkerStep \/ WorkHorseKilled
    PROVE  PendingInv'
  <1> USE DEF ghVars, nodeVars, apiVars, pubVars
  <1>0. /\ worker \in WorkerType
        /\ worker.pc # "idle" => worker.id \in RunId
        /\ worker.pc \in Fetched => worker.sha \in Heads
        /\ statuses \in [Heads -> {"none", "pending", "success", "failure", "error"}]
        /\ publisher \in [Heads -> RunId \union {NoId}]
    BY DEF GuardianTypes, TypeOK, WorkerType
  <1>1. \A pc : Goto(pc) => worker'.pc = pc /\ worker'.sha = worker.sha /\ worker'.id = worker.id
    BY <1>0 DEF Goto, WorkerType
  <1>2. ASSUME UNCHANGED <<statuses, publisher>>,
               \/ worker.pc \notin Unsettled
               \/ worker'.pc \in Unsettled /\ worker'.id = worker.id /\ worker'.sha = worker.sha
               \/ runs'[worker.id].status # "RUNNING"
               \/ worker.id \in unrecorded' /\ worker'.pc = "idle"
        PROVE  PendingInv'
    BY <1>2, PendingStays DEF PendingInv
  <1>3. ASSUME NEW state, NEW rev, PublishStatus(state, rev), worker.sha \in Heads
        PROVE  /\ statuses'[worker.sha] = state /\ publisher'[worker.sha] = worker.id
               /\ \A h \in Heads : h # worker.sha => statuses'[h] = statuses[h] /\ publisher'[h] = publisher[h]
    BY <1>0, <1>3 DEF PublishStatus
  <1>4. ASSUME NEW state \in {"success", "failure", "error"}, NEW rev, PublishStatus(state, rev),
               worker.sha \in Heads
        PROVE  PendingInv'
    <2> SUFFICES ASSUME NEW h \in Heads, statuses'[h] = "pending"
                 PROVE  PendingAt(h)'
      BY DEF PendingInv
    <2>1. h # worker.sha /\ statuses[h] = "pending" /\ publisher'[h] = publisher[h]
      BY <1>3, <1>4
    <2> QED  BY <2>1, PendingStays
  <1>5. CASE TakeReview \/ NotReady \/ BeginReview \/ Fetch \/ CompleteRun \/ ReviewDone
    BY <1>2, <1>5 DEF TakeReview, NotReady, BeginReview, Fetch, CompleteRun, ReviewDone, Unsettled
  <1>6. CASE Pending
    <2>1. /\ PublishStatus("pending", 0) /\ worker.sha \in Heads /\ worker.id \in RunId
          /\ worker'.pc = "pending" /\ worker'.sha = worker.sha /\ worker'.id = worker.id
          /\ UNCHANGED <<runs, created>>
      BY <1>0, <1>1, <1>6 DEF Pending, Fetched
    <2>2. PendingAt(worker.sha)'
      <3>1. runs[worker.id].status \in {"ABSENT", "RUNNING"}
        BY <1>6 DEF Pending, GuardianInv, StatusInv, Reviewing
      <3>2. Claimed(worker.id)
        BY <1>6 DEF Pending, Claimed, OnIt
      <3>3. /\ worker.id[1] <= created
            /\ ~Stored(worker.id) => \A earlier \in RunId : Earlier(earlier, worker.id) => ~Stored(earlier)
        BY <2>1, <3>2 DEF GuardianInv, HistoryInv
      <3>4. publisher'[worker.sha] = worker.id
        BY <1>3, <2>1
      <3> QED  BY <2>1, <3>1, <3>3, <3>4 DEF PendingAt, Stored, Unsettled
    <2>3. ASSUME NEW h \in Heads, h # worker.sha, statuses'[h] = "pending"
          PROVE  PendingAt(h)'
      <3>1. statuses[h] = "pending" /\ publisher'[h] = publisher[h] /\ worker.pc \notin Unsettled
        BY <1>3, <1>6, <2>1, <2>3 DEF Pending, Unsettled
      <3> QED  BY <3>1, PendingStays
    <2> QED  BY <2>1, <2>2, <2>3 DEF PendingInv
  <1>7. CASE Analyze \/ Comment
    BY <1>0, <1>1, <1>2, <1>7 DEF Analyze, Comment, Unsettled, WorkerType
  <1>8. CASE FinalStatus
    BY <1>0, <1>4, <1>8 DEF FinalStatus, Verdict, Fetched
  <1>9. CASE ReviewFails
    BY <1>1, <1>2, <1>9 DEF ReviewFails, Unsettled
  <1>10. CASE ErrorStatus
    <2>1. CASE PublishStatus("error", 0)
      BY <1>0, <1>4, <1>10, <2>1 DEF ErrorStatus, Fetched
    <2>2. CASE UNCHANGED <<statuses, reviewed, publisher>>
      BY <1>1, <1>2, <1>10, <2>2 DEF ErrorStatus, Unsettled
    <2> QED  BY <1>10, <2>1, <2>2 DEF ErrorStatus
  <1>11. CASE ErrorRun
    BY <1>1, <1>2, <1>11 DEF ErrorRun, Unsettled
  <1>12. CASE FailureCallback \/ WorkHorseKilled
    <2>1. JobFailed /\ worker.pc # "idle" /\ worker'.pc = "idle" /\ UNCHANGED <<statuses, publisher>>
      BY <1>12, IdleTypes DEF FailureCallback, WorkHorseKilled, JobFailed
    <2>2. runs'[worker.id].status # "RUNNING" \/ worker.id \in unrecorded'
      BY <2>1, Fails DEF Became
    <2> QED  BY <1>2, <2>1, <2>2
  <1> QED  BY <1>5, <1>6, <1>7, <1>8, <1>9, <1>10, <1>11, <1>12 DEF WorkerStep

LEMMA PendingNext == GuardianTypes /\ GuardianInv /\ PendingInv /\ [Next]_vars => PendingInv'
  <1> SUFFICES ASSUME GuardianTypes, GuardianInv, PendingInv, [Next]_vars PROVE PendingInv'
    OBVIOUS
  <1>1. CASE UNCHANGED vars
    BY <1>1 DEF vars, nodeVars, pubVars, PendingInv, PendingAt, Stored, OnIt
  <1> QED  BY <1>1, PendingApi, PendingWorker DEF Next, ApiStep

LEMMA PendingHolds == Spec => []PendingInv
  BY TypesInit, TypesNext, GuardianInit, GuardianNext, PendingInit, PendingNext, PTL DEF Spec

(* A head that shows "pending" is being reviewed by the run that published *)
(* that, or that very run says why not, whatever is killed, fails, moves   *)
(* the head, is retried and is pruned.                                     *)
THEOREM PendingExplainedHolds == Spec => []PendingExplained
  <1>1. PendingInv => PendingExplained
    <2> SUFFICES ASSUME PendingInv, NEW h \in Heads, statuses[h] = "pending"
                 PROVE  (OnIt(publisher[h]) /\ worker.sha = h) \/ Explained(publisher[h])
      BY DEF PendingExplained
    <2> QED  BY DEF PendingInv, PendingAt, Explained, OnIt, Unsettled
  <1> QED  BY <1>1, PendingHolds, PTL

(* A complete run has published all that it says it did, whatever other    *)
(* runs of the same head do meanwhile.                                     *)
THEOREM CompleteMeansPublishedHolds == Spec => []CompleteMeansPublished
  <1>1. GuardianTypes /\ HeadInv /\ PendingInv => CompleteMeansPublished
    <2> SUFFICES ASSUME GuardianTypes, HeadInv, PendingInv, NEW id \in RunId, runs[id].status = "COMPLETE"
                 PROVE  /\ comment >= runs[id].sha
                        /\ statuses[runs[id].sha] # "none"
                        /\ statuses[runs[id].sha] = "pending" => publisher[runs[id].sha] # id
      BY DEF CompleteMeansPublished
    <2>1. /\ runs[id].sha \in Heads /\ runs[id].sha <= comment /\ statuses[runs[id].sha] # "none"
          /\ comment \in Int /\ runs[id].sha \in Int
      BY DEF HeadInv, GuardianTypes, TypeOK, Shas, Heads
    <2>2. statuses[runs[id].sha] = "pending" => publisher[runs[id].sha] # id
      BY <2>1 DEF PendingInv, PendingAt
    <2> QED  BY <2>1, <2>2
  <1> QED  BY <1>1, TypesHold, HeadHolds, PendingHolds, PTL

-----------------------------------------------------------------------------
(* The lifecycle of runs.                                                  *)

State == [id \in RunId |-> runs[id].status]

LEMMA CreatedQueues ==
    ASSUME NEW id, NEW d, CreatedRun(id, d)
    PROVE  Lifecycle!Queue(id)
  BY DEF CreatedRun, Stored, Lifecycle!Queue, Lifecycle!Move

LEMMA BecameMoves ==
    ASSUME NEW id, NEW from, NEW to, Became(id, from, to)
    PROVE  Lifecycle!Move(id, from, to)
  BY DEF Became, Lifecycle!Move

LEMMA PrunedForgets ==
    ASSUME Pruned
    PROVE  Lifecycle!Forget
  <1> DEFINE S == {id \in RunId : runs'[id] = NoRun}
  <1>1. \A id \in RunId : runs'[id].status = IF id \in S THEN "ABSENT" ELSE runs[id].status
    BY DEF Pruned, NoRun
  <1> HIDE DEF S
  <1>2. State' = [id \in RunId |-> IF id \in S THEN "ABSENT" ELSE State[id]]
    BY <1>1 DEF State
  <1>3. S \in SUBSET RunId
    BY DEF S
  <1> QED  BY <1>2, <1>3 DEF State, Lifecycle!Forget

LEMMA LifecycleNext == GuardianTypes /\ GuardianInv /\ [Next]_vars => [Lifecycle!Next]_State
  <1> SUFFICES ASSUME GuardianTypes, GuardianInv, [Next]_vars PROVE Lifecycle!Next \/ State' = State
    BY DEF State
  <1>1. CASE UNCHANGED vars
    BY <1>1 DEF vars, nodeVars, State
  <1>2. CASE ApiStep
    <2>1. CASE runs' = runs
      BY <2>1 DEF State
    <2>2. ASSUME NEW id, NEW d, CreatedRun(id, d)
          PROVE  Lifecycle!Next
      <3>1. id \in RunId /\ Lifecycle!Queue(id)
        BY <2>2, CreatedQueues DEF CreatedRun
      <3> QED  BY <3>1 DEF Lifecycle!Next
    <2>3. CASE Pruned
      BY <2>3, PrunedForgets DEF Lifecycle!Next
    <2>4. ASSUME NEW id, Became(id, {"QUEUED"}, "ERROR")
          PROVE  Lifecycle!Next
      <3>1. id \in RunId /\ Lifecycle!Move(id, {"QUEUED"}, "ERROR")
        BY <2>4, BecameMoves DEF Became
      <3>2. Lifecycle!Fail(id)
        BY <3>1 DEF Lifecycle!Fail, Lifecycle!Move, Lifecycle!Active
      <3> QED  BY <3>1, <3>2 DEF Lifecycle!Next
    <2> QED  BY <1>2, <2>1, <2>2, <2>3, <2>4, ApiWrites
  <1>3. CASE WorkerStep \/ WorkHorseKilled
    <2>1. CASE runs' = runs
      BY <2>1 DEF State
    <2>2. ASSUME NEW from, NEW to, Became(worker.id, from, to)
          PROVE  worker.id \in RunId /\ Lifecycle!Move(worker.id, from, to)
      BY <2>2, BecameMoves DEF Became
    <2>3. CASE Became(worker.id, {"QUEUED"}, "RUNNING")
      BY <2>2, <2>3 DEF Lifecycle!Next, Lifecycle!Begin
    <2>4. CASE Became(worker.id, {"RUNNING"}, "COMPLETE")
      BY <2>2, <2>4 DEF Lifecycle!Next, Lifecycle!Complete
    <2>5. CASE Became(worker.id, Unended, "ERROR")
      <3>1. PICK id \in RunId : id = worker.id
        BY <2>2, <2>5
      <3>2. Lifecycle!Move(id, Unended, "ERROR")
        BY <2>2, <2>5, <3>1
      <3>3. Unended = Lifecycle!Active \union {"COMPLETE"}
        BY DEF Unended, Lifecycle!Active
      <3>4. Lifecycle!Fail(id)
        BY <3>2, <3>3 DEF Lifecycle!Fail
      <3> QED  BY <3>4 DEF Lifecycle!Next
    <2> QED  BY <1>3, <2>1, <2>3, <2>4, <2>5, WorkerWrites
  <1> QED  BY <1>1, <1>2, <1>3 DEF Next, ApiStep

(* Guardian implements RunLifecycle: every run is queued once, begun at    *)
(* most once, and its failure is the end of it, whatever retries, prunes,  *)
(* kills and restarts happen.                                              *)
THEOREM RunLifecycleImplemented == Spec => ImplementsRunLifecycle
  <1>1. Init => Lifecycle!Init
    BY DEF Init, NoRun, Lifecycle!Init
  <1>2. GuardianTypes /\ GuardianInv /\ [Next]_vars => [Lifecycle!Next]_State
    BY LifecycleNext
  <1> QED  BY <1>1, <1>2, GuardianHolds, PTL DEF Spec, ImplementsRunLifecycle, Lifecycle!Spec, State
=============================================================================
