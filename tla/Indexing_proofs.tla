--------------------------- MODULE Indexing_proofs ---------------------------
(***************************************************************************)
(* Theorems about Indexing, for every value of its constants.              *)
(***************************************************************************)
EXTENDS Indexing, FiniteSetTheorems, TLAPS

-----------------------------------------------------------------------------
(* Type correctness.                                                       *)

(* An update of the repository node keeps its type, and leaves a missing   *)
(* node missing.                                                           *)
LEMMA UpdateType ==
    ASSUME TypeOK, NEW r \in RepoType, r.status # "ABSENT"
    PROVE  /\ update_repository(r) \in RepoType
           /\ update_repository(r).status = "ABSENT" => update_repository(r) = Absent
  BY DEF TypeOK, update_repository, Exists

(* A status write of a job does too.                                       *)
LEMMA WriteType ==
    ASSUME TypeOK, NEW s \in {"FAILED", "READY", "CURRENT", "STALE", "ERROR"} \union ACTIVE,
           s \in {"CURRENT", "STALE", "ERROR"} => worker.origin = "sync",
           Write(s) \/ WriteFails
    PROVE  /\ repo' \in RepoType /\ (repo'.status = "ABSENT" => repo' = Absent)
           /\ unrecorded' \subseteq {"status", "sync"}
  BY DEF TypeOK, Write, WriteFails, update_repository, Exists, RepoType, Status, SyncStatus, ACTIVE

(* What is left in the node when a failure is recorded, or cannot be.      *)
LEMMA RecordType ==
    ASSUME TypeOK, NEW f \in {"status", "sync"}, NEW r \in RepoType,
           r.status = "ABSENT" => repo.status = "ABSENT", RecordFailure(f, r)
    PROVE  /\ repo' \in RepoType /\ (repo'.status = "ABSENT" => repo' = Absent)
           /\ unrecorded' \subseteq {"status", "sync"}
  BY DEF TypeOK, RecordFailure, update_repository, Exists

LEMMA AbsentType == Absent \in RepoType
  BY BoundsAssumption DEF Absent, RepoType, Status, SyncStatus, Sha, Job

LEMMA TypeInit == Init => TypeOK
  BY BoundsAssumption
  DEF Init, TypeOK, Exists, Absent, IdleWorker, HookType, RepoType, RequestType, WorkerType,
      Job, Sha, Commit, Status, SyncStatus, ACTIVE, WorkerPC, ClonedPCs, IngestPCs

(* GitHub and the webhook.                                                 *)
LEMMA TypeGitHub ==
    ASSUME TypeOK, Push \/ Redeliver \/ HookReceive \/ HookStep
    PROVE  TypeOK'
  <1> USE BoundsAssumption DEF TypeOK, Exists, ghVars, dbVars, queueVars, apiVars
  <1>1. CASE Push
    BY <1>1 DEF Push, Commit
  <1>2. CASE Redeliver
    BY <1>2 DEF Redeliver, Commit
  <1>3. CASE HookReceive
    <2>1. PICK sha \in inFlight :
             /\ inFlight' = inFlight \ {sha}
             /\ seen' \in {seen, seen \union {sha}}
             /\ hook' = [pc |-> "bound", sha |-> sha] \/ UNCHANGED hook
      BY <1>3 DEF HookReceive
    <2>2. sha \in Commit /\ sha \in Sha
      BY DEF Commit, Sha
    <2>3. hook' \in HookType /\ (hook'.pc # "idle" => hook'.sha \in Commit)
      BY <2>1, <2>2 DEF HookType
    <2>4. inFlight' \subseteq Commit /\ seen' \subseteq Commit
      BY <2>1, <2>2
    <2> QED  BY <1>3, <2>3, <2>4 DEF HookReceive
  <1>4. CASE HookUpdate
    <2> DEFINE r == [repo EXCEPT !.latest = hook.sha, !.sync = "QUEUED"]
    <2>1. r \in RepoType /\ r.status = repo.status
      BY <1>4 DEF HookUpdate, RepoType, SyncStatus, ACTIVE, HookType
    <2>2. repo' \in RepoType /\ (repo'.status = "ABSENT" => repo' = Absent)
      BY <1>4, <2>1 DEF HookUpdate, update_repository
    <2> QED  BY <1>4, <2>2 DEF HookUpdate, HookType
  <1>5. CASE HookEnqueue
    <2>1. syncQ' \in Seq(Commit)
      BY <1>5 DEF HookEnqueue
    <2>2. hook' \in HookType /\ hook'.pc = "idle"
      BY <1>5 DEF HookEnqueue, HookType
    <2> QED  BY <1>5, <2>1, <2>2 DEF HookEnqueue
  <1>6. CASE HookUpdateFails \/ HookEnqueueFails
    <2> DEFINE r == [repo EXCEPT !.sync = "ERROR"]
    <2>1. r \in RepoType /\ r.status = repo.status
      BY DEF RepoType, SyncStatus
    <2>2. /\ seen' \subseteq Commit /\ hook'.pc = "idle" /\ hook' \in HookType
          /\ UNCHANGED <<head, inFlight, redelivered, graph, snapshots, clock, apiVars, queueVars, worker>>
      BY <1>6 DEF HookUpdateFails, HookEnqueueFails, DeleteKey, HookType
    <2>3. /\ repo' \in RepoType /\ (repo'.status = "ABSENT" => repo' = Absent)
          /\ unrecorded' \subseteq {"status", "sync"}
      BY <1>6, <2>1 DEF HookUpdateFails, HookEnqueueFails, RecordFailure, update_repository
    <2> QED  BY <2>2, <2>3
  <1> QED  BY <1>1, <1>2, <1>3, <1>4, <1>5, <1>6 DEF HookStep

(* The owner's requests, and the restart of the API.                       *)
LEMMA TypeRequest ==
    ASSUME TypeOK, NEW r \in Requests, NewRequest(r) \/ RequestStep(r)
    PROVE  TypeOK'
  <1> USE BoundsAssumption
      DEF TypeOK, Exists, ghVars, dbVars, queueVars, apiVars, EndRequest, SetRequest
  <1>1. CASE CreateRepository(r)
    <2> DEFINE u == [Absent EXCEPT !.status = "QUEUED", !.job = 1]
    <2>0. 1 \in Job /\ "QUEUED" \in Status
      BY DEF Job, Status, ACTIVE
    <2>1. u \in RepoType /\ u.status # "ABSENT"
      BY <2>0, AbsentType DEF RepoType
    <2>2. jobs' \in Job /\ requests' \in [Requests -> RequestType]
      BY <1>1 DEF CreateRepository, RequestType, Job
    <2> QED  BY <1>1, <2>1, <2>2 DEF CreateRepository
  <1>2. CASE ReindexRead(r)
    <2>1. requests' \in [Requests -> RequestType]
      BY <1>2 DEF ReindexRead, RequestType, Job
    <2> QED  BY <1>2, <2>1 DEF ReindexRead
  <1>3. CASE DeleteRead(r)
    <2>1. requests' \in [Requests -> RequestType]
      BY <1>3 DEF DeleteRead, RequestType, Job
    <2> QED  BY <1>3, <2>1 DEF DeleteRead
  <1>4. CASE PollRead(r)
    <2>1. requests' \in [Requests -> RequestType]
      BY <1>4 DEF PollRead, RequestType, RepoType, Job
    <2> QED  BY <1>4, <2>1 DEF PollRead
  <1>5. CASE ReindexUpdate(r)
    <2> DEFINE u == [repo EXCEPT !.status = "QUEUED", !.job = jobs']
    <2>1. jobs' \in Job
      BY <1>5 DEF ReindexUpdate, Job
    <2>2. u \in RepoType /\ u.status # "ABSENT"
      BY <2>1 DEF RepoType, Status, ACTIVE
    <2>3. repo' \in RepoType /\ (repo'.status = "ABSENT" => repo' = Absent)
      BY <1>5, <2>2, UpdateType DEF ReindexUpdate
    <2>4. requests' \in [Requests -> RequestType]
      BY <1>5, <2>1 DEF ReindexUpdate, RequestType
    <2> QED  BY <1>5, <2>1, <2>3, <2>4 DEF ReindexUpdate
  <1>6. CASE EnqueueIngest(r)
    <2>1. ingestQ' \in Seq(Job)
      BY <1>6 DEF EnqueueIngest, RequestType
    <2>2. requests' \in [Requests -> RequestType]
      BY <1>6 DEF EnqueueIngest, RequestType, Job
    <2> QED  BY <1>6, <2>1, <2>2 DEF EnqueueIngest
  <1>7. CASE EnqueueIngestFails(r)
    <2>1. [repo EXCEPT !.status = "FAILED"] \in RepoType
      BY DEF RepoType, Status
    <2>2. /\ repo' \in RepoType /\ (repo'.status = "ABSENT" => repo' = Absent)
          /\ unrecorded' \subseteq {"status", "sync"}
      BY <1>7, <2>1 DEF EnqueueIngestFails, RecordFailure, update_repository, RepoType
    <2>3. requests' \in [Requests -> RequestType]
      BY <1>7 DEF EnqueueIngestFails, RequestType, Job
    <2> QED  BY <1>7, <2>2, <2>3 DEF EnqueueIngestFails
  <1>8. CASE DeleteRepository(r)
    <2>1. requests' \in [Requests -> RequestType]
      BY <1>8 DEF DeleteRepository, RequestType, Job
    <2> QED  BY <1>8, <2>1, AbsentType DEF DeleteRepository, Sha
  <1>9. CASE PollUpdate(r)
    <2>1. [repo EXCEPT !.status = "FAILED"] \in RepoType
      BY DEF RepoType, Status
    <2>2. repo' \in RepoType /\ (repo'.status = "ABSENT" => repo' = Absent)
      BY <1>9, <2>1 DEF PollUpdate, update_repository, RepoType
    <2>3. requests' \in [Requests -> RequestType]
      BY <1>9 DEF PollUpdate, RequestType, Job
    <2> QED  BY <1>9, <2>2, <2>3 DEF PollUpdate
  <1>10. CASE RequestFails(r)
    <2>1. requests' \in [Requests -> RequestType]
      BY <1>10 DEF RequestFails, RequestType, Job
    <2> QED  BY <1>10, <2>1 DEF RequestFails
  <1> QED
    BY <1>1, <1>2, <1>3, <1>4, <1>5, <1>6, <1>7, <1>8, <1>9, <1>10 DEF NewRequest, RequestStep

LEMMA TypeRestart == ASSUME TypeOK, ApiRestart PROVE TypeOK'
  <1>1. hook' \in HookType /\ hook'.pc = "idle"
    BY DEF ApiRestart, TypeOK, HookType
  <1>2. requests' \in [Requests -> RequestType]
    BY BoundsAssumption DEF ApiRestart, TypeOK, RequestType, Job
  <1>3. unrecorded' \subseteq {"status", "sync"}
    BY DEF ApiRestart, TypeOK
  <1> QED
    BY <1>1, <1>2, <1>3, BoundsAssumption
    DEF ApiRestart, TypeOK, Exists, ghVars, dbVars, queueVars

LEMMA IdleType == IdleWorker \in WorkerType
  BY BoundsAssumption DEF IdleWorker, WorkerType, WorkerPC, Job, Sha

(* A work horse that goes on keeps its job.                                *)
LEMMA GotoType ==
    ASSUME TypeOK, NEW pc \in WorkerPC \ {"idle"}, worker.pc # "idle", Goto(pc),
           pc \in ClonedPCs => worker.pc \in ClonedPCs
    PROVE  /\ worker' \in WorkerType
           /\ worker' = [worker EXCEPT !.pc = pc]
           /\ worker'.pc = pc /\ worker'.origin = worker.origin
           /\ worker'.arg = worker.arg /\ worker'.rev = worker.rev
  BY DEF TypeOK, Goto, WorkerType

(* What each stage of a job leads to.                                      *)
LEMMA StageTypes ==
    ASSUME worker.pc \in DOMAIN NextStage
    PROVE  /\ NextStage[worker.pc] \in {"READY"} \union ACTIVE
           /\ NextStage[worker.pc] \in WorkerPC \ {"idle"}
           /\ NextStage[worker.pc] \in ClonedPCs => worker.pc \in ClonedPCs
           /\ NextStage[worker.pc] \notin {"check", "CURRENT", "STALE", "FAILED"}
           /\ worker.pc \notin {"idle", "check", "ANALYZING", "READY", "raised"}
  BY DEF NextStage, ACTIVE, WorkerPC, IngestPCs, ClonedPCs

(* The worker.                                                             *)
LEMMA TypeWorker == ASSUME TypeOK, WorkerStep \/ WorkHorseKilled PROVE TypeOK'
  <1> USE DEF ghVars, dbVars, queueVars, apiVars, Exists
  <1>1. CASE TakeIngest
    <2>1. ingestQ' \in Seq(Job) /\ Head(ingestQ) \in Job
      BY <1>1 DEF TakeIngest, TypeOK
    <2>2. worker' \in WorkerType /\ worker'.pc = "begin" /\ worker'.origin = "ingestion"
          /\ worker'.arg \in Job
      BY <1>1, <2>1, BoundsAssumption
      DEF TakeIngest, TypeOK, WorkerType, WorkerPC, IngestPCs, Sha
    <2> QED  BY <1>1, <2>1, <2>2 DEF TakeIngest, TypeOK, ClonedPCs
  <1>2. CASE TakeSync
    <2>1. syncQ' \in Seq(Commit) /\ Head(syncQ) \in Commit
      BY <1>2 DEF TakeSync, TypeOK
    <2>2. worker' \in WorkerType /\ worker'.pc = "check" /\ worker'.origin = "sync"
          /\ worker'.arg \in Commit
      BY <1>2, <2>1, BoundsAssumption
      DEF TakeSync, TypeOK, WorkerType, WorkerPC, Sha, Commit
    <2> QED  BY <1>2, <2>1, <2>2 DEF TakeSync, TypeOK, ClonedPCs
  <1>3. CASE SyncCheck
    <2>1. AfterCheck(worker.arg) \in {"raised", "idle", "CURRENT", "begin"}
      BY DEF AfterCheck
    <2>2. CASE AfterCheck(worker.arg) = "idle"
      BY <1>3, <2>2, IdleType DEF SyncCheck, TypeOK, IdleWorker, ClonedPCs
    <2>3. CASE AfterCheck(worker.arg) # "idle"
      <3>1. AfterCheck(worker.arg) \in WorkerPC \ {"idle"} /\ AfterCheck(worker.arg) \notin ClonedPCs
        BY <2>1, <2>3 DEF WorkerPC, IngestPCs, ClonedPCs
      <3>2. worker.pc = "check" /\ Goto(AfterCheck(worker.arg))
        BY <1>3, <2>3 DEF SyncCheck
      <3> QED  BY <1>3, <3>1, <3>2, GotoType DEF SyncCheck, TypeOK
    <2> QED  BY <2>2, <2>3
  <1>4. CASE Stage
    <2>1. Write(NextStage[worker.pc]) /\ Goto(NextStage[worker.pc]) /\ worker.pc \in DOMAIN NextStage
      BY <1>4 DEF Stage
    <2>2. /\ repo' \in RepoType /\ (repo'.status = "ABSENT" => repo' = Absent)
          /\ unrecorded' \subseteq {"status", "sync"}
      BY <2>1, StageTypes, WriteType DEF ACTIVE
    <2> QED  BY <1>4, <2>1, <2>2, StageTypes, GotoType DEF Stage, TypeOK
  <1>5. CASE Clone
    <2>0. "CLONED" \in WorkerPC /\ head \in Sha /\ head \in Commit
      BY DEF TypeOK, WorkerPC, IngestPCs, Commit, Sha
    <2>1. worker' \in WorkerType /\ worker'.pc = "CLONED" /\ worker'.rev \in Commit
          /\ worker'.origin = worker.origin /\ worker'.arg = worker.arg
      BY <1>5, <2>0 DEF Clone, TypeOK, ClonedRevision, WorkerType
    <2>2. worker.pc = "CLONING"
      BY <1>5 DEF Clone
    <2> QED  BY <1>5, <2>1, <2>2 DEF Clone, TypeOK
  <1>6. CASE Publish
    <2>1. PublishedRepo \in RepoType /\ PublishedRepo.status = repo.status
      BY DEF TypeOK, PublishedRepo, RepoType, SyncStatus, WorkerType
    <2>2. repo' \in RepoType /\ (repo'.status = "ABSENT" => repo' = Absent)
      BY <1>6, <2>1 DEF Publish, update_repository, TypeOK
    <2>3. worker.rev \in Commit /\ clock' \in Nat
      BY <1>6 DEF Publish, TypeOK, ClonedPCs
    <2>4. snapshots' \subseteq [sha : Commit, at : Nat]
      BY <1>6, <2>3 DEF Publish, TypeOK, Prune, Merge
    <2>5. graph' \in Sha
      BY <1>6, <2>3 DEF Publish, Sha, Commit
    <2>6. worker.pc = "ANALYZING" /\ Goto("PUBLISHED") /\ "PUBLISHED" \in WorkerPC \ ClonedPCs
      BY <1>6 DEF Publish, WorkerPC, IngestPCs, ClonedPCs
    <2> QED  BY <1>6, <2>2, <2>3, <2>4, <2>5, <2>6, GotoType DEF Publish, TypeOK
  <1>7. CASE IngestDone
    BY <1>7, IdleType DEF IngestDone, TypeOK, IdleWorker, ClonedPCs
  <1>8. CASE IngestFails
    <2> DEFINE pc == IF worker.origin = "sync" THEN "FAILED" ELSE "raised"
    <2>1. /\ repo' \in RepoType /\ (repo'.status = "ABSENT" => repo' = Absent)
          /\ unrecorded' \subseteq {"status", "sync"}
      BY <1>8, WriteType DEF IngestFails
    <2>2. worker.pc # "idle" /\ Goto(pc) /\ pc \in WorkerPC \ ClonedPCs /\ pc # "idle"
      BY <1>8 DEF IngestFails, IngestPCs, ACTIVE, WorkerPC, ClonedPCs
    <2>3. pc = "FAILED" => worker.origin = "sync"
      OBVIOUS
    <2>4. pc \notin {"check", "CURRENT", "STALE"}
      OBVIOUS
    <2> HIDE DEF pc
    <2> QED  BY <1>8, <2>1, <2>2, <2>3, <2>4, GotoType DEF IngestFails, TypeOK
  <1>9. CASE SyncDecide
    <2>1. worker.pc # "idle" /\ Goto(Outcome) /\ Outcome \in WorkerPC \ ClonedPCs /\ Outcome # "idle"
          /\ worker.origin = "sync"
      BY <1>9 DEF SyncDecide, Outcome, WorkerPC, ClonedPCs
    <2> QED  BY <1>9, <2>1, GotoType DEF SyncDecide, TypeOK
  <1>10. CASE SyncFinish
    <2>1. /\ repo' \in RepoType /\ (repo'.status = "ABSENT" => repo' = Absent)
          /\ unrecorded' \subseteq {"status", "sync"}
      <3>1. worker.pc \in {"CURRENT", "STALE"} /\ worker.origin = "sync" /\ Write(worker.pc)
        BY <1>10 DEF SyncFinish, TypeOK
      <3> QED  BY <3>1, WriteType
    <2> QED  BY <1>10, <2>1, IdleType DEF SyncFinish, TypeOK, IdleWorker, ClonedPCs
  <1>11. CASE SyncFails
    <2>1. /\ repo' \in RepoType /\ (repo'.status = "ABSENT" => repo' = Absent)
          /\ unrecorded' \subseteq {"status", "sync"}
      BY <1>11, WriteType DEF SyncFails
    <2>2. worker.pc # "idle" /\ Goto("raised") /\ "raised" \in WorkerPC \ ClonedPCs
      BY <1>11 DEF SyncFails, WorkerPC, ClonedPCs
    <2> QED  BY <1>11, <2>1, <2>2, GotoType DEF SyncFails, TypeOK
  <1>12. CASE JobFailed /\ worker.pc # "idle"
    <2>1. FailureRecord \in RepoType
      BY DEF TypeOK, FailureRecord, fail_sync_if_active, RepoType, Status, SyncStatus
    <2>2. FailureRecord.status = "ABSENT" => repo.status = "ABSENT"
      BY DEF TypeOK, FailureRecord, fail_sync_if_active, RepoType
    <2>4. Field \in {"status", "sync"}
      BY DEF Field
    <2>5. /\ repo' \in RepoType /\ (repo'.status = "ABSENT" => repo' = Absent)
          /\ unrecorded' \subseteq {"status", "sync"}
      BY <1>12, <2>1, <2>2, <2>4, RecordType DEF JobFailed
    <2>3. failed' \subseteq Job
      BY <1>12 DEF JobFailed, TypeOK, WorkerType
    <2> QED  BY <1>12, <2>5, <2>3, IdleType DEF JobFailed, TypeOK, IdleWorker, ClonedPCs
  <1>13. CASE SyncRaises
    <2>1. worker.pc # "idle" /\ Goto("raised") /\ "raised" \in WorkerPC \ ClonedPCs
      BY <1>13 DEF SyncRaises, WorkerPC, ClonedPCs
    <2> QED  BY <1>13, <2>1, GotoType DEF SyncRaises, TypeOK
  <1> QED
    BY <1>1, <1>2, <1>3, <1>4, <1>5, <1>6, <1>7, <1>8, <1>9, <1>10, <1>11, <1>12, <1>13
    DEF WorkerStep, FailureCallback, WorkHorseKilled

LEMMA TypeStep == TypeOK /\ [Next]_vars => TypeOK'
  <1> SUFFICES ASSUME TypeOK, [Next]_vars PROVE TypeOK'
    OBVIOUS
  <1>1. CASE UNCHANGED vars
    BY <1>1 DEF vars, ghVars, dbVars, queueVars, apiVars, TypeOK, Exists
  <1> QED
    BY <1>1, TypeGitHub, TypeRequest, TypeRestart, TypeWorker DEF Next, HookStep

(* Every variable keeps its type, whatever the constants are: in           *)
(* particular a deleted repository is never half written again, and a      *)
(* job that is past its clone holds a commit.                              *)
THEOREM TypeCorrect == Spec => []TypeOK
  BY TypeInit, TypeStep, PTL DEF Spec

-----------------------------------------------------------------------------
(* Inductive strengthenings.                                               *)

(* Before the repository is created nothing can refer to it.               *)
Untouched ==
    jobs = 0 =>
        /\ ~Exists /\ graph = 0 /\ snapshots = {}
        /\ worker.pc = "idle" /\ ingestQ = <<>> /\ syncQ = <<>> /\ hook.pc = "idle"
        /\ \A r \in Requests : requests[r].pc = "idle"

(* Why the version served is never replaced by an older one: what the work *)
(* horse has cloned is at least as new as the graph, because nothing but   *)
(* the one worker publishes and the branch only grows.                     *)
VersionInv ==
    /\ Untouched
    /\ PublishedTogether
    /\ graph <= head
    /\ worker.pc \in ClonedPCs => graph <= worker.rev /\ worker.rev <= head
    /\ worker.pc = "PUBLISHED" /\ Exists => graph # 0
    /\ \A s \in snapshots : s.at <= clock

(* The job of an active status, more exactly: at READY it has written its  *)
(* last status.                                                            *)
ActiveInv ==
    repo.status \in ACTIVE =>
        \/ \E r \in Requests : requests[r].pc = "queued"
        \/ ingestQ # <<>>
        \/ worker.origin = "ingestion" /\ worker.pc # "READY"
        \/ "status" \in unrecorded

(* A job about to find itself superseded does not count.                   *)
ActiveSyncInv ==
    repo.sync \in ACTIVE =>
        \/ hook.pc = "updated" /\ hook.sha = repo.latest
        \/ InSyncQ(repo.latest)
        \/ worker.origin = "sync" /\ (worker.pc = "check" => worker.arg = repo.latest)
        \/ "sync" \in unrecorded

(* A job for the newest push waits behind whatever the worker does.        *)
Pending == (hook.pc = "updated" /\ hook.sha = repo.latest) \/ InSyncQ(repo.latest)

(* Why no accepted push is forgotten: the worker's job is for the newest   *)
(* push, or another one waits; and a job that has published, or found      *)
(* nothing to do, has its commit in the index.                             *)
PushInv ==
    /\ Untouched
    /\ \A sha \in inFlight : sha <= head
    /\ hook.pc # "idle" => hook.sha <= head
    /\ \A i \in 1..Len(syncQ) : syncQ[i] <= head
    /\ worker.origin = "sync" =>
        /\ worker.arg <= head
        /\ worker.pc \in ClonedPCs => worker.arg <= worker.rev
        /\ Exists /\ worker.pc # "check" /\ worker.arg # repo.latest => Pending
        /\ Exists /\ worker.pc \in {"PUBLISHED", "READY", "CURRENT", "STALE"} =>
             worker.arg <= repo.indexed
    /\ repo.latest > repo.indexed =>
        \/ repo.sync \in {"ERROR", "FAILED"}
        \/ Pending
        \/ /\ worker.origin = "sync" /\ worker.arg = repo.latest
           /\ worker.pc \in {"check", "begin", "CLONING"} \union ClonedPCs

-----------------------------------------------------------------------------
(* Nothing happens to the repository before it is created.                 *)
LEMMA UntouchedStep ==
    ASSUME TypeOK, Untouched, [Next]_vars
    PROVE  Untouched'
  <1> USE DEF ghVars, dbVars, queueVars, apiVars
  <1>0. SUFFICES ASSUME jobs' = 0 PROVE Untouched'
    BY DEF Untouched
  <1>1. CASE UNCHANGED vars
    BY <1>1 DEF vars, Untouched, Exists
  <1>2. CASE Push \/ Redeliver
    BY <1>2 DEF Push, Redeliver, Untouched, Exists
  <1>3. CASE HookReceive
    BY <1>3, <1>0 DEF HookReceive, Untouched, Exists
  <1>4. CASE HookStep
    BY <1>4, <1>0 DEF HookStep, HookUpdate, HookUpdateFails, HookEnqueue, HookEnqueueFails,
               Untouched
  <1>5. ASSUME NEW r \in Requests, NewRequest(r) \/ RequestStep(r) PROVE Untouched'
    <2>1. jobs = 0 => requests[r].pc = "idle" /\ repo.status = "ABSENT"
      BY DEF Untouched, Exists
    <2>2. CASE NewRequest(r)
      BY <2>1, <2>2, <1>0
      DEF NewRequest, CreateRepository, ReindexRead, DeleteRead, PollRead, Exists, ACTIVE
    <2>3. CASE RequestStep(r)
      <3>1. jobs' # jobs => jobs' = jobs + 1
        BY <2>3 DEF RequestStep, ReindexUpdate, EnqueueIngest, EnqueueIngestFails,
                    DeleteRepository, PollUpdate, RequestFails
      <3>2. jobs = 0
        BY <3>1, <1>0 DEF TypeOK, Job
      <3> QED
        BY <2>1, <2>3, <3>2 DEF RequestStep, ReindexUpdate, EnqueueIngest, EnqueueIngestFails,
                                DeleteRepository, PollUpdate, RequestFails
    <2> QED  BY <1>5, <2>2, <2>3
  <1>6. CASE ApiRestart
    BY <1>6, <1>0 DEF ApiRestart, Untouched, Exists
  <1>7. CASE WorkerStep \/ WorkHorseKilled
    <2>1. jobs' = jobs
      BY <1>7 DEF WorkerStep, WorkHorseKilled, TakeIngest, TakeSync, SyncCheck, Stage, Clone,
                  Publish, IngestDone, IngestFails, SyncDecide, SyncFinish, SyncFails,
                  SyncRaises, FailureCallback, JobFailed
    <2>2. worker.pc = "idle" /\ ingestQ = <<>> /\ syncQ = <<>>
      BY <2>1, <1>0 DEF Untouched
    <2>3. worker.pc \notin DOMAIN NextStage /\ worker.pc \notin IngestPCs
      BY <2>2 DEF NextStage, IngestPCs, ACTIVE
    <2> QED
      BY <1>7, <2>2, <2>3
      DEF WorkerStep, WorkHorseKilled, TakeIngest, TakeSync, SyncCheck, Stage, Clone,
          Publish, IngestDone, IngestFails, SyncDecide, SyncFinish, SyncFails, SyncRaises,
          FailureCallback
  <1> QED
    BY <1>1, <1>2, <1>3, <1>4, <1>5, <1>6, <1>7 DEF Next

-----------------------------------------------------------------------------
(* The served version.                                                     *)

LEMMA VersionInit == Init => VersionInv
  BY DEF Init, VersionInv, Untouched, PublishedTogether, Exists, Absent, IdleWorker, ClonedPCs

(* A step that publishes nothing and clones nothing keeps VersionInv.      *)
LEMMA VersionFrame ==
    ASSUME TypeOK, TypeOK', VersionInv, Untouched',
           UNCHANGED <<graph, snapshots, clock>>, head' >= head,
           Exists' => /\ Exists /\ repo'.indexed = repo.indexed
                      /\ repo'.status = "READY" => repo.status = "READY" \/ graph # 0,
           worker'.pc \in ClonedPCs => worker.pc \in ClonedPCs /\ worker'.rev = worker.rev,
           worker'.pc = "PUBLISHED" => worker.pc = "PUBLISHED"
    PROVE  VersionInv'
  <1> USE DEF VersionInv
  <1>1. graph' <= head' /\ (worker'.pc \in ClonedPCs => graph' <= worker'.rev /\ worker'.rev <= head')
    BY DEF TypeOK, Sha, Commit, WorkerType
  <1>2. PublishedTogether'
    BY DEF PublishedTogether
  <1>3. \A s \in snapshots' : s.at <= clock'
    OBVIOUS
  <1> QED  BY <1>1, <1>2, <1>3

(* What every step but creation, deletion and publication leaves alone.    *)
Quiet ==
    /\ UNCHANGED <<graph, snapshots, clock>> /\ head' >= head
    /\ Exists' <=> Exists
    /\ Exists => repo'.indexed = repo.indexed

LEMMA QuietGitHub ==
    ASSUME TypeOK, Push \/ Redeliver \/ HookReceive \/ HookStep \/ ApiRestart
    PROVE  Quiet /\ repo'.status = repo.status /\ UNCHANGED worker
  <1> USE DEF ghVars, dbVars, queueVars, apiVars, Exists
  <1>1. head' >= head
    BY DEF TypeOK, Commit, Push, Redeliver, HookReceive, HookStep, HookUpdate,
           HookUpdateFails, HookEnqueue, HookEnqueueFails, ApiRestart
  <1>2. CASE HookUpdate \/ HookUpdateFails \/ HookEnqueueFails
    BY <1>1, <1>2 DEF HookUpdate, HookUpdateFails, HookEnqueueFails, RecordFailure, Quiet, update_repository, TypeOK, RepoType
  <1>3. CASE Push \/ Redeliver \/ HookReceive \/ HookEnqueue \/ ApiRestart
    BY <1>1, <1>3 DEF Push, Redeliver, HookReceive, HookEnqueue, ApiRestart, Quiet
  <1> QED  BY <1>2, <1>3 DEF HookStep

LEMMA QuietRequest ==
    ASSUME TypeOK, NEW r \in Requests,
           \/ ReindexRead(r) \/ DeleteRead(r) \/ PollRead(r) \/ ReindexUpdate(r)
           \/ EnqueueIngest(r) \/ EnqueueIngestFails(r) \/ PollUpdate(r) \/ RequestFails(r)
    PROVE  Quiet /\ repo'.status \in {repo.status, "QUEUED", "FAILED"} /\ UNCHANGED worker
  <1> USE DEF ghVars, dbVars, queueVars, apiVars, Exists, Quiet
  <1>1. head >= head
    BY DEF TypeOK, Commit
  <1>2. CASE ReindexUpdate(r)
    BY <1>1, <1>2 DEF ReindexUpdate, update_repository, TypeOK, RepoType
  <1>3. CASE EnqueueIngestFails(r) \/ PollUpdate(r)
    BY <1>1, <1>3 DEF EnqueueIngestFails, PollUpdate, RecordFailure, update_repository, TypeOK, RepoType
  <1>4. CASE ReindexRead(r) \/ DeleteRead(r) \/ PollRead(r) \/ EnqueueIngest(r) \/ RequestFails(r)
    BY <1>1, <1>4 DEF ReindexRead, DeleteRead, PollRead, EnqueueIngest, RequestFails
  <1> QED  BY <1>2, <1>3, <1>4

LEMMA QuietWrite ==
    ASSUME TypeOK, NEW s \in {"FAILED", "READY", "CURRENT", "STALE", "ERROR"} \union ACTIVE,
           Write(s)
    PROVE  /\ Exists' <=> Exists
           /\ unrecorded' = unrecorded \ {Field}
           /\ repo'.indexed = repo.indexed /\ repo'.latest = repo.latest
           /\ worker.origin = "sync" => repo'.status = repo.status
           /\ worker.origin # "sync" => repo'.sync = repo.sync
           /\ Exists => (IF worker.origin = "sync" THEN repo'.sync ELSE repo'.status) = s
           /\ ~Exists => repo' = repo
  BY DEF TypeOK, Write, update_repository, Exists, RepoType, ACTIVE

LEMMA QuietFailure ==
    ASSUME TypeOK, JobFailed
    PROVE  /\ Quiet /\ repo'.status \in {repo.status, "FAILED"} /\ worker'.pc = "idle"
           /\ repo'.latest = repo.latest /\ repo'.indexed = repo.indexed
           /\ repo'.sync \in {repo.sync, "ERROR"}
           /\ worker.origin = "sync" =>
                /\ repo'.status = repo.status
                /\ repo'.sync \notin ACTIVE \/ "sync" \in unrecorded'
                /\ "status" \in unrecorded => "status" \in unrecorded'
           /\ worker.origin # "sync" =>
                /\ repo'.sync = repo.sync
                /\ Exists => repo'.status = "FAILED" \/ "status" \in unrecorded'
                /\ "sync" \in unrecorded => "sync" \in unrecorded'
  <1> USE DEF Exists, TypeOK, RepoType
  <1>1. /\ UNCHANGED <<graph, snapshots, clock, head>> /\ worker'.pc = "idle"
        /\ RecordFailure(Field, FailureRecord)
    BY DEF JobFailed, IdleWorker, ghVars
  <1>2. head' >= head
    BY <1>1 DEF Commit
  <1>3. /\ FailureRecord.indexed = repo.indexed /\ FailureRecord.latest = repo.latest
        /\ worker.origin = "sync" =>
             /\ FailureRecord.status = repo.status
             /\ FailureRecord.sync = (IF repo.sync \in ACTIVE THEN "ERROR" ELSE repo.sync)
        /\ worker.origin # "sync" =>
             FailureRecord.status = "FAILED" /\ FailureRecord.sync = repo.sync
    BY DEF FailureRecord, fail_sync_if_active
  <1>4. repo.status = "ABSENT" => repo.sync \notin ACTIVE
    BY DEF Absent, ACTIVE
  <1>5. \/ /\ repo' = (IF Exists THEN FailureRecord ELSE repo)
           /\ unrecorded' = unrecorded \ {Field}
        \/ repo' = repo /\ unrecorded' = unrecorded \union {Field}
    BY <1>1 DEF RecordFailure, update_repository
  <1>6. Field = (IF worker.origin = "sync" THEN "sync" ELSE "status")
    BY DEF Field
  <1>7. "ERROR" \notin ACTIVE /\ "FAILED" # "ABSENT" /\ "sync" # "status"
    BY DEF ACTIVE
  <1>8. Quiet
    BY <1>1, <1>2, <1>3, <1>5, <1>7 DEF Quiet
  <1>9. CASE worker.origin = "sync"
    BY <1>1, <1>3, <1>4, <1>5, <1>6, <1>7, <1>8, <1>9
  <1>10. CASE worker.origin # "sync"
    BY <1>1, <1>3, <1>5, <1>6, <1>7, <1>8, <1>10
  <1> QED  BY <1>9, <1>10

(* A worker step that does not publish.                                    *)
LEMMA QuietWorker ==
    ASSUME TypeOK,
           \/ TakeIngest \/ TakeSync \/ SyncCheck \/ Stage \/ Clone \/ IngestDone
           \/ IngestFails \/ SyncDecide \/ SyncFinish \/ SyncFails \/ SyncRaises
    PROVE  /\ Quiet /\ UNCHANGED head
           /\ worker'.pc \in ClonedPCs =>
                \/ worker.pc \in ClonedPCs /\ worker'.rev = worker.rev
                \/ worker'.rev = head
           /\ worker'.pc = "PUBLISHED" => worker.pc = "PUBLISHED"
           /\ repo'.status = "READY" => repo.status = "READY" \/ worker.pc = "PUBLISHED"
  <1> USE DEF ghVars, dbVars, queueVars, apiVars
  <1>0. head >= head
    BY DEF TypeOK, Commit
  <1>1. CASE TakeIngest \/ TakeSync \/ SyncCheck \/ IngestDone \/ SyncDecide \/ SyncRaises
    <2>1. UNCHANGED <<repo, graph, snapshots, clock, head>>
      BY <1>1 DEF TakeIngest, TakeSync, SyncCheck, IngestDone, SyncDecide, SyncRaises
    <2>2. worker'.pc \in {"begin", "check", "idle", "raised", "CURRENT", "STALE"}
      BY <1>1 DEF TakeIngest, TakeSync, SyncCheck, AfterCheck, IngestDone, SyncDecide, SyncRaises,
                  Outcome, Goto, IdleWorker, TypeOK, WorkerType
    <2> QED  BY <1>0, <2>1, <2>2 DEF Quiet, Exists, ClonedPCs
  <1>2. CASE Clone
    BY <1>0, <1>2 DEF Clone, ClonedRevision, Quiet, Exists, TypeOK, WorkerType
  <1>3. CASE Stage
    <2>1. /\ worker.pc \in DOMAIN NextStage
          /\ Write(NextStage[worker.pc]) /\ Goto(NextStage[worker.pc])
          /\ UNCHANGED <<head, graph, snapshots, clock>>
      BY <1>3 DEF Stage
    <2>2. /\ worker'.pc = NextStage[worker.pc] /\ worker'.rev = worker.rev
      BY <2>1, StageTypes, GotoType DEF ACTIVE
    <2>3. NextStage[worker.pc] = "READY" => worker.pc = "PUBLISHED"
      BY <2>1 DEF NextStage
    <2>4. NextStage[worker.pc] # "PUBLISHED"
      BY <2>1 DEF NextStage
    <2>5. NextStage[worker.pc] \in {"FAILED", "READY", "CURRENT", "STALE", "ERROR"} \union ACTIVE
      BY <2>1, StageTypes
    <2>6. Quiet
      BY <1>0, <2>1, <2>5, QuietWrite DEF Quiet
    <2>7. repo'.status = "READY" => repo.status = "READY" \/ NextStage[worker.pc] = "READY"
      BY <2>1, <2>5, QuietWrite
    <2> QED  BY <2>1, <2>2, <2>3, <2>4, <2>6, <2>7, StageTypes
  <1>4. CASE IngestFails \/ SyncFails \/ SyncFinish
    <2>1. (\E s \in {"FAILED", "CURRENT", "STALE", "ERROR"} : Write(s)) \/ UNCHANGED repo
      BY <1>4 DEF IngestFails, SyncFails, SyncFinish, WriteFails
    <2>2. UNCHANGED <<head, graph, snapshots, clock>>
      BY <1>4 DEF IngestFails, SyncFails, SyncFinish
    <2>3. worker'.pc \in {"FAILED", "raised", "idle"}
      BY <1>4 DEF IngestFails, SyncFails, SyncFinish, Goto, IdleWorker, TypeOK, WorkerType
    <2>4. Quiet /\ (repo'.status = "READY" => repo.status = "READY")
      BY <1>0, <2>1, <2>2, QuietWrite DEF Quiet, Exists
    <2> QED  BY <2>2, <2>3, <2>4 DEF ClonedPCs
  <1> QED  BY <1>1, <1>2, <1>3, <1>4

(* The commit just published is the newest snapshot, and is not pruned.    *)
LEMMA PublishedRetained ==
    ASSUME VersionInv, TypeOK, Publish
    PROVE  /\ [sha |-> worker.rev, at |-> clock'] \in snapshots'
           /\ \A s \in snapshots' : s.at <= clock'
           /\ \A s \in snapshots' : s \in snapshots \/ s.sha = worker.rev
  <1> DEFINE new == [sha |-> worker.rev, at |-> clock + 1]
  <1> DEFINE M == Merge(snapshots, worker.rev, clock + 1)
  <1>1. clock \in Nat /\ clock' = clock + 1 /\ snapshots' = Prune(M)
    BY DEF Publish, TypeOK
  <1>2. new \in M /\ \A t \in M : t.at \in Nat /\ t.at <= clock + 1
    BY <1>1 DEF Merge, VersionInv, TypeOK
  <1>3. {t \in M : t.at > new.at} = {}
    BY <1>1, <1>2
  <1>4. Cardinality({t \in M : t.at > new.at}) < Keep
    BY <1>3, FS_EmptySet, BoundsAssumption
  <1>5. new \in Prune(M)
    BY <1>2, <1>4 DEF Prune
  <1>6. Prune(M) \subseteq M
    BY DEF Prune
  <1> QED  BY <1>1, <1>2, <1>5, <1>6 DEF Merge

LEMMA VersionPublish ==
    ASSUME TypeOK, TypeOK', VersionInv, Untouched', Publish
    PROVE  VersionInv'
  <1>1. worker.pc = "ANALYZING" /\ worker.rev \in Commit /\ graph <= worker.rev /\ worker.rev <= head
    BY DEF Publish, TypeOK, VersionInv, ClonedPCs
  <1>2. /\ graph' = worker.rev /\ head' = head /\ graph' # 0
        /\ worker'.pc = "PUBLISHED" /\ worker'.rev = worker.rev
    BY <1>1 DEF Publish, Goto, ghVars, TypeOK, WorkerType, Commit
  <1>3. \E s \in snapshots' : s.sha = graph'
    BY <1>2, PublishedRetained
  <1>4. PublishedTogether'
    <2>1. Exists' => repo'.indexed = graph'
      BY <1>2 DEF Publish, Exists, update_repository, PublishedRepo, TypeOK, RepoType
    <2> QED  BY <1>2, <1>3, <2>1 DEF PublishedTogether
  <1>5. \A s \in snapshots' : s.at <= clock'
    BY PublishedRetained
  <1>6. graph' <= head'
    BY <1>1, <1>2
  <1> QED  BY <1>2, <1>3, <1>4, <1>5, <1>6 DEF VersionInv, ClonedPCs

LEMMA VersionStep ==
    ASSUME TypeOK, TypeOK', VersionInv, [Next]_vars
    PROVE  VersionInv'
  <1>0. Untouched'
    BY UntouchedStep DEF VersionInv
  <1>1. CASE UNCHANGED vars
    BY <1>1, <1>0 DEF vars, ghVars, dbVars, VersionInv, PublishedTogether, Exists
  <1>2. CASE Push \/ Redeliver \/ HookReceive \/ HookStep \/ ApiRestart
    BY <1>0, <1>2, QuietGitHub, VersionFrame DEF Quiet
  <1>3. ASSUME NEW r \in Requests, NewRequest(r) \/ RequestStep(r) PROVE VersionInv'
    <2>1. CASE CreateRepository(r)
      <3>1. graph = 0 /\ snapshots = {} /\ worker.pc = "idle"
        BY <2>1 DEF CreateRepository, VersionInv, Untouched
      <3>2. UNCHANGED <<graph, snapshots, clock, head, worker>>
            /\ repo'.indexed = 0 /\ repo'.status = "QUEUED"
        BY <2>1 DEF CreateRepository, ghVars, Absent
      <3> QED
        BY <1>0, <3>1, <3>2 DEF VersionInv, PublishedTogether, Exists, ClonedPCs
    <2>2. CASE DeleteRepository(r)
      <3>1. UNCHANGED <<clock, head, worker>> /\ graph' = 0 /\ snapshots' = {} /\ ~Exists'
        BY <2>2 DEF DeleteRepository, ghVars, Absent, Exists
      <3>2. worker'.pc \in ClonedPCs => 0 <= worker'.rev /\ worker'.rev <= head'
        BY <3>1 DEF VersionInv, TypeOK, Commit
      <3>3. 0 <= head'
        BY <3>1 DEF TypeOK, Commit
      <3> QED  BY <1>0, <3>1, <3>2, <3>3 DEF VersionInv, PublishedTogether
    <2>3. CASE \/ ReindexRead(r) \/ DeleteRead(r) \/ PollRead(r) \/ ReindexUpdate(r)
               \/ EnqueueIngest(r) \/ EnqueueIngestFails(r) \/ PollUpdate(r) \/ RequestFails(r)
      BY <1>0, <2>3, QuietRequest, VersionFrame DEF Quiet
    <2> QED  BY <1>3, <2>1, <2>2, <2>3 DEF NewRequest, RequestStep
  <1>4. CASE Publish
    BY <1>0, <1>4, VersionPublish
  <1>5. CASE Clone
    <2>1. Quiet /\ UNCHANGED <<head, repo>> /\ worker'.pc = "CLONED" /\ worker'.rev = head
      BY <1>5, QuietWorker DEF Clone, ClonedRevision, dbVars, TypeOK, WorkerType
    <2>2. graph' <= worker'.rev /\ worker'.rev <= head'
      BY <2>1 DEF Quiet, VersionInv, TypeOK, Commit, Sha
    <2> QED
      BY <1>0, <2>1, <2>2 DEF Quiet, VersionInv, PublishedTogether, Exists
  <1>6. CASE \/ TakeIngest \/ TakeSync \/ SyncCheck \/ Stage \/ IngestDone
             \/ IngestFails \/ SyncDecide \/ SyncFinish \/ SyncFails \/ SyncRaises
    <2>1. worker'.pc \in ClonedPCs => worker.pc \in ClonedPCs /\ worker'.rev = worker.rev
      <3>1. CASE Stage
        BY <3>1, StageTypes, GotoType DEF Stage
      <3>2. CASE ~Stage
        BY <1>6, <3>2 DEF TakeIngest, TakeSync, SyncCheck, AfterCheck, IngestDone, SyncDecide, Outcome,
             IngestFails, SyncFinish, SyncFails, SyncRaises, Goto, IdleWorker, ClonedPCs, TypeOK,
             WorkerType
      <3> QED  BY <3>1, <3>2
    <2>2. worker.pc = "PUBLISHED" /\ Exists => graph # 0
      BY DEF VersionInv
    <2> QED  BY <1>0, <1>6, <2>1, <2>2, QuietWorker, VersionFrame DEF Quiet
  <1>7. CASE JobFailed
    BY <1>0, <1>7, QuietFailure, VersionFrame DEF Quiet, ClonedPCs
  <1> QED
    BY <1>1, <1>2, <1>3, <1>4, <1>5, <1>6, <1>7
    DEF Next, WorkerStep, FailureCallback, WorkHorseKilled

(* What the metadata says is indexed is the graph in the database, and a   *)
(* READY repository has one: kills, failures, restarts, late webhooks and  *)
(* concurrent requests included.                                           *)
THEOREM PublishedTogetherHolds == Spec => []PublishedTogether
  <1>1. Init => TypeOK /\ VersionInv
    BY TypeInit, VersionInit
  <1>2. TypeOK /\ VersionInv /\ [Next]_vars => (TypeOK /\ VersionInv)'
    BY TypeStep, VersionStep
  <1>3. VersionInv => PublishedTogether
    BY DEF VersionInv
  <1> QED  BY <1>1, <1>2, <1>3, PTL DEF Spec

-----------------------------------------------------------------------------
(* The repository implements the abstract versioned graph.                 *)

(* A quiet step is a stutter of the abstract graph.                        *)
LEMMA QuietRefines ==
    ASSUME Quiet
    PROVE  UNCHANGED Versioned!vars
  BY DEF Quiet, Versioned!vars, Exists

LEMMA RefinementStep ==
    ASSUME TypeOK, VersionInv, [Next]_vars
    PROVE  [Versioned!Next]_(Versioned!vars)
  <1>1. CASE UNCHANGED vars
    BY <1>1 DEF vars, dbVars, Versioned!vars, Exists
  <1>2. CASE Push \/ Redeliver \/ HookReceive \/ HookStep \/ ApiRestart
    BY <1>2, QuietGitHub, QuietRefines
  <1>3. ASSUME NEW r \in Requests, NewRequest(r) \/ RequestStep(r)
        PROVE  [Versioned!Next]_(Versioned!vars)
    <2>1. CASE CreateRepository(r)
      <3>1. ~Exists /\ graph = 0 /\ snapshots = {} /\ UNCHANGED <<graph, snapshots>>
        BY <2>1 DEF CreateRepository, VersionInv, Untouched
      <3> QED  BY <3>1 DEF Versioned!vars
    <2>2. CASE DeleteRepository(r)
      <3>1. ~Exists'
        BY <2>2 DEF DeleteRepository, Absent, Exists
      <3> QED  BY <3>1 DEF Versioned!Next, Versioned!Remove
    <2>3. CASE \/ ReindexRead(r) \/ DeleteRead(r) \/ PollRead(r) \/ ReindexUpdate(r)
               \/ EnqueueIngest(r) \/ EnqueueIngestFails(r) \/ PollUpdate(r) \/ RequestFails(r)
      BY <2>3, QuietRequest, QuietRefines
    <2> QED  BY <1>3, <2>1, <2>2, <2>3 DEF NewRequest, RequestStep
  <1>4. CASE Publish
    <2>1. Exists' <=> Exists
      BY <1>4 DEF Publish, Exists, update_repository, PublishedRepo, TypeOK, RepoType
    <2>2. CASE ~Exists
      BY <2>1, <2>2 DEF Versioned!vars
    <2>3. CASE Exists
      <3> DEFINE shas == {s.sha : s \in snapshots}
      <3>1. worker.rev \in Commit /\ worker.rev >= graph /\ graph' = worker.rev
        BY <1>4 DEF Publish, VersionInv, ClonedPCs, TypeOK, Commit, Sha
      <3>2. worker.rev \in {s.sha : s \in snapshots'}
        BY <1>4, PublishedRetained
      <3>3. {s.sha : s \in snapshots'} \subseteq shas \union {worker.rev}
        BY <1>4, PublishedRetained
      <3>4. \E v \in Commit : Versioned!Replace(v)
        BY <2>1, <2>3, <3>1, <3>2, <3>3 DEF Versioned!Replace
      <3> QED  BY <3>4 DEF Versioned!Next
    <2> QED  BY <2>2, <2>3
  <1>5. CASE \/ TakeIngest \/ TakeSync \/ SyncCheck \/ Stage \/ Clone \/ IngestDone
             \/ IngestFails \/ SyncDecide \/ SyncFinish \/ SyncFails \/ SyncRaises
    BY <1>5, QuietWorker, QuietRefines
  <1>6. CASE JobFailed
    BY <1>6, QuietFailure, QuietRefines
  <1> QED
    BY <1>1, <1>2, <1>3, <1>4, <1>5, <1>6
    DEF Next, WorkerStep, FailureCallback, WorkHorseKilled

(* The graph a reader of the repository is served is one complete version, *)
(* replaced in one step, never by an older one, and comparable as long as  *)
(* it is current: publish_graph and delete_repository are the only steps   *)
(* that change it, whatever the order of pushes, webhooks and jobs.        *)
THEOREM Refinement == Spec => ImplementsVersionedGraph
  <1>1. Init => TypeOK /\ VersionInv /\ Versioned!Init
    BY TypeInit, VersionInit DEF Init, Versioned!Init, Absent, Exists
  <1>2. TypeOK /\ VersionInv /\ [Next]_vars =>
          (TypeOK /\ VersionInv)' /\ [Versioned!Next]_(Versioned!vars)
    BY TypeStep, VersionStep, RefinementStep
  <1> QED  BY <1>1, <1>2, PTL DEF Spec, ImplementsVersionedGraph, Versioned!Spec

-----------------------------------------------------------------------------
(* Work in progress has a job.                                             *)

(* A step keeps the reason why a status that blocks has a job.             *)
LEMMA ActiveStep ==
    ASSUME TypeOK, ActiveInv, [Next]_vars
    PROVE  ActiveInv'
  <1> USE DEF ghVars, dbVars, queueVars, apiVars
  <1>0. SUFFICES ASSUME repo'.status \in ACTIVE PROVE ActiveInv'
    BY DEF ActiveInv
  <1>1. CASE UNCHANGED vars
    BY <1>1 DEF vars, ActiveInv
  <1>2. CASE Push \/ Redeliver \/ HookReceive \/ HookStep
    <2>1. repo'.status = repo.status /\ UNCHANGED <<worker, requests, ingestQ>>
      BY <1>2, QuietGitHub
      DEF Push, Redeliver, HookReceive, HookStep, HookUpdate, HookUpdateFails, HookEnqueue,
          HookEnqueueFails
    <2>2. "status" \in unrecorded => "status" \in unrecorded'
      BY <1>2 DEF Push, Redeliver, HookReceive, HookStep, HookUpdate, HookUpdateFails, HookEnqueue,
                  HookEnqueueFails, RecordFailure
    <2> QED  BY <2>1, <2>2 DEF ActiveInv
  <1>3. CASE ApiRestart
    <2>1. UNCHANGED <<repo, worker, ingestQ>> /\ unrecorded \subseteq unrecorded'
      BY <1>3 DEF ApiRestart
    <2>2. (\E r \in Requests : requests[r].pc = "queued") => "status" \in unrecorded'
      BY <1>3 DEF ApiRestart
    <2> QED  BY <2>1, <2>2 DEF ActiveInv
  <1>4. ASSUME NEW r \in Requests, NewRequest(r) \/ RequestStep(r) PROVE ActiveInv'
    <2>1. CASE CreateRepository(r) \/ ReindexUpdate(r)
      BY <2>1 DEF CreateRepository, ReindexUpdate, SetRequest, ActiveInv, TypeOK
    <2>2. CASE EnqueueIngest(r)
      <3>1. ingestQ' # <<>>
        <4>1. ingestQ \in Seq(Job) /\ ingestQ' = Append(ingestQ, requests[r].job)
          BY <2>2 DEF EnqueueIngest, TypeOK
        <4>2. requests[r].job \in Job
          BY DEF TypeOK, RequestType
        <4> QED  BY <4>1, <4>2
      <3> QED  BY <3>1 DEF ActiveInv
    <2>3. CASE EnqueueIngestFails(r) \/ DeleteRepository(r)
      <3>1. repo'.status \in {"ABSENT", "FAILED"} \/ "status" \in unrecorded'
        BY <2>3 DEF EnqueueIngestFails, RecordFailure, DeleteRepository, update_repository, Exists,
                    Absent, TypeOK, RepoType
      <3> QED  BY <3>1, <1>0 DEF ActiveInv, ACTIVE
    <2>4. CASE ReindexRead(r) \/ DeleteRead(r) \/ PollRead(r) \/ PollUpdate(r) \/ RequestFails(r)
      <3>1. repo'.status = repo.status /\ UNCHANGED <<worker, ingestQ, unrecorded>>
        BY <2>4, <1>0
        DEF ReindexRead, DeleteRead, PollRead, PollUpdate, RequestFails, update_repository, Exists,
            TypeOK, RepoType, Absent, ACTIVE
      <3>2. \A q \in Requests : requests[q].pc = "queued" => requests'[q].pc = "queued"
        BY <2>4 DEF ReindexRead, DeleteRead, PollRead, PollUpdate, RequestFails, SetRequest,
                    EndRequest, TypeOK
      <3> QED  BY <3>1, <3>2 DEF ActiveInv
    <2> QED  BY <1>4, <2>1, <2>2, <2>3, <2>4 DEF NewRequest, RequestStep
  <1>5. CASE TakeIngest
    BY <1>5 DEF TakeIngest, ActiveInv
  <1>6. CASE TakeSync \/ SyncCheck \/ IngestDone \/ SyncDecide \/ SyncRaises
    <2>1. UNCHANGED <<repo, requests, ingestQ, unrecorded>>
      BY <1>6 DEF TakeSync, SyncCheck, IngestDone, SyncDecide, SyncRaises
    <2>2. ~(worker.origin = "ingestion" /\ worker.pc # "READY")
      BY <1>6 DEF TakeSync, SyncCheck, IngestDone, SyncDecide, SyncRaises, TypeOK
    <2> QED  BY <2>1, <2>2 DEF ActiveInv
  <1>7. CASE Clone \/ Publish
    <2>1. repo'.status = repo.status /\ UNCHANGED <<requests, ingestQ>>
      BY <1>7 DEF Clone, Publish, update_repository, PublishedRepo, TypeOK, RepoType
    <2>2. worker'.origin = worker.origin /\ worker'.pc # "READY"
      BY <1>7 DEF Clone, Publish, Goto, TypeOK, WorkerType
    <2>3. "status" \in unrecorded => "status" \in unrecorded'
      BY <1>7 DEF Clone, Publish
    <2> QED  BY <2>1, <2>2, <2>3 DEF ActiveInv
  <1>8. CASE Stage \/ IngestFails \/ SyncFinish \/ SyncFails
    <2>1. UNCHANGED <<requests, ingestQ>>
      BY <1>8 DEF Stage, IngestFails, SyncFinish, SyncFails
    <2>2. CASE WriteFails /\ (IngestFails \/ SyncFails)
      <3>1. UNCHANGED <<repo, unrecorded>> /\ worker'.origin = worker.origin /\ worker'.pc # "READY"
        BY <2>2 DEF WriteFails, IngestFails, SyncFails, Goto, TypeOK, WorkerType
      <3> QED  BY <2>1, <3>1 DEF ActiveInv
    <2>3. CASE ~(WriteFails /\ (IngestFails \/ SyncFails))
      <3>1. PICK s \in {"FAILED", "READY", "CURRENT", "STALE", "ERROR"} \union ACTIVE : Write(s)
        BY <1>8, <2>3, StageTypes DEF Stage, IngestFails, SyncFinish, SyncFails
      <3>2. CASE worker.origin = "sync"
        <4>1. repo'.status = repo.status /\ unrecorded' = unrecorded \ {"sync"}
          BY <3>1, <3>2, QuietWrite DEF Field
        <4> QED  BY <2>1, <3>2, <4>1 DEF ActiveInv
      <3>3. CASE worker.origin # "sync"
        <4>1. Exists /\ repo'.status = s
          BY <3>1, <3>3, <1>0, QuietWrite DEF Exists, ACTIVE
        <4>2. s \in ACTIVE /\ s # "READY"
          BY <4>1, <1>0 DEF ACTIVE
        <4>3. CASE Stage
          <5>1. s = NextStage[worker.pc]
            BY <3>1, <3>3, <4>1, <4>3, QuietWrite, StageTypes DEF Stage
          <5>2. worker'.pc = s /\ worker'.origin = worker.origin /\ worker.pc # "idle"
            BY <4>3, <5>1, StageTypes, GotoType DEF Stage
          <5>3. worker.origin = "ingestion"
            BY <5>2, <3>3 DEF TypeOK, WorkerType
          <5> QED  BY <4>2, <5>2, <5>3 DEF ActiveInv
        <4>4. CASE IngestFails \/ SyncFinish \/ SyncFails
          <5>1. IngestFails /\ Write("FAILED")
            BY <2>3, <3>3, <4>4 DEF IngestFails, SyncFinish, SyncFails, TypeOK
          <5>2. repo'.status = "FAILED"
            BY <3>3, <4>1, <5>1, QuietWrite
          <5> QED  BY <5>2, <1>0 DEF ACTIVE
        <4> QED  BY <1>8, <4>3, <4>4
      <3> QED  BY <3>2, <3>3
    <2> QED  BY <2>2, <2>3
  <1>9. CASE JobFailed /\ worker.pc # "idle"
    <2>1. UNCHANGED <<requests, ingestQ>>
      BY <1>9 DEF JobFailed
    <2>2. CASE worker.origin = "sync"
      BY <1>9, <2>1, <2>2, QuietFailure DEF ActiveInv
    <2>3. CASE worker.origin # "sync"
      <3>1. Exists
        BY <1>9, <1>0, QuietFailure DEF Quiet, Exists, ACTIVE
      <3> QED  BY <1>9, <1>0, <2>3, <3>1, QuietFailure DEF ActiveInv, ACTIVE
    <2> QED  BY <2>2, <2>3
  <1> QED
    BY <1>1, <1>2, <1>3, <1>4, <1>5, <1>6, <1>7, <1>8, <1>9
    DEF Next, WorkerStep, FailureCallback, WorkHorseKilled

(* A status that answers 409 to reindex and delete has a job behind it,    *)
(* unless the last thing that happened to it is a failure nothing could    *)
(* record.                                                                 *)
THEOREM ActiveHasJobHolds == Spec => []ActiveHasJob
  <1>1. Init => TypeOK /\ ActiveInv
    BY TypeInit DEF Init, ActiveInv, Absent, ACTIVE
  <1>2. TypeOK /\ ActiveInv /\ [Next]_vars => (TypeOK /\ ActiveInv)'
    BY TypeStep, ActiveStep
  <1>3. ActiveInv => ActiveHasJob
    BY DEF ActiveInv, ActiveHasJob
  <1> QED  BY <1>1, <1>2, <1>3, PTL DEF Spec

-----------------------------------------------------------------------------
(***************************************************************************)
(* What becomes of the pushes the webhook accepted.                        *)
(*                                                                         *)
(* NoAcceptedPushForgotten is proved for every value of the constants in   *)
(* which handlers run to their end: no restart of the API, no killed work  *)
(* horse, no refused job.  With MayBeKilled it is false: the job of an     *)
(* older push writes CURRENT over QUEUED, and fail_sync_if_active does not *)
(* record the death of the newer push's job.  ActiveSyncHasJob needs no    *)
(* such assumption.                                                        *)
(***************************************************************************)

AppliedInFull == MaxCrashes = 0 /\ ~MayBeKilled /\ ~RedisMayFail /\ ~DatabaseMayFail

(* The "sync" queue is first in, first out, and nothing else leaves it.    *)
LEMMA QueueAppend ==
    ASSUME TypeOK, NEW sha \in Commit, syncQ' = Append(syncQ, sha)
    PROVE  /\ InSyncQ(sha)'
           /\ \A c : InSyncQ(c) => InSyncQ(c)'
           /\ \A i \in 1..Len(syncQ') : syncQ'[i] = sha \/ \E j \in 1..Len(syncQ) : syncQ'[i] = syncQ[j]
  <1>1. syncQ \in Seq(Commit)
    BY DEF TypeOK
  <1>2. Len(syncQ') = Len(syncQ) + 1 /\ syncQ'[Len(syncQ) + 1] = sha
    BY <1>1
  <1>3. \A i \in 1..Len(syncQ) : syncQ'[i] = syncQ[i]
    BY <1>1
  <1> QED  BY <1>1, <1>2, <1>3 DEF InSyncQ

LEMMA QueueTail ==
    ASSUME TypeOK, syncQ # <<>>, syncQ' = Tail(syncQ)
    PROVE  /\ \A c : InSyncQ(c) => c = Head(syncQ) \/ InSyncQ(c)'
           /\ \A i \in 1..Len(syncQ') : \E j \in 1..Len(syncQ) : syncQ'[i] = syncQ[j]
           /\ \E j \in 1..Len(syncQ) : Head(syncQ) = syncQ[j]
  <1>1. syncQ \in Seq(Commit)
    BY DEF TypeOK
  <1>2. Len(syncQ') = Len(syncQ) - 1 /\ Len(syncQ) >= 1 /\ Head(syncQ) = syncQ[1]
    BY <1>1
  <1>3. \A i \in 1..Len(syncQ') : syncQ'[i] = syncQ[i + 1]
    BY <1>1
  <1>4. \A c : InSyncQ(c) => c = Head(syncQ) \/ InSyncQ(c)'
    <2> SUFFICES ASSUME NEW c, NEW i \in 1..Len(syncQ), syncQ[i] = c, c # Head(syncQ)
                 PROVE  InSyncQ(c)'
      BY DEF InSyncQ
    <2>1. i - 1 \in 1..Len(syncQ') /\ syncQ'[i - 1] = c
      BY <1>1, <1>2, <1>3
    <2> QED  BY <2>1 DEF InSyncQ
  <1> QED  BY <1>1, <1>2, <1>3, <1>4

(* What the argument compares are numbers.                                 *)
LEMMA NumberTypes ==
    ASSUME TypeOK
    PROVE  /\ head \in Int /\ hook.sha \in Int /\ worker.arg \in Int /\ worker.rev \in Int
           /\ repo.latest \in Int /\ repo.indexed \in Int
           /\ inFlight \subseteq Int
           /\ \A i \in 1..Len(syncQ) : syncQ[i] \in Int
  <1> USE BoundsAssumption DEF TypeOK, Commit, Sha, Job
  <1>1. Sha \subseteq Int /\ Job \subseteq Int /\ Commit \subseteq Int
    OBVIOUS
  <1>2. hook.sha \in Sha /\ worker.arg \in Job \union Sha /\ worker.rev \in Sha
    BY DEF HookType, WorkerType
  <1>3. repo.latest \in Sha /\ repo.indexed \in Sha
    BY DEF RepoType
  <1> QED  BY <1>1, <1>2, <1>3

LEMMA PushInit == Init => PushInv
  BY VersionInit DEF Init, PushInv, VersionInv, Absent, IdleWorker

(* A step that leaves pushes, their jobs and the sync fields alone.        *)
LEMMA PushFrame ==
    ASSUME TypeOK', PushInv, Untouched', UNCHANGED <<head, inFlight, hook, syncQ, worker>>,
           Exists' => /\ Exists /\ repo'.indexed = repo.indexed
                      /\ repo'.latest = repo.latest /\ repo'.sync = repo.sync
    PROVE  PushInv'
  <1>1. CASE Exists'
    BY <1>1 DEF PushInv, Pending, InSyncQ
  <1>2. CASE ~Exists'
    <2>1. repo'.latest = 0 /\ repo'.indexed = 0
      BY <1>2 DEF TypeOK, Absent
    <2> QED  BY <1>2, <2>1 DEF PushInv
  <1> QED  BY <1>1, <1>2

LEMMA PushGitHub ==
    ASSUME AppliedInFull, TypeOK, TypeOK', PushInv, Untouched',
           Push \/ Redeliver \/ HookReceive \/ HookStep
    PROVE  PushInv'
  <1> USE DEF ghVars, dbVars, apiVars, queueVars
  <1>1. CASE Push
    <2>1. head' = head + 1 /\ inFlight' = inFlight \union {head'} /\ UNCHANGED <<hook, repo, syncQ, worker>>
      BY <1>1 DEF Push
    <2>2. \A n \in Int : n <= head => n <= head'
      BY <2>1, NumberTypes
    <2>3. \A n \in inFlight' : n <= head'
      BY <2>1, <2>2, NumberTypes DEF PushInv
    <2>4. \A i \in 1..Len(syncQ) : syncQ[i] <= head'
      BY <2>2, NumberTypes DEF PushInv
    <2>5. (hook.pc # "idle" => hook.sha <= head') /\ (worker.origin = "sync" => worker.arg <= head')
      BY <2>2, NumberTypes DEF PushInv
    <2>6. Pending => Pending'
      BY <2>1 DEF Pending, InSyncQ
    <2> QED  BY <2>1, <2>3, <2>4, <2>5, <2>6 DEF PushInv, Exists
  <1>2. CASE Redeliver
    <2>1. PICK sha \in 2..head : inFlight' = inFlight \union {sha}
      BY <1>2 DEF Redeliver
    <2>2. UNCHANGED <<head, hook, repo, syncQ, worker>>
      BY <1>2 DEF Redeliver
    <2>3. \A n \in inFlight' : n <= head'
      BY <2>1, <2>2 DEF PushInv, TypeOK, Commit
    <2> QED  BY <2>2, <2>3 DEF PushInv, Pending, InSyncQ, Exists
  <1>3. CASE HookReceive
    <2>1. PICK sha \in inFlight :
             /\ inFlight' = inFlight \ {sha} /\ hook.pc = "idle"
             /\ hook' = [pc |-> "bound", sha |-> sha] \/ UNCHANGED hook
      BY <1>3 DEF HookReceive
    <2>2. UNCHANGED <<head, repo, syncQ, worker>>
      BY <1>3 DEF HookReceive
    <2>3. hook'.pc # "idle" => hook'.sha <= head'
      BY <2>1, <2>2 DEF PushInv
    <2>4. Pending => Pending'
      BY <2>1, <2>2 DEF Pending, InSyncQ
    <2> QED  BY <2>1, <2>2, <2>3, <2>4 DEF PushInv, Exists
  <1>4. CASE HookUpdate
    <2>1. /\ UNCHANGED <<head, inFlight, syncQ, worker>>
          /\ hook.pc = "bound" /\ hook'.pc = "updated" /\ hook'.sha = hook.sha
          /\ repo'.indexed = repo.indexed /\ (Exists' <=> Exists)
          /\ Exists => repo'.latest = hook.sha
      BY <1>4 DEF HookUpdate, update_repository, Exists, TypeOK, RepoType, HookType
    <2>2. Exists => Pending'
      BY <2>1 DEF Pending
    <2>3. ~Exists => repo'.latest = 0 /\ repo'.indexed = 0
      BY <2>1 DEF TypeOK, Absent
    <2>4. hook'.sha <= head'
      BY <2>1 DEF PushInv
    <2> QED  BY <2>1, <2>2, <2>3, <2>4 DEF PushInv
  <1>5. CASE HookEnqueue
    <2>1. /\ UNCHANGED <<head, inFlight, repo, worker>> /\ hook'.pc = "idle"
          /\ hook.pc = "updated" /\ syncQ' = Append(syncQ, hook.sha) /\ hook.sha \in Commit
      BY <1>5 DEF HookEnqueue, TypeOK, HookType
    <2>2. Pending => Pending'
      BY <2>1, QueueAppend DEF Pending
    <2>3. \A i \in 1..Len(syncQ') : syncQ'[i] <= head'
      BY <2>1, QueueAppend DEF PushInv
    <2> QED  BY <2>1, <2>2, <2>3 DEF PushInv, Exists
  <1>6. CASE HookUpdateFails \/ HookEnqueueFails
    BY <1>6 DEF HookUpdateFails, HookEnqueueFails, AppliedInFull
  <1> QED  BY <1>1, <1>2, <1>3, <1>4, <1>5, <1>6 DEF HookStep

LEMMA PushRequest ==
    ASSUME TypeOK, TypeOK', PushInv, Untouched', NEW r \in Requests, NewRequest(r) \/ RequestStep(r)
    PROVE  PushInv'
  <1> USE DEF ghVars, dbVars, apiVars, queueVars
  <1>1. CASE CreateRepository(r)
    <2>1. UNCHANGED <<head, inFlight, hook, syncQ, worker>> /\ repo'.latest = 0 /\ repo'.indexed = 0
      BY <1>1 DEF CreateRepository, Absent
    <2>2. worker.origin # "sync"
      BY <1>1 DEF CreateRepository, PushInv, Untouched, TypeOK
    <2> QED  BY <2>1, <2>2 DEF PushInv
  <1>2. CASE DeleteRepository(r)
    BY <1>2, PushFrame DEF DeleteRepository, Absent, Exists
  <1>3. CASE ReindexUpdate(r) \/ EnqueueIngestFails(r) \/ PollUpdate(r)
    <2>1. UNCHANGED <<head, inFlight, hook, syncQ, worker>>
      BY <1>3 DEF ReindexUpdate, EnqueueIngestFails, PollUpdate
    <2>2. Exists' => /\ Exists /\ repo'.indexed = repo.indexed
                     /\ repo'.latest = repo.latest /\ repo'.sync = repo.sync
      BY <1>3 DEF ReindexUpdate, EnqueueIngestFails, PollUpdate, RecordFailure, update_repository,
                  Exists, TypeOK, RepoType
    <2> QED  BY <2>1, <2>2, PushFrame
  <1>4. CASE ReindexRead(r) \/ DeleteRead(r) \/ PollRead(r) \/ EnqueueIngest(r) \/ RequestFails(r)
    <2>1. UNCHANGED <<head, inFlight, hook, syncQ, worker, repo>>
      BY <1>4 DEF ReindexRead, DeleteRead, PollRead, EnqueueIngest, RequestFails
    <2> QED  BY <2>1, PushFrame DEF Exists
  <1> QED  BY <1>1, <1>2, <1>3, <1>4 DEF NewRequest, RequestStep

(* A worker step that keeps the job, the queue and the commits: what it    *)
(* writes into the sync status is a failure, or no accepted push depends   *)
(* on it.                                                                  *)
LEMMA PushKeep ==
    ASSUME TypeOK, TypeOK', PushInv, Untouched', UNCHANGED <<head, inFlight, hook, syncQ>>,
           repo'.indexed = repo.indexed, repo'.latest = repo.latest, Exists' <=> Exists,
           worker'.origin = "sync" =>
             /\ worker.origin = "sync" /\ worker'.arg = worker.arg
             /\ worker'.pc \in ClonedPCs => worker.arg <= worker'.rev
             /\ worker'.pc = "check" => worker.pc = "check"
             /\ Exists /\ worker.pc = "check" /\ worker'.pc # "check" => worker.arg = repo.latest
             /\ Exists /\ worker'.pc \in {"PUBLISHED", "READY", "CURRENT", "STALE"} =>
                  worker.arg <= repo.indexed,
           Exists /\ repo.latest > repo.indexed =>
             \/ repo'.sync \in {"ERROR", "FAILED"}
             \/ Pending
             \/ repo'.sync = repo.sync
                /\ ~(worker.origin = "sync" /\ worker.arg = repo.latest
                       /\ worker.pc \in {"check", "begin", "CLONING"} \union ClonedPCs)
             \/ /\ worker'.origin = "sync" /\ worker.arg = repo.latest
                /\ worker'.pc \in {"check", "begin", "CLONING"} \union ClonedPCs
    PROVE  PushInv'
  <1>1. Pending <=> Pending'
    BY DEF Pending, InSyncQ
  <1>2. ~Exists => ~(repo.latest > repo.indexed)
    BY DEF TypeOK, Absent
  <1>3. Exists /\ repo.latest > repo.indexed =>
          \/ repo'.sync \in {"ERROR", "FAILED"}
          \/ Pending'
          \/ /\ worker'.origin = "sync" /\ worker'.arg = repo'.latest
             /\ worker'.pc \in {"check", "begin", "CLONING"} \union ClonedPCs
    BY <1>1 DEF PushInv
  <1> QED  BY <1>1, <1>2, <1>3 DEF PushInv

LEMMA PushWorker ==
    ASSUME AppliedInFull, TypeOK, TypeOK', PushInv, Untouched', WorkerStep
    PROVE  PushInv'
  <1> USE DEF ghVars, dbVars, apiVars, queueVars
  <1>0. ~Exists => repo.latest = 0 /\ repo.indexed = 0
    BY DEF TypeOK, Absent
  <1>1. CASE TakeIngest
    <2>1. UNCHANGED <<head, inFlight, hook, syncQ, repo>>
          /\ worker'.origin = "ingestion" /\ worker.origin = "none"
      BY <1>1 DEF TakeIngest, TypeOK
    <2> QED  BY <2>1, PushKeep DEF Exists, PushInv
  <1>2. CASE TakeSync
    <2>1. /\ UNCHANGED <<head, inFlight, hook, repo>>
          /\ syncQ # <<>> /\ syncQ' = Tail(syncQ) /\ worker.origin = "none"
          /\ worker'.origin = "sync" /\ worker'.pc = "check" /\ worker'.arg = Head(syncQ)
      BY <1>2 DEF TakeSync, TypeOK
    <2>2. Pending => Pending' \/ repo.latest = worker'.arg
      BY <2>1, QueueTail DEF Pending
    <2>3. worker'.arg <= head /\ \A i \in 1..Len(syncQ') : syncQ'[i] <= head
      BY <2>1, QueueTail DEF PushInv
    <2> QED  BY <2>1, <2>2, <2>3 DEF PushInv, Exists, ClonedPCs
  <1>3. CASE SyncCheck
    <2>1. UNCHANGED <<head, inFlight, hook, syncQ, repo>> /\ worker.pc = "check" /\ worker.origin = "sync"
      BY <1>3 DEF SyncCheck, TypeOK
    <2>2. CASE AfterCheck(worker.arg) = "idle"
      <3>1. worker'.origin = "none" /\ Exists /\ repo.latest # worker.arg
        BY <1>3, <2>2 DEF SyncCheck, AfterCheck, IdleWorker
      <3> QED  BY <2>1, <3>1, PushKeep DEF Exists, PushInv
    <2>3. CASE AfterCheck(worker.arg) # "idle"
      <3>1. /\ worker'.origin = "sync" /\ worker'.arg = worker.arg
            /\ worker'.pc = AfterCheck(worker.arg)
        BY <1>3, <2>1, <2>3 DEF SyncCheck, Goto, TypeOK, WorkerType
      <3>2. CASE ~Exists
        <4>1. worker'.pc = "raised"
          BY <3>1, <3>2 DEF AfterCheck
        <4> QED  BY <2>1, <3>1, <3>2, <4>1, PushKeep DEF Exists, ClonedPCs
      <3>3. CASE Exists
        <4>1. repo.latest = worker.arg
          BY <2>3, <3>3 DEF AfterCheck
        <4>2. \/ worker'.pc = "CURRENT" /\ repo.indexed = worker.arg
              \/ worker'.pc = "begin"
          BY <2>3, <3>1, <3>3, <4>1 DEF AfterCheck
        <4>3. worker.arg <= worker.arg
          BY NumberTypes
        <4> QED  BY <2>1, <3>1, <3>3, <4>1, <4>2, <4>3, NumberTypes, PushKeep DEF Exists, ClonedPCs
      <3> QED  BY <3>2, <3>3
    <2> QED  BY <2>2, <2>3
  <1>4. CASE Stage
    <2>1. /\ Write(NextStage[worker.pc]) /\ Goto(NextStage[worker.pc])
          /\ worker.pc \in DOMAIN NextStage /\ UNCHANGED <<head, inFlight, hook, syncQ>>
      BY <1>4 DEF Stage
    <2>2. /\ worker'.pc = NextStage[worker.pc] /\ worker'.origin = worker.origin
          /\ worker'.arg = worker.arg /\ worker'.rev = worker.rev
      BY <2>1, StageTypes, GotoType
    <2>3. /\ repo'.indexed = repo.indexed /\ repo'.latest = repo.latest /\ (Exists' <=> Exists)
          /\ worker.origin # "sync" => repo'.sync = repo.sync
      BY <2>1, StageTypes, QuietWrite
    <2>4. \/ worker.pc = "PUBLISHED" /\ worker'.pc = "READY"
          \/ worker.pc # "PUBLISHED" /\ worker'.pc \in {"CLONING"} \union ClonedPCs
      BY <2>1, <2>2 DEF NextStage, ClonedPCs
    <2>5. worker'.pc \in ClonedPCs => worker.pc \in ClonedPCs
      BY <2>1, <2>2, StageTypes
    <2>6. worker.pc # "check" /\ worker'.pc \notin {"check", "PUBLISHED", "CURRENT", "STALE"}
      BY <2>4, <2>1, StageTypes DEF ClonedPCs
    <2>7. worker.origin = "sync" /\ worker.pc = "PUBLISHED" /\ Exists => worker.arg <= repo.indexed
      BY DEF PushInv
    <2>8. worker.origin = "sync" /\ Exists /\ repo.latest > repo.indexed =>
            Pending \/ (worker.arg = repo.latest /\ worker'.pc \in {"CLONING"} \union ClonedPCs)
      BY <2>4, <2>6, <2>7, NumberTypes DEF PushInv
    <2>9. worker.origin = "sync" =>
            /\ worker'.pc \in ClonedPCs => worker.arg <= worker'.rev
            /\ Exists /\ worker'.pc = "READY" => worker.arg <= repo.indexed
      BY <2>2, <2>4, <2>5, <2>7 DEF PushInv, ClonedPCs
    <2> QED  BY <2>1, <2>2, <2>3, <2>6, <2>8, <2>9, PushKeep
  <1>5. CASE Clone
    <2>1. /\ UNCHANGED <<head, inFlight, hook, syncQ, repo>> /\ worker.pc = "CLONING"
          /\ worker'.pc = "CLONED" /\ worker'.rev = head
          /\ worker'.origin = worker.origin /\ worker'.arg = worker.arg
      BY <1>5 DEF Clone, ClonedRevision, TypeOK, WorkerType
    <2>2. worker.origin = "sync" => worker.arg <= worker'.rev
      BY <2>1 DEF PushInv
    <2> QED  BY <2>1, <2>2, PushKeep DEF Exists, ClonedPCs, PushInv
  <1>6. CASE Publish
    <2>1. /\ UNCHANGED <<head, inFlight, hook, syncQ>> /\ worker.pc = "ANALYZING"
          /\ worker'.pc = "PUBLISHED" /\ worker'.rev = worker.rev
          /\ worker'.origin = worker.origin /\ worker'.arg = worker.arg
      BY <1>6 DEF Publish, Goto, TypeOK, WorkerType
    <2>2. /\ (Exists' <=> Exists)
          /\ Exists => repo'.indexed = worker.rev
          /\ Exists /\ worker.origin = "sync" => repo'.latest = repo.latest /\ repo'.sync = repo.sync
          /\ Exists /\ worker.origin # "sync" => repo'.latest = worker.rev
          /\ ~Exists => repo' = repo
      BY <1>6 DEF Publish, update_repository, PublishedRepo, Exists, TypeOK, RepoType
    <2>3. worker.origin = "sync" => worker.arg <= worker.rev
      BY <2>1 DEF PushInv, ClonedPCs
    <2>4. worker.origin = "sync" /\ Exists => worker.arg = repo.latest \/ Pending
      BY <2>1 DEF PushInv
    <2>5. worker.origin = "sync" /\ Exists => (Pending => Pending')
      BY <2>1, <2>2 DEF Pending, InSyncQ
    <2>6. Exists /\ repo'.latest > repo'.indexed => Pending'
      BY <2>2, <2>3, <2>4, <2>5, NumberTypes
    <2>7. ~Exists => ~(repo'.latest > repo'.indexed)
      BY <1>0, <2>2
    <2>8. worker.origin = "sync" =>
            /\ worker.arg <= head
            /\ Exists /\ worker.arg # repo'.latest => Pending'
            /\ Exists => worker.arg <= repo'.indexed
      BY <2>2, <2>3, <2>4, <2>5 DEF PushInv
    <2> QED  BY <2>1, <2>2, <2>6, <2>7, <2>8 DEF PushInv, ClonedPCs
  <1>7. CASE IngestDone
    <2>1. UNCHANGED <<head, inFlight, hook, syncQ, repo>>
          /\ worker'.origin = "none" /\ worker.origin = "ingestion"
      BY <1>7 DEF IngestDone, IdleWorker
    <2> QED  BY <2>1, PushKeep DEF Exists, PushInv
  <1>8. CASE IngestFails
    <2>1. /\ Write("FAILED") /\ UNCHANGED <<head, inFlight, hook, syncQ>>
          /\ worker.pc \in IngestPCs /\ worker'.origin = worker.origin /\ worker'.arg = worker.arg
          /\ worker'.pc \in {"FAILED", "raised"}
      BY <1>8 DEF IngestFails, WriteFails, AppliedInFull, Goto, TypeOK, WorkerType
    <2>2. worker.pc # "check"
      BY <2>1 DEF IngestPCs, ACTIVE
    <2> QED  BY <2>1, <2>2, QuietWrite, PushKeep DEF PushInv, ClonedPCs
  <1>9. CASE SyncDecide
    <2>1. UNCHANGED <<head, inFlight, hook, syncQ, repo>> /\ worker.pc = "READY" /\ worker.origin = "sync"
          /\ worker'.origin = worker.origin /\ worker'.arg = worker.arg
          /\ worker'.pc \in {"CURRENT", "STALE"}
      BY <1>9 DEF SyncDecide, Outcome, Goto, TypeOK, WorkerType
    <2>2. Exists => worker.arg <= repo.indexed
      BY <2>1 DEF PushInv
    <2> QED  BY <2>1, <2>2, PushKeep DEF Exists, ClonedPCs, PushInv
  <1>10. CASE SyncFinish
    <2>1. /\ Write(worker.pc) /\ UNCHANGED <<head, inFlight, hook, syncQ>>
          /\ worker.pc \in {"CURRENT", "STALE"} /\ worker.origin = "sync" /\ worker'.origin = "none"
      BY <1>10 DEF SyncFinish, IdleWorker, TypeOK
    <2>2. Exists /\ repo.latest > repo.indexed => Pending
      BY <2>1, NumberTypes DEF PushInv
    <2>3. repo'.indexed = repo.indexed /\ repo'.latest = repo.latest /\ (Exists' <=> Exists)
      BY <2>1, QuietWrite
    <2> QED  BY <2>1, <2>2, <2>3, PushKeep
  <1>11. CASE SyncFails
    <2>1. /\ Write("ERROR") /\ UNCHANGED <<head, inFlight, hook, syncQ>>
          /\ worker.pc # "check" /\ worker.origin = "sync" /\ worker.pc # "idle"
          /\ worker'.origin = worker.origin /\ worker'.arg = worker.arg /\ worker'.pc = "raised"
      BY <1>11 DEF SyncFails, WriteFails, AppliedInFull, Goto, TypeOK, WorkerType
    <2> QED  BY <2>1, QuietWrite, PushKeep DEF ClonedPCs
  <1>12. CASE FailureCallback
    <2>1. JobFailed /\ worker.pc = "raised" /\ worker'.origin = "none"
          /\ UNCHANGED <<head, inFlight, hook, syncQ>>
      BY <1>12 DEF FailureCallback, JobFailed, IdleWorker
    <2>2. /\ repo'.latest = repo.latest /\ repo'.indexed = repo.indexed /\ (Exists' <=> Exists)
          /\ repo'.sync \in {repo.sync, "ERROR"}
      BY <2>1, QuietFailure DEF Quiet
    <2> QED  BY <2>1, <2>2, PushKeep DEF PushInv, ClonedPCs
  <1>13. CASE SyncRaises
    BY <1>13 DEF SyncRaises, AppliedInFull
  <1> QED
    BY <1>1, <1>2, <1>3, <1>4, <1>5, <1>6, <1>7, <1>8, <1>9, <1>10, <1>11, <1>12, <1>13
    DEF WorkerStep

LEMMA PushStep ==
    ASSUME AppliedInFull, TypeOK, TypeOK', PushInv, [Next]_vars
    PROVE  PushInv'
  <1>0. Untouched'
    BY UntouchedStep DEF PushInv
  <1>1. CASE UNCHANGED vars
    BY <1>0, <1>1, PushFrame DEF vars, ghVars, dbVars, queueVars, Exists
  <1>2. CASE ApiRestart \/ WorkHorseKilled
    BY <1>2 DEF ApiRestart, WorkHorseKilled, AppliedInFull, TypeOK
  <1> QED
    BY <1>0, <1>1, <1>2, PushGitHub, PushRequest, PushWorker DEF Next

(* An accepted push newer than the index is never forgotten: whatever the  *)
(* order of deliveries, status writes and superseded jobs, a job for       *)
(* exactly that commit is on its way or a failure is on record.            *)
THEOREM NoAcceptedPushForgottenHolds == AppliedInFull /\ Spec => []NoAcceptedPushForgotten
  <1> SUFFICES ASSUME AppliedInFull PROVE Spec => []NoAcceptedPushForgotten
    OBVIOUS
  <1>1. Init => TypeOK /\ PushInv
    BY TypeInit, PushInit
  <1>2. TypeOK /\ PushInv /\ [Next]_vars => (TypeOK /\ PushInv)'
    BY TypeStep, PushStep
  <1>3. PushInv => NoAcceptedPushForgotten
    BY DEF PushInv, Pending, NoAcceptedPushForgotten
  <1> QED  BY <1>1, <1>2, <1>3, PTL DEF Spec

-----------------------------------------------------------------------------
(* A background status in progress has a job.                              *)

(* A step that touches neither the queue nor the job nor the sync fields.  *)
LEMMA SyncFrame ==
    ASSUME ActiveSyncInv, UNCHANGED <<hook, syncQ, worker>>,
           repo'.sync \in ACTIVE =>
             /\ repo'.sync = repo.sync /\ repo'.latest = repo.latest
             /\ "sync" \in unrecorded => "sync" \in unrecorded'
    PROVE  ActiveSyncInv'
  BY DEF ActiveSyncInv, InSyncQ

LEMMA SyncGitHub ==
    ASSUME TypeOK, TypeOK', ActiveSyncInv, Push \/ Redeliver \/ HookReceive \/ HookStep
    PROVE  ActiveSyncInv'
  <1> USE DEF ghVars, dbVars, apiVars, queueVars
  <1>1. CASE Push \/ Redeliver
    BY <1>1, SyncFrame DEF Push, Redeliver
  <1>2. CASE HookReceive
    <2>1. UNCHANGED <<repo, syncQ, worker, unrecorded>> /\ hook.pc = "idle"
      BY <1>2 DEF HookReceive
    <2> QED  BY <2>1 DEF ActiveSyncInv, InSyncQ
  <1>3. CASE HookUpdate
    <2>1. hook'.pc = "updated" /\ hook'.sha = hook.sha /\ (Exists => repo'.latest = hook.sha)
      BY <1>3 DEF HookUpdate, update_repository, TypeOK, HookType, RepoType
    <2>2. ~Exists => repo'.sync = "UNSET"
      BY <1>3 DEF HookUpdate, update_repository, Exists, TypeOK, Absent
    <2> QED  BY <2>1, <2>2 DEF ActiveSyncInv, ACTIVE
  <1>4. CASE HookEnqueue
    <2>1. /\ UNCHANGED <<repo, worker, unrecorded>>
          /\ hook.pc = "updated" /\ syncQ' = Append(syncQ, hook.sha) /\ hook.sha \in Commit
      BY <1>4 DEF HookEnqueue, TypeOK, HookType
    <2> QED  BY <2>1, QueueAppend DEF ActiveSyncInv
  <1>5. CASE HookUpdateFails
    <2>1. hook.pc = "bound" /\ UNCHANGED <<syncQ, worker>>
      BY <1>5 DEF HookUpdateFails
    <2>2. repo'.sync \notin ACTIVE \/ UNCHANGED <<repo, unrecorded>>
      BY <1>5 DEF HookUpdateFails, update_repository, Exists, Absent, TypeOK, RepoType, ACTIVE
    <2> QED  BY <2>1, <2>2 DEF ActiveSyncInv, InSyncQ
  <1>6. CASE HookEnqueueFails
    <2>1. repo'.sync \notin ACTIVE \/ "sync" \in unrecorded'
      BY <1>6 DEF HookEnqueueFails, RecordFailure, update_repository, Exists, Absent, TypeOK,
                  RepoType, ACTIVE
    <2> QED  BY <2>1 DEF ActiveSyncInv
  <1> QED  BY <1>1, <1>2, <1>3, <1>4, <1>5, <1>6 DEF HookStep

LEMMA SyncRequest ==
    ASSUME TypeOK, ActiveSyncInv, NEW r \in Requests, NewRequest(r) \/ RequestStep(r)
    PROVE  ActiveSyncInv'
  <1> USE DEF ghVars, dbVars, apiVars, queueVars
  <1>1. UNCHANGED <<hook, syncQ, worker>>
    BY DEF NewRequest, RequestStep, CreateRepository, ReindexRead, ReindexUpdate, EnqueueIngest,
           EnqueueIngestFails, DeleteRead, DeleteRepository, PollRead, PollUpdate, RequestFails
  <1>2. CASE CreateRepository(r) \/ DeleteRepository(r)
    <2>1. ASSUME CreateRepository(r) PROVE repo'.sync = "UNSET"
      <3>1. repo' = [Absent EXCEPT !.status = "QUEUED", !.job = 1]
        BY <2>1 DEF CreateRepository
      <3>2. [Absent EXCEPT !.status = "QUEUED", !.job = 1].sync = "UNSET"
        BY DEF Absent
      <3> QED  BY <3>1, <3>2
    <2>2. ASSUME DeleteRepository(r) PROVE repo'.sync = "UNSET"
      BY <2>2 DEF DeleteRepository, Absent
    <2>3. repo'.sync \notin ACTIVE
      BY <1>2, <2>1, <2>2 DEF ACTIVE
    <2> QED  BY <1>1, <2>3, SyncFrame
  <1>3. CASE ReindexUpdate(r) \/ EnqueueIngestFails(r) \/ PollUpdate(r)
    <2>1. repo'.sync = repo.sync /\ repo'.latest = repo.latest
      BY <1>3 DEF ReindexUpdate, EnqueueIngestFails, PollUpdate, RecordFailure, update_repository,
                  TypeOK, RepoType
    <2>2. "sync" \in unrecorded => "sync" \in unrecorded'
      BY <1>3 DEF ReindexUpdate, EnqueueIngestFails, PollUpdate, RecordFailure
    <2> QED  BY <1>1, <2>1, <2>2, SyncFrame
  <1>4. CASE ReindexRead(r) \/ DeleteRead(r) \/ PollRead(r) \/ EnqueueIngest(r) \/ RequestFails(r)
    BY <1>1, <1>4, SyncFrame DEF ReindexRead, DeleteRead, PollRead, EnqueueIngest, RequestFails
  <1> QED  BY <1>2, <1>3, <1>4 DEF NewRequest, RequestStep

LEMMA SyncWorker ==
    ASSUME TypeOK, ActiveSyncInv, WorkerStep \/ WorkHorseKilled
    PROVE  ActiveSyncInv'
  <1> USE DEF ghVars, dbVars, apiVars, queueVars
  <1>1. CASE TakeIngest \/ IngestDone
    <2>1. UNCHANGED <<hook, syncQ, repo, unrecorded>> /\ worker.origin # "sync"
      BY <1>1 DEF TakeIngest, IngestDone, TypeOK
    <2> QED  BY <2>1 DEF ActiveSyncInv, InSyncQ
  <1>2. CASE TakeSync
    <2>1. /\ UNCHANGED <<hook, repo, unrecorded>> /\ syncQ # <<>> /\ syncQ' = Tail(syncQ)
          /\ worker.origin # "sync" /\ worker'.origin = "sync" /\ worker'.arg = Head(syncQ)
      BY <1>2 DEF TakeSync, TypeOK
    <2> QED  BY <2>1, QueueTail DEF ActiveSyncInv
  <1>3. CASE SyncCheck
    <2>1. UNCHANGED <<hook, syncQ, repo, unrecorded>> /\ worker.pc = "check" /\ worker.origin = "sync"
      BY <1>3 DEF SyncCheck, TypeOK
    <2>2. repo.latest # worker.arg \/ (worker'.origin = "sync" /\ worker'.pc # "check")
      BY <1>3, <2>1 DEF SyncCheck, AfterCheck, Goto, Exists, Absent, TypeOK, WorkerType
    <2>3. CASE repo.latest # worker.arg
      BY <2>1, <2>3 DEF ActiveSyncInv, InSyncQ
    <2>4. CASE worker'.origin = "sync" /\ worker'.pc # "check"
      BY <2>4 DEF ActiveSyncInv
    <2> QED  BY <2>2, <2>3, <2>4
  <1>4. CASE Stage
    <2>1. /\ Write(NextStage[worker.pc]) /\ Goto(NextStage[worker.pc])
          /\ worker.pc \in DOMAIN NextStage /\ UNCHANGED <<hook, syncQ>>
      BY <1>4 DEF Stage
    <2>2. worker'.origin = worker.origin /\ worker'.pc # "check"
      BY <2>1, StageTypes, GotoType DEF NextStage
    <2>3. worker.origin # "sync" =>
            /\ repo'.sync = repo.sync /\ repo'.latest = repo.latest
            /\ unrecorded' = unrecorded \ {"status"}
      BY <2>1, StageTypes, QuietWrite DEF Field
    <2> QED  BY <2>1, <2>2, <2>3 DEF ActiveSyncInv, InSyncQ
  <1>5. CASE Clone \/ SyncDecide
    <2>1. /\ UNCHANGED <<hook, syncQ, repo, unrecorded>> /\ worker.pc # "check"
          /\ worker'.origin = worker.origin /\ worker'.pc # "check"
      BY <1>5 DEF Clone, SyncDecide, Outcome, Goto, TypeOK, WorkerType
    <2> QED  BY <2>1 DEF ActiveSyncInv, InSyncQ
  <1>6. CASE Publish
    <2>1. /\ UNCHANGED <<hook, syncQ>> /\ worker'.origin = worker.origin /\ worker'.pc = "PUBLISHED"
      BY <1>6 DEF Publish, Goto, TypeOK, WorkerType
    <2>2. worker.origin # "sync" => repo'.sync \notin ACTIVE
      BY <1>6 DEF Publish, update_repository, PublishedRepo, Exists, Absent, TypeOK, RepoType, ACTIVE
    <2> QED  BY <2>1, <2>2 DEF ActiveSyncInv
  <1>7. CASE IngestFails
    <2>1. /\ Write("FAILED") \/ UNCHANGED <<repo, unrecorded>>
          /\ UNCHANGED <<hook, syncQ>>
          /\ worker'.origin = worker.origin /\ worker'.pc \in {"FAILED", "raised"}
      BY <1>7 DEF IngestFails, WriteFails, Goto, TypeOK, WorkerType
    <2>2. worker.origin # "sync" =>
            /\ repo'.sync = repo.sync /\ repo'.latest = repo.latest
            /\ "sync" \in unrecorded => "sync" \in unrecorded'
      BY <2>1, QuietWrite DEF Field
    <2> QED  BY <2>1, <2>2 DEF ActiveSyncInv, InSyncQ
  <1>8. CASE SyncFinish
    <2>1. worker.origin = "sync" /\ \E s \in {"CURRENT", "STALE"} : Write(s)
      BY <1>8 DEF SyncFinish, TypeOK
    <2>2. repo'.sync \notin ACTIVE
      BY <2>1, QuietWrite DEF ACTIVE, TypeOK, Absent
    <2> QED  BY <2>2 DEF ActiveSyncInv
  <1>9. CASE SyncFails \/ SyncRaises
    <2>1. worker'.origin = "sync" /\ worker'.pc = "raised"
      BY <1>9 DEF SyncFails, SyncRaises, Goto, TypeOK, WorkerType
    <2> QED  BY <2>1 DEF ActiveSyncInv
  <1>10. CASE JobFailed
    <2>1. CASE worker.origin = "sync"
      <3>1. repo'.sync \notin ACTIVE \/ "sync" \in unrecorded'
        BY <1>10, <2>1, QuietFailure DEF ACTIVE
      <3> QED  BY <3>1 DEF ActiveSyncInv
    <2>2. CASE worker.origin # "sync"
      <3>1. /\ UNCHANGED <<hook, syncQ>> /\ repo'.sync = repo.sync /\ repo'.latest = repo.latest
            /\ "sync" \in unrecorded => "sync" \in unrecorded'
        BY <1>10, <2>2, QuietFailure DEF JobFailed
      <3> QED  BY <2>2, <3>1 DEF ActiveSyncInv, InSyncQ
    <2> QED  BY <2>1, <2>2
  <1> QED
    BY <1>1, <1>2, <1>3, <1>4, <1>5, <1>6, <1>7, <1>8, <1>9, <1>10
    DEF WorkerStep, FailureCallback, WorkHorseKilled

LEMMA SyncStep ==
    ASSUME TypeOK, TypeOK', ActiveSyncInv, [Next]_vars
    PROVE  ActiveSyncInv'
  <1>1. CASE UNCHANGED vars
    BY <1>1, SyncFrame DEF vars, dbVars, queueVars
  <1>2. CASE ApiRestart
    <2>1. UNCHANGED <<repo, syncQ, worker>> /\ unrecorded \subseteq unrecorded'
      BY <1>2 DEF ApiRestart, queueVars
    <2>2. hook.pc = "updated" => "sync" \in unrecorded'
      BY <1>2 DEF ApiRestart
    <2> QED  BY <2>1, <2>2 DEF ActiveSyncInv, InSyncQ
  <1> QED  BY <1>1, <1>2, SyncGitHub, SyncRequest, SyncWorker DEF Next

(* A background status in progress, which also blocks reindex and delete,  *)
(* has a job that will end it: a superseded job never leaves without       *)
(* another one behind it, and a killed one is recorded, unless the         *)
(* database fails then.                                                    *)
THEOREM ActiveSyncHasJobHolds == Spec => []ActiveSyncHasJob
  <1>1. Init => TypeOK /\ ActiveSyncInv
    BY TypeInit DEF Init, ActiveSyncInv, Absent, ACTIVE
  <1>2. TypeOK /\ ActiveSyncInv /\ [Next]_vars => (TypeOK /\ ActiveSyncInv)'
    BY TypeStep, SyncStep
  <1>3. ActiveSyncInv => ActiveSyncHasJob
    BY DEF ActiveSyncInv, ActiveSyncHasJob
  <1> QED  BY <1>1, <1>2, <1>3, PTL DEF Spec


-----------------------------------------------------------------------------
(* What background synchronization leaves of the version served, and when  *)
(* CURRENT is true.                                                        *)

LEMMA SyncStepKeeps ==
    ASSUME TypeOK, TypeOK', VersionInv, [Next]_vars, worker.origin = "sync", worker' # worker
    PROVE  /\ repo'.status = repo.status
           /\ \/ UNCHANGED <<graph, snapshots>> /\ repo'.indexed = repo.indexed
              \/ /\ graph' = worker.rev
                 /\ Exists => repo'.indexed = graph'
                 /\ \E s \in snapshots' : s.sha = graph'
  <1> USE DEF ghVars, dbVars, queueVars, apiVars
  <1>0. worker.pc # "idle"
    BY DEF TypeOK
  <1>1. ASSUME Quiet, repo'.status = repo.status
        PROVE  /\ repo'.status = repo.status
               /\ UNCHANGED <<graph, snapshots>> /\ repo'.indexed = repo.indexed
    BY <1>1 DEF Quiet, TypeOK, Absent
  <1>2. CASE Stage \/ IngestFails \/ SyncFinish \/ SyncFails
    <2>1. \/ \E s \in {"FAILED", "READY", "CURRENT", "STALE", "ERROR"} \union ACTIVE : Write(s)
          \/ UNCHANGED repo
      BY <1>2, StageTypes DEF Stage, IngestFails, SyncFinish, SyncFails, WriteFails
    <2>2. repo'.status = repo.status
      BY <2>1, QuietWrite
    <2> QED  BY <1>1, <1>2, <2>2, QuietWorker
  <1>3. CASE SyncCheck \/ Clone \/ SyncDecide \/ SyncRaises
    <2>1. UNCHANGED repo
      BY <1>3 DEF SyncCheck, Clone, SyncDecide, SyncRaises
    <2> QED  BY <1>1, <1>3, <2>1, QuietWorker
  <1>4. CASE Publish
    <2>1. graph' = worker.rev /\ [sha |-> worker.rev, at |-> clock'] \in snapshots'
      BY <1>4, PublishedRetained DEF Publish
    <2>2. \E s \in snapshots' : s.sha = graph'
      BY <2>1
    <2>3. repo'.status = repo.status /\ (Exists => repo'.indexed = worker.rev)
      BY <1>4 DEF Publish, PublishedRepo, update_repository, TypeOK, RepoType
    <2> QED  BY <2>1, <2>2, <2>3
  <1>5. CASE JobFailed
    BY <1>1, <1>5, QuietFailure
  <1>6. CASE \/ UNCHANGED worker \/ TakeIngest \/ TakeSync \/ IngestDone
    BY <1>0, <1>6 DEF TakeIngest, TakeSync, IngestDone
  <1>7. ASSUME NEW r \in Requests, NewRequest(r) \/ RequestStep(r) PROVE UNCHANGED worker
    BY <1>7 DEF NewRequest, RequestStep, CreateRepository, ReindexRead, DeleteRead, PollRead,
         ReindexUpdate, EnqueueIngest, EnqueueIngestFails, DeleteRepository, PollUpdate, RequestFails
  <1>8. CASE Push \/ Redeliver \/ HookReceive \/ HookStep \/ ApiRestart \/ UNCHANGED vars
    BY <1>6, <1>8, QuietGitHub DEF vars
  <1> QED
    BY <1>2, <1>3, <1>4, <1>5, <1>6, <1>7, <1>8
    DEF Next, WorkerStep, FailureCallback, WorkHorseKilled

LEMMA VersionInvariant == Spec => [](TypeOK /\ VersionInv)
  <1>1. Init => TypeOK /\ VersionInv
    BY TypeInit, VersionInit
  <1>2. TypeOK /\ VersionInv /\ [Next]_vars => (TypeOK /\ VersionInv)'
    BY TypeStep, VersionStep
  <1> QED  BY <1>1, <1>2, PTL DEF Spec

(* A background sync leaves the version that is served alone until one     *)
(* transaction replaces all of it, whatever it fails at, and also when the *)
(* repository is deleted while it runs (ingestion.py, ingest with          *)
(* background_sync).                                                       *)
THEOREM SyncKeepsPreviousVersionHolds == Spec => SyncKeepsPreviousVersion
  <1> DEFINE Keeps ==
        worker.origin = "sync" /\ worker' # worker =>
          /\ repo'.status = repo.status
          /\ \/ UNCHANGED <<graph, snapshots>> /\ repo'.indexed = repo.indexed
             \/ /\ graph' = worker.rev
                /\ Exists => repo'.indexed = graph'
                /\ \E s \in snapshots' : s.sha = graph'
  <1>1. TypeOK /\ TypeOK' /\ VersionInv /\ [Next]_vars => [Keeps]_vars
    BY SyncStepKeeps
  <1>2. [](TypeOK /\ VersionInv) /\ [][Next]_vars => [][Keeps]_vars
    BY <1>1, PTL
  <1>3. Spec => [][Keeps]_vars
    BY <1>2, VersionInvariant, PTL DEF Spec
  <1> QED  BY <1>3 DEF SyncKeepsPreviousVersion

(* While a sync job is past its first status write the status is not       *)
(* CURRENT.  When it is and the index is not at the newest push, the job   *)
(* of that push waits, or has only been taken.                             *)
SyncStages == {"CLONED", "PUBLISHED", "READY", "FAILED"} \union (ACTIVE \ {"QUEUED"})

TakenForLatest ==
    worker.origin = "sync" /\ worker.arg = repo.latest /\ worker.pc \in {"check", "begin"}

CurrentInv ==
    /\ worker.origin = "sync" /\ worker.pc \in SyncStages => repo.sync # "CURRENT"
    /\ Exists /\ repo.sync = "CURRENT" =>
        repo.indexed = repo.latest \/ Pending \/ TakenForLatest
    /\ Exists /\ worker.pc = "CURRENT" => repo.indexed = repo.latest \/ Pending

LEMMA CurrentFrame ==
    ASSUME TypeOK', CurrentInv, UNCHANGED <<hook, syncQ, worker>>,
           Exists' => /\ Exists /\ repo'.indexed = repo.indexed
                      /\ repo'.latest = repo.latest /\ repo'.sync = repo.sync
    PROVE  CurrentInv'
  <1>1. CASE Exists'
    BY <1>1 DEF CurrentInv, Pending, TakenForLatest, InSyncQ
  <1>2. CASE ~Exists'
    <2>1. repo'.sync = "UNSET"
      BY <1>2 DEF TypeOK, Absent
    <2> QED  BY <1>2, <2>1 DEF CurrentInv
  <1> QED  BY <1>1, <1>2

LEMMA CurrentGitHub ==
    ASSUME AppliedInFull, TypeOK, TypeOK', CurrentInv, Push \/ Redeliver \/ HookReceive \/ HookStep
    PROVE  CurrentInv'
  <1> USE DEF ghVars, dbVars, apiVars, queueVars
  <1>1. CASE Push \/ Redeliver
    <2>1. UNCHANGED <<hook, syncQ, worker, repo>>
      BY <1>1 DEF Push, Redeliver
    <2> QED  BY <2>1, CurrentFrame DEF Exists
  <1>2. CASE HookReceive
    <2>1. UNCHANGED <<repo, syncQ, worker>> /\ hook.pc = "idle"
      BY <1>2 DEF HookReceive
    <2>2. Pending => Pending'
      BY <2>1 DEF Pending, InSyncQ
    <2> QED  BY <2>1, <2>2 DEF CurrentInv, TakenForLatest, Exists
  <1>3. CASE HookUpdate
    <2>1. /\ UNCHANGED worker /\ hook'.pc = "updated" /\ hook'.sha = hook.sha /\ (Exists' <=> Exists)
          /\ Exists => repo'.latest = hook.sha /\ repo'.sync = "QUEUED"
          /\ ~Exists => repo' = repo
      BY <1>3 DEF HookUpdate, update_repository, Exists, TypeOK, RepoType, HookType
    <2>2. Exists => Pending'
      BY <2>1 DEF Pending
    <2> QED  BY <2>1, <2>2 DEF CurrentInv
  <1>4. CASE HookEnqueue
    <2>1. /\ UNCHANGED <<repo, worker>> /\ hook.pc = "updated"
          /\ syncQ' = Append(syncQ, hook.sha) /\ hook.sha \in Commit
      BY <1>4 DEF HookEnqueue, TypeOK, HookType
    <2>2. Pending => Pending'
      BY <2>1, QueueAppend DEF Pending
    <2> QED  BY <2>1, <2>2 DEF CurrentInv, TakenForLatest, Exists
  <1>5. CASE HookUpdateFails \/ HookEnqueueFails
    BY <1>5 DEF HookUpdateFails, HookEnqueueFails, AppliedInFull
  <1> QED  BY <1>1, <1>2, <1>3, <1>4, <1>5 DEF HookStep

LEMMA CurrentRequest ==
    ASSUME TypeOK, TypeOK', Untouched, CurrentInv, NEW r \in Requests, NewRequest(r) \/ RequestStep(r)
    PROVE  CurrentInv'
  <1> USE DEF ghVars, dbVars, apiVars, queueVars
  <1>1. CASE CreateRepository(r)
    <2>1. repo'.sync = "UNSET" /\ worker' = worker /\ worker.pc = "idle"
      BY <1>1 DEF CreateRepository, Untouched, Absent
    <2> QED  BY <2>1 DEF CurrentInv, SyncStages, ACTIVE
  <1>2. CASE DeleteRepository(r)
    BY <1>2, CurrentFrame DEF DeleteRepository, Absent, Exists
  <1>3. CASE ReindexUpdate(r) \/ EnqueueIngestFails(r) \/ PollUpdate(r)
    <2>1. UNCHANGED <<hook, syncQ, worker>>
      BY <1>3 DEF ReindexUpdate, EnqueueIngestFails, PollUpdate
    <2>2. Exists' => /\ Exists /\ repo'.indexed = repo.indexed
                     /\ repo'.latest = repo.latest /\ repo'.sync = repo.sync
      BY <1>3 DEF ReindexUpdate, EnqueueIngestFails, PollUpdate, RecordFailure, update_repository,
                  Exists, TypeOK, RepoType
    <2> QED  BY <2>1, <2>2, CurrentFrame
  <1>4. CASE ReindexRead(r) \/ DeleteRead(r) \/ PollRead(r) \/ EnqueueIngest(r) \/ RequestFails(r)
    <2>1. UNCHANGED <<hook, syncQ, worker, repo>>
      BY <1>4 DEF ReindexRead, DeleteRead, PollRead, EnqueueIngest, RequestFails
    <2> QED  BY <2>1, CurrentFrame DEF Exists
  <1> QED  BY <1>1, <1>2, <1>3, <1>4 DEF NewRequest, RequestStep

(* A worker step that keeps the queue and the commits: CURRENT is only     *)
(* written when that was decided before.                                   *)
LEMMA CurrentKeep ==
    ASSUME CurrentInv, UNCHANGED <<hook, syncQ>>,
           repo'.indexed = repo.indexed, repo'.latest = repo.latest, Exists' <=> Exists,
           worker'.origin = "sync" /\ worker'.pc \in SyncStages => repo'.sync # "CURRENT",
           Exists /\ repo'.sync = "CURRENT" => repo.sync = "CURRENT" \/ worker.pc = "CURRENT",
           Exists /\ repo'.sync = "CURRENT" /\ TakenForLatest =>
              repo.indexed = repo.latest \/ TakenForLatest',
           Exists /\ worker'.pc = "CURRENT" =>
              repo.indexed = repo.latest \/ worker.pc = "CURRENT"
    PROVE  CurrentInv'
  <1>1. Pending <=> Pending'
    BY DEF Pending, InSyncQ
  <1> QED  BY <1>1 DEF CurrentInv

LEMMA CurrentWorker ==
    ASSUME AppliedInFull, TypeOK, TypeOK', CurrentInv, WorkerStep
    PROVE  CurrentInv'
  <1> USE DEF ghVars, dbVars, apiVars, queueVars
  <1>0. ~Exists => repo.sync = "UNSET"
    BY DEF TypeOK, Absent
  <1>1. CASE TakeIngest
    <2>1. UNCHANGED <<hook, syncQ, repo>> /\ worker'.origin = "ingestion" /\ worker'.pc = "begin"
          /\ worker.origin = "none"
      BY <1>1 DEF TakeIngest, TypeOK
    <2> QED  BY <2>1, CurrentKeep DEF Exists, TakenForLatest
  <1>2. CASE TakeSync
    <2>1. /\ UNCHANGED <<hook, repo>>
          /\ syncQ # <<>> /\ syncQ' = Tail(syncQ) /\ worker.origin = "none"
          /\ worker'.origin = "sync" /\ worker'.pc = "check" /\ worker'.arg = Head(syncQ)
      BY <1>2 DEF TakeSync, TypeOK
    <2>2. Pending => Pending' \/ TakenForLatest'
      BY <2>1, QueueTail DEF Pending, TakenForLatest
    <2>3. ~TakenForLatest
      BY <2>1 DEF TakenForLatest
    <2> QED  BY <2>1, <2>2, <2>3 DEF CurrentInv, Exists, SyncStages, ACTIVE
  <1>3. CASE SyncCheck
    <2>1. UNCHANGED <<hook, syncQ, repo>> /\ worker.pc = "check" /\ worker.origin = "sync"
      BY <1>3 DEF SyncCheck, TypeOK
    <2>2. CASE AfterCheck(worker.arg) = "idle"
      <3>1. worker'.origin = "none" /\ worker'.pc = "idle" /\ repo.latest # worker.arg
        BY <1>3, <2>2 DEF SyncCheck, AfterCheck, IdleWorker
      <3> QED  BY <2>1, <3>1, CurrentKeep DEF Exists, TakenForLatest
    <2>3. CASE AfterCheck(worker.arg) # "idle"
      <3>1. /\ worker'.origin = "sync" /\ worker'.arg = worker.arg
            /\ worker'.pc = AfterCheck(worker.arg)
        BY <1>3, <2>1, <2>3 DEF SyncCheck, Goto, TypeOK, WorkerType
      <3>2. \/ worker'.pc = "raised" /\ ~Exists
            \/ worker'.pc = "CURRENT" /\ repo.indexed = repo.latest
            \/ worker'.pc = "begin"
        BY <2>3, <3>1 DEF AfterCheck
      <3>3. worker'.pc \notin SyncStages
        BY <3>2 DEF SyncStages, ACTIVE
      <3> QED  BY <2>1, <3>1, <3>2, <3>3, CurrentKeep DEF Exists, TakenForLatest
    <2> QED  BY <2>2, <2>3
  <1>4. CASE Stage
    <2>1. /\ Write(NextStage[worker.pc]) /\ Goto(NextStage[worker.pc])
          /\ worker.pc \in DOMAIN NextStage /\ UNCHANGED <<hook, syncQ>>
      BY <1>4 DEF Stage
    <2>2. worker'.pc = NextStage[worker.pc] /\ worker'.origin = worker.origin
      BY <2>1, StageTypes, GotoType
    <2>3. NextStage[worker.pc] # "CURRENT" /\ worker.pc \notin {"check", "CURRENT"}
      BY <2>1 DEF NextStage
    <2>4. /\ repo'.indexed = repo.indexed /\ repo'.latest = repo.latest /\ (Exists' <=> Exists)
          /\ worker.origin # "sync" => repo'.sync = repo.sync
          /\ worker.origin = "sync" /\ Exists => repo'.sync = NextStage[worker.pc]
          /\ ~Exists => repo' = repo
      BY <2>1, StageTypes, QuietWrite
    <2>5. worker.origin = "sync" => repo'.sync # "CURRENT"
      BY <1>0, <2>3, <2>4
    <2> QED  BY <2>1, <2>2, <2>3, <2>4, <2>5, CurrentKeep DEF TakenForLatest
  <1>5. CASE Clone
    <2>1. /\ UNCHANGED <<hook, syncQ, repo>> /\ worker.pc = "CLONING"
          /\ worker'.pc = "CLONED" /\ worker'.origin = worker.origin
      BY <1>5 DEF Clone, TypeOK, WorkerType
    <2>2. worker.origin = "sync" => repo.sync # "CURRENT"
      BY <2>1 DEF CurrentInv, SyncStages, ACTIVE
    <2> QED  BY <2>1, <2>2, CurrentKeep DEF Exists, TakenForLatest
  <1>6. CASE Publish
    <2>1. /\ UNCHANGED <<hook, syncQ>> /\ worker.pc = "ANALYZING"
          /\ worker'.pc = "PUBLISHED" /\ worker'.origin = worker.origin
      BY <1>6 DEF Publish, Goto, TypeOK, WorkerType
    <2>2. /\ (Exists' <=> Exists)
          /\ Exists /\ worker.origin = "sync" => repo'.sync = repo.sync
          /\ Exists /\ worker.origin # "sync" => repo'.latest = repo'.indexed
          /\ ~Exists => repo' = repo
      BY <1>6 DEF Publish, update_repository, PublishedRepo, Exists, TypeOK, RepoType
    <2>3. worker.origin = "sync" => repo.sync # "CURRENT"
      BY <2>1 DEF CurrentInv, SyncStages, ACTIVE
    <2> QED  BY <1>0, <2>1, <2>2, <2>3 DEF CurrentInv
  <1>7. CASE IngestDone
    <2>1. UNCHANGED <<hook, syncQ, repo>>
          /\ worker'.origin = "none" /\ worker'.pc = "idle" /\ worker.origin = "ingestion"
      BY <1>7 DEF IngestDone, IdleWorker
    <2> QED  BY <2>1, CurrentKeep DEF Exists, TakenForLatest
  <1>8. CASE IngestFails
    <2>1. /\ Write("FAILED") /\ UNCHANGED <<hook, syncQ>>
          /\ worker.pc \in IngestPCs /\ worker'.origin = worker.origin
          /\ worker'.pc \in {"FAILED", "raised"}
      BY <1>8 DEF IngestFails, WriteFails, AppliedInFull, Goto, TypeOK, WorkerType
    <2>2. worker.pc # "CURRENT"
      BY <2>1 DEF IngestPCs, ACTIVE
    <2>3. /\ repo'.indexed = repo.indexed /\ repo'.latest = repo.latest /\ (Exists' <=> Exists)
          /\ worker.origin # "sync" => repo'.sync = repo.sync
          /\ worker.origin = "sync" /\ Exists => repo'.sync = "FAILED"
          /\ ~Exists => repo' = repo
      BY <2>1, QuietWrite
    <2>4. worker.origin = "sync" => repo'.sync # "CURRENT"
      BY <1>0, <2>3
    <2> QED  BY <2>1, <2>2, <2>3, <2>4, CurrentKeep DEF TakenForLatest
  <1>9. CASE SyncDecide
    <2>1. /\ UNCHANGED <<hook, syncQ, repo>> /\ worker.pc = "READY"
          /\ worker'.pc \in {"CURRENT", "STALE"}
          /\ worker'.pc = "CURRENT" => repo.indexed = repo.latest
      BY <1>9 DEF SyncDecide, Outcome, Goto, TypeOK, WorkerType
    <2>2. worker'.pc \notin SyncStages
      BY <2>1 DEF SyncStages, ACTIVE
    <2> QED  BY <2>1, <2>2, CurrentKeep DEF Exists, TakenForLatest
  <1>10. CASE SyncFinish
    <2>1. /\ Write(worker.pc) /\ UNCHANGED <<hook, syncQ>>
          /\ worker.pc \in {"CURRENT", "STALE"} /\ worker.origin = "sync"
          /\ worker'.origin = "none" /\ worker'.pc = "idle"
      BY <1>10 DEF SyncFinish, IdleWorker, TypeOK
    <2>2. /\ repo'.indexed = repo.indexed /\ repo'.latest = repo.latest /\ (Exists' <=> Exists)
          /\ Exists => repo'.sync = worker.pc
      BY <2>1, QuietWrite
    <2> QED  BY <2>1, <2>2, CurrentKeep DEF TakenForLatest
  <1>11. CASE SyncFails
    <2>1. /\ Write("ERROR") /\ UNCHANGED <<hook, syncQ>>
          /\ worker.origin = "sync" /\ worker'.pc = "raised"
      BY <1>11 DEF SyncFails, WriteFails, AppliedInFull, Goto, TypeOK, WorkerType
    <2>2. /\ repo'.indexed = repo.indexed /\ repo'.latest = repo.latest /\ (Exists' <=> Exists)
          /\ Exists => repo'.sync = "ERROR"
          /\ ~Exists => repo' = repo
      BY <2>1, QuietWrite
    <2>3. repo'.sync # "CURRENT"
      BY <1>0, <2>2
    <2> QED  BY <2>1, <2>2, <2>3, CurrentKeep
  <1>12. CASE FailureCallback
    <2>1. JobFailed /\ worker.pc = "raised" /\ worker'.origin = "none" /\ worker'.pc = "idle"
          /\ UNCHANGED <<hook, syncQ>>
      BY <1>12 DEF FailureCallback, JobFailed, IdleWorker
    <2>2. /\ repo'.latest = repo.latest /\ repo'.indexed = repo.indexed /\ (Exists' <=> Exists)
          /\ repo'.sync \in {repo.sync, "ERROR"}
      BY <2>1, QuietFailure DEF Quiet
    <2> QED  BY <2>1, <2>2, CurrentKeep DEF TakenForLatest
  <1>13. CASE SyncRaises
    BY <1>13 DEF SyncRaises, AppliedInFull
  <1> QED
    BY <1>1, <1>2, <1>3, <1>4, <1>5, <1>6, <1>7, <1>8, <1>9, <1>10, <1>11, <1>12, <1>13
    DEF WorkerStep

LEMMA CurrentStep ==
    ASSUME AppliedInFull, TypeOK, TypeOK', Untouched, CurrentInv, [Next]_vars
    PROVE  CurrentInv'
  <1>1. CASE UNCHANGED vars
    BY <1>1, CurrentFrame DEF vars, ghVars, dbVars, queueVars, Exists
  <1>2. CASE ApiRestart \/ WorkHorseKilled
    BY <1>2 DEF ApiRestart, WorkHorseKilled, AppliedInFull, TypeOK
  <1> QED
    BY <1>1, <1>2, CurrentGitHub, CurrentRequest, CurrentWorker DEF Next

(* When nothing runs or waits, CURRENT means that the index is at the      *)
(* newest push the repository knows: a status decided before a webhook and *)
(* written after it is corrected by the job of that webhook.  With a       *)
(* restart, a killed work horse or a refused job there may be none.        *)
THEOREM CurrentIsTrueHolds == AppliedInFull /\ Spec => []CurrentIsTrue
  <1> SUFFICES ASSUME AppliedInFull PROVE Spec => []CurrentIsTrue
    OBVIOUS
  <1>1. Init => CurrentInv
    BY DEF Init, CurrentInv, Exists, Absent, IdleWorker
  <1>2. TypeOK /\ TypeOK' /\ VersionInv /\ CurrentInv /\ [Next]_vars => CurrentInv'
    BY CurrentStep DEF VersionInv
  <1>3. TypeOK /\ CurrentInv => CurrentIsTrue
    <2> SUFFICES ASSUME TypeOK, CurrentInv, Quiescent, repo.sync = "CURRENT"
                 PROVE  repo.indexed = repo.latest
      BY DEF CurrentIsTrue
    <2>1. Exists
      BY DEF TypeOK, Absent
    <2>2. ~Pending /\ ~TakenForLatest
      BY DEF Quiescent, Pending, InSyncQ, TakenForLatest
    <2> QED  BY <2>1, <2>2 DEF CurrentInv
  <1> QED  BY <1>1, <1>2, <1>3, VersionInvariant, PTL DEF Spec
=============================================================================
