------------------------------ MODULE Indexing ------------------------------
(***************************************************************************)
(* The life of one GitHub repository in Regora: the API endpoints that     *)
(* create, reindex, poll and delete it, the push webhook, the `worker`     *)
(* process that serves the RQ queues "ingestion" and "sync", and what      *)
(* these write to Neo4j.                                                   *)
(*                                                                         *)
(*  - A commit is its position in the default branch; 0 is "no commit".    *)
(*    The fingerprint of a graph is determined by the commit, so the       *)
(*    commit stands for it too.                                            *)
(*  - One database statement or transaction is one step; what a handler    *)
(*    reads before it stays in its `requests`, `hook` or `worker` record.  *)
(*  - FastAPI runs the `def` endpoints on threads, so `Requests` are       *)
(*    concurrent; the webhook is `async def` and never awaits after it     *)
(*    read the body, so one handler runs at a time.                        *)
(*  - One worker process takes jobs one by one, "ingestion" first.         *)
(***************************************************************************)
EXTENDS Integers, Sequences, FiniteSets

CONSTANTS
    Requests,        \* API threads
    MaxCommit,       \* bound on the commits pushed to the default branch
    MaxJobs,         \* bound on the ingestion jobs ever created
    MaxCrashes,      \* bound on the restarts of the API process
    MaxRedeliveries, \* bound on webhooks redelivered by hand
    Keep,            \* snapshots retained per repository
    MayBeKilled,     \* whether the work horse may be killed
    RedisMayFail,    \* whether Redis may refuse a command
    DatabaseMayFail  \* whether Neo4j may refuse a statement

ASSUME BoundsAssumption ==
    /\ MaxCommit \in Nat \ {0}
    /\ MaxJobs \in Nat \ {0}
    /\ MaxCrashes \in Nat
    /\ MaxRedeliveries \in Nat
    /\ Keep \in Nat \ {0}
    /\ MayBeKilled \in BOOLEAN
    /\ RedisMayFail \in BOOLEAN
    /\ DatabaseMayFail \in BOOLEAN

VARIABLES
    head,        \* newest commit of the default branch on GitHub
    inFlight,    \* push deliveries on their way to the webhook
    redelivered, \* deliveries repeated so far
    seen,        \* delivery keys held in Redis
    hook,        \* the webhook handler: [pc, sha]
    repo,        \* the RepositoryMeta node, or Absent
    graph,       \* commit whose CodeNodes are in the database
    snapshots,   \* GraphSnapshot nodes: [sha, at]
    clock,       \* publications so far, the order of created_at
    unrecorded,  \* history: fields of repo whose last writer failed unrecorded
    requests,    \* each API thread: [pc, job]
    jobs,        \* ingestion jobs created so far, also the newest job id
    crashes,     \* restarts of the API process so far
    ingestQ,     \* the "ingestion" queue: job ids
    syncQ,       \* the "sync" queue: expected commits
    failed,      \* ingestion jobs RQ recorded as failed
    worker       \* the work horse: [pc, origin, arg, rev]

ghVars == <<head, inFlight, redelivered>>
dbVars == <<repo, graph, snapshots, clock, unrecorded>>
queueVars == <<ingestQ, syncQ, failed>>
apiVars == <<requests, jobs, crashes>>
vars == <<ghVars, seen, hook, dbVars, apiVars, queueVars, worker>>

Commit == 1..MaxCommit
ACTIVE == {"QUEUED", "CLONING", "SCANNING", "PARSING", "BUILDING_GRAPH",
           "EMBEDDING", "ANALYZING"}
(* No node: the repository is not created yet, or is deleted.              *)
Absent == [status |-> "ABSENT", sync |-> "UNSET", indexed |-> 0, latest |-> 0, job |-> 0]
Exists == repo.status # "ABSENT"

-----------------------------------------------------------------------------
(* Statements of the store.                                                *)

(* Mutant: MERGE instead of MATCH.                                         *)
UpsertRepository(r) == r

(* MATCH (r:RepositoryMeta {id}) SET ...: no effect when the node is gone. *)
update_repository(r) == IF Exists THEN r ELSE repo

(* Mutant: the statement spares a job that has left the queue.             *)
FailSyncOnlyWhenQueued(r) == IF r.sync = "QUEUED" THEN [r EXCEPT !.sync = "ERROR"] ELSE r

fail_sync_if_active(r) == IF r.sync \in ACTIVE THEN [r EXCEPT !.sync = "ERROR"] ELSE r

(* ORDER BY created_at DESC SKIP keep DELETE: the newest Keep stay.        *)
Prune(S) == {s \in S : Cardinality({t \in S : t.at > s.at}) < Keep}

(* MERGE of the snapshot on (repository, commit): created_at is renewed.   *)
Merge(S, sha, at) == {s \in S : s.sha # sha} \union {[sha |-> sha, at |-> at]}

repository_operation_active(r) == r.status \in ACTIVE \/ r.sync \in ACTIVE

(* The record of a failure in a field of the repository is lost when the   *)
(* database fails too: the callbacks only log that, nothing repeats it.    *)
RecordFailure(field, r) ==
    \/ repo' = update_repository(r) /\ unrecorded' = unrecorded \ {field}
    \/ DatabaseMayFail /\ UNCHANGED repo /\ unrecorded' = unrecorded \union {field}

-----------------------------------------------------------------------------
(* GitHub.                                                                 *)

Push ==
    /\ head < MaxCommit
    /\ head' = head + 1
    /\ inFlight' = inFlight \union {head'}
    /\ UNCHANGED <<redelivered, seen, hook, dbVars, apiVars, queueVars, worker>>

(* A maintainer asks GitHub to send an old delivery again.                 *)
Redeliver ==
    /\ redelivered < MaxRedeliveries
    /\ redelivered' = redelivered + 1
    /\ \E sha \in 2..head : inFlight' = inFlight \union {sha}
    /\ UNCHANGED <<head, seen, hook, dbVars, apiVars, queueVars, worker>>

-----------------------------------------------------------------------------
(* github_webhook, for a push to the default branch.  Deliveries arrive in *)
(* any order.                                                              *)

(* SET NX of the delivery key, then the binding query, which finds only a  *)
(* repository whose status is READY.  Otherwise, or when the query fails,  *)
(* the key is deleted again, if Redis does not fail then.                  *)
HookReceive ==
    /\ hook.pc = "idle"
    /\ \E sha \in inFlight :
        /\ inFlight' = inFlight \ {sha}
        /\ \/ /\ sha \notin seen /\ repo.status = "READY"
              /\ seen' = seen \union {sha}
              /\ hook' = [pc |-> "bound", sha |-> sha]
           \/ /\ sha \in seen \/ repo.status # "READY" \/ DatabaseMayFail
              /\ UNCHANGED seen \/ (RedisMayFail /\ seen' = seen \union {sha})
              /\ UNCHANGED hook
    /\ UNCHANGED <<head, redelivered, dbVars, apiVars, queueVars, worker>>

HookUpdate ==
    /\ hook.pc = "bound"
    /\ repo' = update_repository([repo EXCEPT !.latest = hook.sha, !.sync = "QUEUED"])
    /\ unrecorded' = unrecorded \ {"sync"}
    /\ hook' = [hook EXCEPT !.pc = "updated"]
    /\ UNCHANGED <<ghVars, seen, graph, snapshots, clock, apiVars, queueVars, worker>>

(* The except clause: the key is deleted first, and when Redis fails there *)
(* the ERROR below is never reached.                                       *)
DeleteKey == seen' = seen \ {hook.sha}

HookUpdateFails ==
    /\ DatabaseMayFail /\ hook.pc = "bound"
    /\ hook' = [hook EXCEPT !.pc = "idle"]
    /\ \/ DeleteKey /\ repo' = update_repository([repo EXCEPT !.sync = "ERROR"])
          /\ unrecorded' = unrecorded \ {"sync"}
       \/ DeleteKey /\ UNCHANGED <<repo, unrecorded>>
       \/ RedisMayFail /\ UNCHANGED <<seen, repo, unrecorded>>
    /\ UNCHANGED <<ghVars, graph, snapshots, clock, apiVars, queueVars, worker>>

HookEnqueue ==
    /\ hook.pc = "updated"
    /\ syncQ' = Append(syncQ, hook.sha)
    /\ hook' = [hook EXCEPT !.pc = "idle"]
    /\ UNCHANGED <<ghVars, seen, dbVars, apiVars, ingestQ, failed, worker>>

HookEnqueueFails ==
    /\ RedisMayFail /\ hook.pc = "updated"
    /\ hook' = [hook EXCEPT !.pc = "idle"]
    /\ \/ DeleteKey /\ RecordFailure("sync", [repo EXCEPT !.sync = "ERROR"])
       \/ UNCHANGED <<seen, repo>> /\ unrecorded' = unrecorded \union {"sync"}
    /\ UNCHANGED <<ghVars, graph, snapshots, clock, apiVars, queueVars, worker>>

-----------------------------------------------------------------------------
(* The owner's API requests.                                               *)

SetRequest(r, pc, job) == requests' = [requests EXCEPT ![r] = [pc |-> pc, job |-> job]]

EndRequest(r) == SetRequest(r, "idle", 0)

(* `github` and `enqueue`: the metadata node, then the job.                *)
CreateRepository(r) ==
    /\ requests[r].pc = "idle" /\ jobs = 0
    /\ jobs' = 1
    /\ repo' = [Absent EXCEPT !.status = "QUEUED", !.job = 1]
    /\ unrecorded' = {}
    /\ SetRequest(r, "queued", 1)
    /\ UNCHANGED <<ghVars, seen, hook, graph, snapshots, clock, crashes, queueVars, worker>>

(* `reindex` reads the repository and refuses while an operation is active.*)
ReindexRead(r) ==
    /\ requests[r].pc = "idle" /\ jobs < MaxJobs
    /\ Exists /\ ~repository_operation_active(repo)
    /\ SetRequest(r, "reindex", 0)
    /\ UNCHANGED <<ghVars, seen, hook, dbVars, jobs, crashes, queueVars, worker>>

ReindexUpdate(r) ==
    /\ requests[r].pc = "reindex" /\ jobs < MaxJobs
    /\ jobs' = jobs + 1
    /\ repo' = update_repository([repo EXCEPT !.status = "QUEUED", !.job = jobs'])
    /\ unrecorded' = unrecorded \ {"status"}
    /\ SetRequest(r, "queued", jobs')
    /\ UNCHANGED <<ghVars, seen, hook, graph, snapshots, clock, crashes, queueVars, worker>>

EnqueueIngest(r) ==
    /\ requests[r].pc = "queued"
    /\ ingestQ' = Append(ingestQ, requests[r].job)
    /\ EndRequest(r)
    /\ UNCHANGED <<ghVars, seen, hook, dbVars, jobs, crashes, syncQ, failed, worker>>

(* The token's key is deleted first, and when Redis fails there FAILED is  *)
(* never written.                                                          *)
EnqueueIngestFails(r) ==
    /\ RedisMayFail /\ requests[r].pc = "queued"
    /\ \/ RecordFailure("status", [repo EXCEPT !.status = "FAILED"])
       \/ UNCHANGED repo /\ unrecorded' = unrecorded \union {"status"}
    /\ EndRequest(r)
    /\ UNCHANGED <<ghVars, seen, hook, graph, snapshots, clock, jobs, crashes, queueVars, worker>>

(* `delete` reads the repository and refuses while an operation is active. *)
DeleteRead(r) ==
    /\ requests[r].pc = "idle"
    /\ Exists /\ ~repository_operation_active(repo)
    /\ SetRequest(r, "delete", 0)
    /\ UNCHANGED <<ghVars, seen, hook, dbVars, jobs, crashes, queueVars, worker>>

DeleteRepository(r) ==
    /\ requests[r].pc = "delete"
    /\ repo' = Absent /\ graph' = 0 /\ snapshots' = {} /\ unrecorded' = {}
    /\ EndRequest(r)
    /\ UNCHANGED <<ghVars, seen, hook, clock, jobs, crashes, queueVars, worker>>

(* `repository`, the status poll: it reads, then asks RQ for the job.      *)
PollRead(r) ==
    /\ requests[r].pc = "idle"
    /\ repo.status \in ACTIVE
    /\ SetRequest(r, "poll", repo.job)
    /\ UNCHANGED <<ghVars, seen, hook, dbVars, jobs, crashes, queueVars, worker>>

PollUpdate(r) ==
    /\ requests[r].pc = "poll"
    /\ \/ /\ requests[r].job \in failed
          /\ repo' = update_repository([repo EXCEPT !.status = "FAILED"])
          /\ unrecorded' = unrecorded \ {"status"}
       \/ requests[r].job \notin failed /\ UNCHANGED <<repo, unrecorded>>
    /\ EndRequest(r)
    /\ UNCHANGED <<ghVars, seen, hook, graph, snapshots, clock, jobs, crashes, queueVars, worker>>

(* A service fails a request that has only read: it changes nothing.       *)
RequestFails(r) ==
    /\ RedisMayFail \/ DatabaseMayFail
    /\ requests[r].pc \in {"reindex", "delete", "poll"}
    /\ EndRequest(r)
    /\ UNCHANGED <<ghVars, seen, hook, dbVars, jobs, crashes, queueVars, worker>>

(* The API process stops and starts again: its requests and the webhook    *)
(* handler are gone; the database and Redis (append only) stay.            *)
ApiRestart ==
    /\ crashes < MaxCrashes
    /\ crashes' = crashes + 1
    /\ hook' = [hook EXCEPT !.pc = "idle"]
    /\ requests' = [r \in Requests |-> [pc |-> "idle", job |-> 0]]
    /\ unrecorded' = unrecorded
         \union {f \in {"sync"} : hook.pc = "updated"}
         \union {f \in {"status"} : \E r \in Requests : requests[r].pc = "queued"}
    /\ UNCHANGED <<ghVars, seen, repo, graph, snapshots, clock, jobs, queueVars, worker>>

-----------------------------------------------------------------------------
(* The worker: one RQ work horse at a time.  worker.pc is the last thing   *)
(* the job did: "check" a sync job just taken, "begin" about to call       *)
(* ingest, a stage of ACTIVE, "CLONED", "PUBLISHED", "READY", a sync       *)
(* status decided but not written, "FAILED" an ingest that raised in a     *)
(* sync job, "raised" out of the job function.                             *)

IdleWorker == [pc |-> "idle", origin |-> "none", arg |-> 0, rev |-> 0]

IngestPCs == {"begin", "CLONED", "PUBLISHED", "READY"} \union (ACTIVE \ {"QUEUED"})

Goto(pc) == worker' = [worker EXCEPT !.pc = pc]

(* Mutant: background_sync is not passed on.                               *)
WriteForeground(status) ==
    /\ repo' = update_repository([repo EXCEPT !.status = status])
    /\ unrecorded' = unrecorded \ {"status"}

(* A background sync writes its own field.                                 *)
Field == IF worker.origin = "sync" THEN "sync" ELSE "status"

(* `stage` and the other status writes of a job.                           *)
Write(status) ==
    /\ repo' = update_repository(IF worker.origin = "sync"
                                   THEN [repo EXCEPT !.sync = status]
                                   ELSE [repo EXCEPT !.status = status])
    /\ unrecorded' = unrecorded \ {Field}

(* Such a write that fails, in a handler of a failure that is raised again.*)
WriteFails == DatabaseMayFail /\ UNCHANGED <<repo, unrecorded>>

TakeIngest ==
    /\ worker.pc = "idle" /\ ingestQ # <<>>
    /\ ingestQ' = Tail(ingestQ)
    /\ worker' = [pc |-> "begin", origin |-> "ingestion", arg |-> Head(ingestQ), rev |-> 0]
    /\ UNCHANGED <<ghVars, seen, hook, dbVars, apiVars, syncQ, failed>>

TakeSync ==
    /\ worker.pc = "idle" /\ ingestQ = <<>> /\ syncQ # <<>>
    /\ syncQ' = Tail(syncQ)
    /\ worker' = [pc |-> "check", origin |-> "sync", arg |-> Head(syncQ), rev |-> 0]
    /\ UNCHANGED <<ghVars, seen, hook, dbVars, apiVars, ingestQ, failed>>

(* Mutant: any indexed commit counts as the expected one.                  *)
AfterCheckAnyIndex(sha) ==
    IF ~Exists THEN "raised"
    ELSE IF repo.latest # sha THEN "idle"
    ELSE IF repo.indexed # 0 THEN "CURRENT" ELSE "begin"

(* What a sync job does with the repository it read.                       *)
AfterCheck(sha) ==
    IF ~Exists THEN "raised"
    ELSE IF repo.latest # sha THEN "idle"           \* SUPERSEDED
    ELSE IF repo.indexed = sha THEN "CURRENT" ELSE "begin"

SyncCheck ==
    /\ worker.pc = "check"
    /\ IF AfterCheck(worker.arg) = "idle" THEN worker' = IdleWorker
                                          ELSE Goto(AfterCheck(worker.arg))
    /\ UNCHANGED <<ghVars, seen, hook, dbVars, apiVars, queueVars>>

NextStage == [begin |-> "CLONING", CLONED |-> "SCANNING", SCANNING |-> "PARSING",
              PARSING |-> "BUILDING_GRAPH", BUILDING_GRAPH |-> "EMBEDDING",
              EMBEDDING |-> "ANALYZING", PUBLISHED |-> "READY"]

(* BUILDING_GRAPH reads the metadata and cannot go on without it.          *)
Stage ==
    /\ worker.pc \in DOMAIN NextStage
    /\ worker.pc = "BUILDING_GRAPH" => Exists
    /\ Write(NextStage[worker.pc])
    /\ Goto(NextStage[worker.pc])
    /\ UNCHANGED <<ghVars, seen, hook, graph, snapshots, clock, apiVars, queueVars>>

(* Mutant: the clone checks out the commit the webhook named.              *)
CloneExpected == IF worker.origin = "sync" THEN worker.arg ELSE head

(* clone_github takes the default branch as it is at that time.            *)
ClonedRevision == head

Clone ==
    /\ worker.pc = "CLONING"
    /\ worker' = [worker EXCEPT !.pc = "CLONED", !.rev = ClonedRevision]
    /\ UNCHANGED <<ghVars, seen, hook, dbVars, apiVars, queueVars>>

(* Mutant: indexed_sha is written by the sync job, after the publication.  *)
PublishedRepoLate ==
    IF worker.origin = "sync" THEN repo
    ELSE [repo EXCEPT !.indexed = worker.rev, !.latest = worker.rev, !.sync = "CURRENT"]

(* repository_fields: only an index in the foreground sets the sync fields.*)
PublishedRepo ==
    IF worker.origin = "sync" THEN [repo EXCEPT !.indexed = worker.rev]
    ELSE [repo EXCEPT !.indexed = worker.rev, !.latest = worker.rev, !.sync = "CURRENT"]

(* publish_graph: one transaction, which writes nodes and snapshot also    *)
(* when the repository is gone.                                            *)
Publish ==
    /\ worker.pc = "ANALYZING"
    /\ clock' = clock + 1
    /\ graph' = worker.rev
    /\ snapshots' = Prune(Merge(snapshots, worker.rev, clock'))
    /\ repo' = update_repository(PublishedRepo)
    /\ unrecorded' = IF worker.origin = "sync" THEN unrecorded ELSE unrecorded \ {"sync"}
    /\ Goto("PUBLISHED")
    /\ UNCHANGED <<ghVars, seen, hook, apiVars, queueVars>>

IngestDone ==
    /\ worker.pc = "READY" /\ worker.origin = "ingestion"
    /\ worker' = IdleWorker
    /\ UNCHANGED <<ghVars, seen, hook, dbVars, apiVars, queueVars>>

(* Any exception inside ingest, the RQ timeout included, and also after    *)
(* the status READY is written; the status FAILED may be lost as well.     *)
IngestFails ==
    /\ worker.pc \in IngestPCs
    /\ Write("FAILED") \/ WriteFails
    /\ Goto(IF worker.origin = "sync" THEN "FAILED" ELSE "raised")
    /\ UNCHANGED <<ghVars, seen, hook, graph, snapshots, clock, apiVars, queueVars>>

(* Mutant: a finished synchronization is always current.                   *)
AlwaysCurrent == "CURRENT"

Outcome == IF repo.indexed = repo.latest THEN "CURRENT" ELSE "STALE"

(* The repository is read again and the outcome is decided ...             *)
SyncDecide ==
    /\ worker.pc = "READY" /\ worker.origin = "sync" /\ Exists
    /\ Goto(Outcome)
    /\ UNCHANGED <<ghVars, seen, hook, dbVars, apiVars, queueVars>>

(* ... and written by another statement.                                   *)
SyncFinish ==
    /\ worker.pc \in {"CURRENT", "STALE"}
    /\ Write(worker.pc)
    /\ worker' = IdleWorker
    /\ UNCHANGED <<ghVars, seen, hook, graph, snapshots, clock, apiVars, queueVars>>

(* Any exception inside the job's try: no token, ingest raised, the        *)
(* repository cannot be read again, the outcome cannot be written.         *)
SyncFails ==
    /\ worker.origin = "sync"
    /\ \/ worker.pc \in {"begin", "READY", "FAILED"}
       \/ worker.pc \in {"CURRENT", "STALE"} /\ worker.rev # 0
    /\ Write("ERROR") \/ WriteFails
    /\ Goto("raised")
    /\ UNCHANGED <<ghVars, seen, hook, graph, snapshots, clock, apiVars, queueVars>>

(* The check, and its write of CURRENT, come before the try.               *)
SyncRaises ==
    /\ DatabaseMayFail
    /\ worker.pc = "check" \/ (worker.pc = "CURRENT" /\ worker.rev = 0)
    /\ Goto("raised")
    /\ UNCHANGED <<ghVars, seen, hook, dbVars, apiVars, queueVars>>

(* Mutant: the killed handler knows only the sync queue.                   *)
FailureRecordSyncOnly ==
    IF worker.origin = "sync" THEN fail_sync_if_active(repo) ELSE repo

(* What RQ's failure callback and the killed handler store: for an         *)
(* ingestion job whatever the status is by then.                           *)
FailureRecord ==
    IF worker.origin = "sync" THEN fail_sync_if_active(repo)
    ELSE [repo EXCEPT !.status = "FAILED"]

JobFailed ==
    /\ RecordFailure(Field, FailureRecord)
    /\ failed' = IF worker.origin = "sync" THEN failed ELSE failed \union {worker.arg}
    /\ worker' = IdleWorker
    /\ UNCHANGED <<ghVars, seen, hook, graph, snapshots, clock, apiVars, ingestQ, syncQ>>

(* job_failure, sync_job_failure.                                          *)
FailureCallback == worker.pc = "raised" /\ JobFailed

(* work_horse_killed, sync_work_horse_killed: out of memory, native crash. *)
WorkHorseKilled == MayBeKilled /\ worker.pc # "idle" /\ JobFailed

-----------------------------------------------------------------------------
Init ==
    /\ head = 1 /\ inFlight = {} /\ redelivered = 0
    /\ seen = {} /\ hook = [pc |-> "idle", sha |-> 0]
    /\ repo = Absent /\ graph = 0 /\ snapshots = {} /\ clock = 0 /\ unrecorded = {}
    /\ requests = [r \in Requests |-> [pc |-> "idle", job |-> 0]]
    /\ jobs = 0 /\ crashes = 0
    /\ ingestQ = <<>> /\ syncQ = <<>> /\ failed = {}
    /\ worker = IdleWorker

(* What a request does once it has begun.                                  *)
RequestStep(r) ==
    \/ ReindexUpdate(r) \/ EnqueueIngest(r) \/ EnqueueIngestFails(r)
    \/ DeleteRepository(r) \/ PollUpdate(r) \/ RequestFails(r)

NewRequest(r) == CreateRepository(r) \/ ReindexRead(r) \/ DeleteRead(r) \/ PollRead(r)

HookStep == HookUpdate \/ HookUpdateFails \/ HookEnqueue \/ HookEnqueueFails

WorkerStep ==
    \/ TakeIngest \/ TakeSync \/ SyncCheck \/ Stage \/ Clone \/ Publish \/ IngestDone
    \/ IngestFails \/ SyncDecide \/ SyncFinish \/ SyncFails \/ SyncRaises \/ FailureCallback

Next ==
    \/ Push \/ Redeliver
    \/ HookReceive \/ HookStep
    \/ \E r \in Requests : NewRequest(r) \/ RequestStep(r)
    \/ ApiRestart
    \/ WorkerStep \/ WorkHorseKilled

(* Handlers that began go on, and the worker works: RQ's job timeout ends  *)
(* every job.  Nothing obliges GitHub to push or to deliver, a client to   *)
(* ask, or a process to die.                                               *)
Fairness ==
    /\ WF_vars(HookStep)
    /\ \A r \in Requests : WF_vars(RequestStep(r))
    /\ WF_vars(WorkerStep)

Spec == Init /\ [][Next]_vars /\ Fairness

-----------------------------------------------------------------------------
(* Properties.                                                             *)

WorkerPC == {"idle", "check", "READY", "CURRENT", "STALE", "FAILED", "raised"} \union IngestPCs

(* The work horse has a clone it has not published yet.                    *)
ClonedPCs == {"CLONED", "SCANNING", "PARSING", "BUILDING_GRAPH", "EMBEDDING", "ANALYZING"}

Status == ACTIVE \union {"ABSENT", "READY", "FAILED"}
SyncStatus == ACTIVE \union {"UNSET", "READY", "FAILED", "CURRENT", "STALE", "ERROR"}

Job == 0..MaxJobs          \* ingestion job ids, 0 for none
Sha == 0..MaxCommit        \* commits, 0 for none

HookType == [pc : {"idle", "bound", "updated"}, sha : Sha]
RepoType == [status : Status, sync : SyncStatus, indexed : Sha, latest : Sha, job : Job]
RequestType == [pc : {"idle", "reindex", "queued", "delete", "poll"}, job : Job]
WorkerType == [pc : WorkerPC, origin : {"none", "ingestion", "sync"},
               arg : Job \union Sha, rev : Sha]

(* Types of the variables.  A missing repository is exactly Absent, and a  *)
(* sync job carries a commit, an ingestion job a job id.                   *)
TypeOK ==
    /\ head \in Commit /\ inFlight \subseteq Commit /\ redelivered \in Nat
    /\ seen \subseteq Commit
    /\ hook \in HookType /\ (hook.pc # "idle" => hook.sha \in Commit)
    /\ repo \in RepoType /\ (~Exists => repo = Absent)
    /\ graph \in Sha /\ clock \in Nat
    /\ snapshots \subseteq [sha : Commit, at : Nat]
    /\ unrecorded \subseteq {"status", "sync"}
    /\ requests \in [Requests -> RequestType]
    /\ jobs \in Job /\ crashes \in Nat
    /\ ingestQ \in Seq(Job) /\ syncQ \in Seq(Commit) /\ failed \subseteq Job
    /\ worker \in WorkerType
    /\ worker.pc = "idle" <=> worker.origin = "none"
    /\ worker.pc \in {"check", "CURRENT", "STALE", "FAILED"} => worker.origin = "sync"
    /\ worker.origin = "sync" => worker.arg \in Commit
    /\ worker.origin = "ingestion" => worker.arg \in Job
    /\ worker.pc \in ClonedPCs => worker.rev \in Commit

InSyncQ(sha) == \E i \in 1..Len(syncQ) : syncQ[i] = sha

(* A status the owner sees as work in progress, and which makes reindex    *)
(* and delete answer 409, has a job behind it: one about to be queued by a *)
(* request, one in the queue, or the one the worker holds.  Otherwise the  *)
(* repository could neither be used nor repaired.  Excused is only a       *)
(* status whose last writer failed and could not record that: Redis or the *)
(* database failed again, or a restart came between status and job.        *)
ActiveHasJob ==
    repo.status \in ACTIVE =>
        \/ \E r \in Requests : requests[r].pc = "queued"
        \/ ingestQ # <<>>
        \/ worker.origin = "ingestion"
        \/ "status" \in unrecorded

(* The same for the background status: the newest push the webhook stored  *)
(* is about to be queued, in the queue, or being worked on.                *)
ActiveSyncHasJob ==
    repo.sync \in ACTIVE =>
        \/ hook.pc = "updated"
        \/ InSyncQ(repo.latest)
        \/ worker.origin = "sync"
        \/ "sync" \in unrecorded

(* An accepted push newer than the index is not forgotten: a job for       *)
(* exactly that commit is on its way, or the sync status reports a failure.*)
(* Superseded jobs, jobs whose status write comes after a newer webhook's, *)
(* and late deliveries of older pushes all threaten this.                  *)
NoAcceptedPushForgotten ==
    repo.latest > repo.indexed =>
        \/ repo.sync \in {"ERROR", "FAILED"}
        \/ hook.pc = "updated" /\ hook.sha = repo.latest
        \/ InSyncQ(repo.latest)
        \/ worker.origin = "sync" /\ worker.arg = repo.latest

(* When nothing is running or waiting, the status CURRENT is true: the     *)
(* index is at the newest push the repository knows.                       *)
Quiescent ==
    /\ worker.pc = "idle" /\ ingestQ = <<>> /\ syncQ = <<>> /\ hook.pc = "idle"
    /\ \A r \in Requests : requests[r].pc \in {"idle", "poll"}

CurrentIsTrue == Quiescent /\ repo.sync = "CURRENT" => repo.indexed = repo.latest

(* Published together: what the metadata says is indexed is the graph in   *)
(* the database, its snapshot is retained for comparisons, and a READY     *)
(* repository has a graph.                                                 *)
PublishedTogether ==
    Exists =>
        /\ repo.indexed = graph
        /\ repo.indexed # 0 => \E s \in snapshots : s.sha = repo.indexed
        /\ repo.status = "READY" => graph # 0

(* A background sync leaves the served version alone (status, graph,       *)
(* indexed commit, snapshots) until one step replaces all of it.           *)
SyncKeepsPreviousVersion ==
    [][ worker.origin = "sync" /\ worker' # worker =>
          /\ repo'.status = repo.status
          /\ \/ UNCHANGED <<graph, snapshots>> /\ repo'.indexed = repo.indexed
             \/ /\ graph' = worker.rev
                /\ Exists => repo'.indexed = graph'
                /\ \E s \in snapshots' : s.sha = graph' ]_vars

(* Readers of the repository see the abstract versioned graph: one         *)
(* complete version, never replaced by an older one however webhooks are   *)
(* reordered and jobs repeated, its own snapshot never pruned.             *)
Versioned == INSTANCE VersionedGraph WITH
    Version <- Commit,
    current <- IF Exists THEN graph ELSE 0,
    retained <- IF Exists THEN {s.sha : s \in snapshots} ELSE {}

ImplementsVersionedGraph == Versioned!Spec

(* Work in progress ends: indexing in READY, in FAILED, or with the        *)
(* repository, background synchronization whatever fails in it; none       *)
(* blocks reindex and delete for ever.  Excused is the status whose last   *)
(* writer failed and could not record it.                                  *)
StatusesSettle ==
    /\ repo.status \in ACTIVE ~> repo.status \notin ACTIVE \/ "status" \in unrecorded
    /\ repo.sync \in ACTIVE ~> repo.sync \notin ACTIVE \/ "sync" \in unrecorded

(* The newest push the webhook stored is indexed (or a newer one is),      *)
(* unless the status reports a failure or another delivery takes its place.*)
AcceptedPushServed ==
    \A sha \in Commit :
        repo.latest = sha ~> \/ repo.indexed >= sha \/ repo.sync \in {"ERROR", "FAILED"}
                             \/ repo.latest # sha

-----------------------------------------------------------------------------
(* What the documentation and messages say, and the code does not keep.    *)

(* README: "push events refresh the indexed graph", "coalesce superseded   *)
(* commits": a push whose delivery was accepted is indexed, or a newer one *)
(* is, or the status reports a failure, once nothing runs or waits.        *)
AcceptedPushIndexed ==
    Quiescent /\ Exists /\ repo.sync \notin {"ERROR", "FAILED"} =>
        \A sha \in seen : sha <= repo.indexed

=============================================================================
