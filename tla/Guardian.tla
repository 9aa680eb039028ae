------------------------------ MODULE Guardian ------------------------------
(***************************************************************************)
(* PR Guardian: the reviews of one pull request of an indexed repository.  *)
(* The webhook and the retry endpoint create GuardianRun nodes and jobs;   *)
(* the `pull-request-worker` process serves the "pull-requests" queue one  *)
(* job at a time and publishes a comment and commit statuses on GitHub.    *)
(*                                                                         *)
(*  - The heads of the pull request are numbered in the order of their     *)
(*    pushes; 0 is "no sha known".                                         *)
(*  - A run is <<n, k>>: <<n, 0>> has a fresh uuid, and <<n, k + 1>> is    *)
(*    the node "retry:" + id of <<n, k>>.                                  *)
(*  - One database statement, one GitHub request or one queue operation is *)
(*    one step.  Whether the repository is READY is Indexing's matter: a   *)
(*    review may find either.                                              *)
(***************************************************************************)
EXTENDS Integers, Sequences, FiniteSets

CONSTANTS
    Requests,        \* API threads
    MaxHead,         \* bound on the heads pushed to the pull request
    MaxCommands,     \* bound on the /regora comments
    MaxRuns,         \* bound on the runs the webhook creates
    MaxAttempts,     \* bound on the retries of one run
    MaxRedeliveries, \* bound on webhooks redelivered by hand
    MaxCrashes,      \* bound on the restarts of the API process
    KeepRuns,        \* runs retained per repository
    FailingHeads,    \* the heads whose architecture policy fails
    MayBeKilled,     \* whether the work horse may be killed
    RedisMayFail,    \* whether Redis may refuse what it is asked
    DatabaseMayFail  \* whether a query of the store may fail

ASSUME GuardianBounds ==
    /\ MaxHead \in Nat \ {0} /\ MaxCommands \in Nat
    /\ MaxRuns \in Nat \ {0} /\ MaxAttempts \in Nat
    /\ MaxRedeliveries \in Nat /\ MaxCrashes \in Nat
    /\ KeepRuns \in Nat \ {0}
    /\ FailingHeads \subseteq 1..MaxHead
    /\ MayBeKilled \in BOOLEAN /\ RedisMayFail \in BOOLEAN /\ DatabaseMayFail \in BOOLEAN

VARIABLES
    head,        \* newest head of the pull request
    commands,    \* /regora comments so far
    inFlight,    \* deliveries on their way to the webhook
    redelivered, \* deliveries repeated so far
    seen,        \* delivery keys held in Redis
    hook,        \* the webhook handler: [pc, delivery, id, sha]
    runs,        \* the GuardianRun nodes: [status, sha, at, delivery]
    created,     \* runs the webhook created so far
    clock,       \* nodes created so far, the order of created_at
    unrecorded,  \* history: runs whose failure nobody could record
    requests,    \* each API thread: [pc, id, sha]
    crashes,     \* restarts of the API process so far
    queue,       \* the "pull-requests" queue: [id, sha], the job's arguments
    worker,      \* the work horse: [pc, id, sha, rev]
    comment,     \* head the Regora comment is about, 0 when there is none
    statuses,    \* the commit status of each head
    reviewed,    \* head whose analysis each final status reports
    publisher    \* history: the run whose review gave each head its status

ghVars == <<head, commands, inFlight, redelivered>>
nodeVars == <<runs, created, clock, unrecorded>>
pubVars == <<comment, statuses, reviewed, publisher>>
apiVars == <<requests, crashes>>
vars == <<ghVars, seen, hook, nodeVars, apiVars, queue, worker, pubVars>>

Heads == 1..MaxHead
Delivery == 1..(MaxHead + MaxCommands)
RunId == (1..MaxRuns) \X (0..MaxAttempts)
NoId == <<0, 0>>
IdleHook == [pc |-> "idle", delivery |-> 0, id |-> NoId, sha |-> 0]
RetryOf(id) == <<id[1], id[2] + 1>>

(* Mutant: the number of a comment is taken for that of a head.            *)
AnyNumber(d) == d

(* The payload of a /regora comment has no head sha.                       *)
DeliveredSha(d) == IF d <= MaxHead THEN d ELSE 0

NoRun == [status |-> "ABSENT", sha |-> 0, at |-> 0, delivery |-> 0]
Stored(id) == runs[id].status # "ABSENT"

-----------------------------------------------------------------------------
(* Statements of the store.                                                *)

NewRun(sha, d) == [status |-> "QUEUED", sha |-> sha, at |-> clock + 1, delivery |-> d]

(* Mutant: MERGE instead of MATCH.                                         *)
UpsertRun(id, status, sha) ==
    runs' = IF id \in RunId THEN [runs EXCEPT ![id].status = status, ![id].sha = sha] ELSE runs

(* MATCH (g:GuardianRun {id}) SET: no effect when the node was pruned.     *)
update_guardian_run(id, status, sha) ==
    runs' = IF id \in RunId /\ Stored(id)
              THEN [runs EXCEPT ![id].status = status, ![id].sha = sha] ELSE runs

(* Mutant: only a run that has begun is recorded as failed.                *)
FailRunningOnly(id) ==
    runs' = IF runs[id].status = "RUNNING" THEN [runs EXCEPT ![id].status = "ERROR"] ELSE runs

(* Mutant: ... only a run that has not begun.                              *)
FailQueuedOnly(id) ==
    runs' = IF runs[id].status = "QUEUED" THEN [runs EXCEPT ![id].status = "ERROR"] ELSE runs

fail_guardian_run_if_active(id) ==
    runs' = IF runs[id].status \in {"QUEUED", "RUNNING"}
              THEN [runs EXCEPT ![id].status = "ERROR"] ELSE runs

Newer(id) == {other \in RunId : Stored(other) /\ runs[other].at > runs[id].at}

(* ORDER BY created_at DESC SKIP keep DELETE.                              *)
prune_guardian_runs ==
    runs' = [id \in RunId |-> IF Stored(id) /\ Cardinality(Newer(id)) < KeepRuns
                                THEN runs[id] ELSE NoRun]

(* Nothing is written: the run stays as it is.                             *)
Lost(id) == unrecorded' = unrecorded \union {id} /\ UNCHANGED runs

(* What a handler that could not queue the job of a run says of it.        *)
RecordError(id, sha) ==
    \/ update_guardian_run(id, "ERROR", sha) /\ UNCHANGED unrecorded
    \/ DatabaseMayFail /\ Lost(id)

-----------------------------------------------------------------------------
(* GitHub.                                                                 *)

Push ==
    /\ head < MaxHead
    /\ head' = head + 1
    /\ inFlight' = inFlight \union {head'}
    /\ UNCHANGED <<commands, redelivered, seen, hook, nodeVars, apiVars, queue, worker, pubVars>>

(* A trusted author comments "/regora review".                             *)
Command ==
    /\ commands < MaxCommands
    /\ commands' = commands + 1
    /\ inFlight' = inFlight \union {MaxHead + commands'}
    /\ UNCHANGED <<head, redelivered, seen, hook, nodeVars, apiVars, queue, worker, pubVars>>

Redeliver ==
    /\ redelivered < MaxRedeliveries
    /\ redelivered' = redelivered + 1
    /\ \E d \in Delivery :
        /\ d <= head \/ (d > MaxHead /\ d <= MaxHead + commands)
        /\ inFlight' = inFlight \union {d}
    /\ UNCHANGED <<head, commands, seen, hook, nodeVars, apiVars, queue, worker, pubVars>>

-----------------------------------------------------------------------------
(* github_webhook, for a selected pull request event.                      *)

(* Mutant: the delivery key is written without NX.                         *)
AlwaysFresh(d) == TRUE

(* SET NX of the delivery key.                                             *)
Fresh(d) == d \notin seen

(* The repository may have no binding yet, or the query for it may fail:   *)
(* the key is deleted again, if Redis does it.                             *)
HookReceive ==
    /\ hook.pc = "idle"
    /\ \E d \in inFlight :
        /\ inFlight' = inFlight \ {d}
        /\ \/ /\ Fresh(d) /\ created < MaxRuns
              /\ seen' = seen \union {d}
              /\ hook' = [pc |-> "bound", delivery |-> d, id |-> <<created + 1, 0>>,
                          sha |-> DeliveredSha(d)]
           \/ UNCHANGED <<seen, hook>>
           \/ RedisMayFail /\ seen' = seen \union {d} /\ UNCHANGED hook
    /\ UNCHANGED <<head, commands, redelivered, nodeVars, apiVars, queue, worker, pubVars>>

(* create_guardian_run: the node ...                                       *)
HookCreate ==
    /\ hook.pc = "bound"
    /\ created' = created + 1 /\ clock' = clock + 1
    /\ runs' = [runs EXCEPT ![hook.id] = NewRun(hook.sha, hook.delivery)]
    /\ hook' = [hook EXCEPT !.pc = "created"]
    /\ UNCHANGED <<ghVars, seen, unrecorded, apiVars, queue, worker, pubVars>>

(* ... then the bound on the history.                                      *)
HookPrune ==
    /\ hook.pc = "created"
    /\ prune_guardian_runs
    /\ hook' = [hook EXCEPT !.pc = "stored"]
    /\ UNCHANGED <<ghVars, seen, created, clock, unrecorded, apiVars, queue, worker, pubVars>>

DeleteKey == seen' = seen \ {hook.delivery}

(* A query of create_guardian_run raises, so the handler has no run to     *)
(* fail; the node may be there all the same.                               *)
HookFails ==
    /\ DatabaseMayFail /\ hook.pc \in {"bound", "created"}
    /\ DeleteKey \/ (RedisMayFail /\ UNCHANGED seen)
    /\ \/ hook.pc = "bound" /\ UNCHANGED <<runs, unrecorded>>
       \/ hook.pc = "created" /\ Lost(hook.id)
    /\ hook' = IdleHook
    /\ UNCHANGED <<ghVars, created, clock, apiVars, queue, worker, pubVars>>

HookEnqueue ==
    /\ hook.pc = "stored"
    /\ queue' = Append(queue, [id |-> hook.id, sha |-> hook.sha])
    /\ hook' = IdleHook
    /\ UNCHANGED <<ghVars, seen, nodeVars, apiVars, worker, pubVars>>

(* Redis refuses the job, and may refuse to delete the key as well: that   *)
(* exception leaves the run as it is.                                      *)
HookEnqueueFails ==
    /\ RedisMayFail /\ hook.pc = "stored"
    /\ \/ DeleteKey /\ RecordError(hook.id, hook.sha)
       \/ UNCHANGED seen /\ Lost(hook.id)
    /\ hook' = IdleHook
    /\ UNCHANGED <<ghVars, created, clock, apiVars, queue, worker, pubVars>>

-----------------------------------------------------------------------------
(* retry_guardian_run.                                                     *)

IdleRequest == [pc |-> "idle", id |-> NoId, sha |-> 0]

SetRequest(r, pc, id, sha) ==
    requests' = [requests EXCEPT ![r] = [pc |-> pc, id |-> id, sha |-> sha]]

EndRequest(r) == requests' = [requests EXCEPT ![r] = IdleRequest]

RetryRead(r, id) ==
    /\ requests[r].pc = "idle" /\ id[2] < MaxAttempts
    /\ runs[id].status = "ERROR"
    /\ SetRequest(r, "read", id, runs[id].sha)
    /\ UNCHANGED <<ghVars, seen, hook, nodeVars, crashes, queue, worker, pubVars>>

(* Mutant: the enqueue token is not compared.                              *)
AlwaysMine(id) == TRUE

(* MERGE ... ON CREATE: the token is this request's only if it created.    *)
Mine(id) == ~Stored(RetryOf(id))

(* create_guardian_retry: one statement, for a source still in ERROR.      *)
RetryCreate(r) ==
    LET id == requests[r].id
        sha == requests[r].sha
        failed == runs[id].status = "ERROR"
    IN
    /\ requests[r].pc = "read"
    /\ IF failed /\ ~Stored(RetryOf(id))
         THEN clock' = clock + 1 /\ runs' = [runs EXCEPT ![RetryOf(id)] = NewRun(sha, 0)]
         ELSE UNCHANGED <<runs, clock>>
    /\ SetRequest(r, IF failed /\ Mine(id) THEN "mine" ELSE "other", RetryOf(id), sha)
    /\ UNCHANGED <<ghVars, seen, hook, created, unrecorded, crashes, queue, worker, pubVars>>

(* The prune that follows, whoever created the retry.                      *)
RetryPrune(r) ==
    /\ requests[r].pc \in {"mine", "other"}
    /\ prune_guardian_runs
    /\ \/ requests[r].pc = "mine" /\ requests' = [requests EXCEPT ![r].pc = "stored"]
       \/ requests[r].pc = "other" /\ EndRequest(r)
    /\ UNCHANGED <<ghVars, seen, hook, created, clock, unrecorded, crashes, queue, worker, pubVars>>

(* A query of create_guardian_retry raises; the node of the retry may be   *)
(* there, and the next click finds it: no one queues its job.              *)
RetryFails(r) ==
    /\ DatabaseMayFail
    /\ \/ requests[r].pc \in {"read", "other"} /\ UNCHANGED <<runs, unrecorded>>
       \/ requests[r].pc = "mine" /\ Lost(requests[r].id)
    /\ EndRequest(r)
    /\ UNCHANGED <<ghVars, seen, hook, created, clock, crashes, queue, worker, pubVars>>

RetryEnqueue(r) ==
    /\ requests[r].pc = "stored"
    /\ queue' = Append(queue, [id |-> requests[r].id, sha |-> requests[r].sha])
    /\ EndRequest(r)
    /\ UNCHANGED <<ghVars, seen, hook, nodeVars, crashes, worker, pubVars>>

RetryEnqueueFails(r) ==
    /\ RedisMayFail /\ requests[r].pc = "stored"
    /\ RecordError(requests[r].id, requests[r].sha)
    /\ EndRequest(r)
    /\ UNCHANGED <<ghVars, seen, hook, created, clock, crashes, queue, worker, pubVars>>

AboutToQueue(id) ==
    \/ hook.pc \in {"created", "stored"} /\ hook.id = id
    \/ \E r \in Requests : requests[r].pc \in {"mine", "stored"} /\ requests[r].id = id

(* The API process stops and starts again.                                 *)
ApiRestart ==
    /\ crashes < MaxCrashes
    /\ crashes' = crashes + 1
    /\ unrecorded' = unrecorded \union {id \in RunId : AboutToQueue(id)}
    /\ hook' = IdleHook
    /\ requests' = [r \in Requests |-> IdleRequest]
    /\ UNCHANGED <<ghVars, seen, runs, created, clock, queue, worker, pubVars>>

-----------------------------------------------------------------------------
(* review_pull_request, in a work horse.  worker.pc is the last thing it   *)
(* did; "failing" is an exception while a token is known, "failed" one     *)
(* with nothing more to tell GitHub, "raised" out of the job function.     *)

IdleWorker == [pc |-> "idle", id |-> NoId, sha |-> 0, rev |-> 0]
Reviewing == {"running", "fetched", "pending", "analyzed", "commented", "final", "complete"}

Goto(pc) == worker' = [worker EXCEPT !.pc = pc]

TakeReview ==
    /\ worker.pc = "idle" /\ queue # <<>>
    /\ queue' = Tail(queue)
    /\ worker' = [pc |-> "begin", id |-> Head(queue).id, sha |-> Head(queue).sha, rev |-> 0]
    /\ UNCHANGED <<ghVars, seen, hook, nodeVars, apiVars, pubVars>>

(* The repository is not READY: the ValueError is outside the try.         *)
NotReady ==
    /\ worker.pc = "begin"
    /\ Goto("raised")
    /\ UNCHANGED <<ghVars, seen, hook, nodeVars, apiVars, queue, pubVars>>

BeginReview ==
    /\ worker.pc = "begin"
    /\ update_guardian_run(worker.id, "RUNNING", worker.sha)
    /\ Goto("running")
    /\ UNCHANGED <<ghVars, seen, hook, created, clock, unrecorded, apiVars, queue, pubVars>>

(* A token, then the pull request as GitHub knows it now.                  *)
Fetch ==
    /\ worker.pc = "running"
    /\ worker' = [worker EXCEPT !.pc = "fetched", !.sha = head]
    /\ UNCHANGED <<ghVars, seen, hook, nodeVars, apiVars, queue, pubVars>>

PublishStatus(state, rev) ==
    /\ statuses' = [statuses EXCEPT ![worker.sha] = state]
    /\ reviewed' = [reviewed EXCEPT ![worker.sha] = rev]
    /\ publisher' = [publisher EXCEPT ![worker.sha] = worker.id]

Pending ==
    /\ worker.pc = "fetched"
    /\ PublishStatus("pending", 0)
    /\ Goto("pending")
    /\ UNCHANGED <<ghVars, seen, hook, nodeVars, apiVars, queue, comment>>

(* Mutant: the head the job was queued for is fetched.                     *)
KnownCommit == IF runs[worker.id].sha # 0 THEN runs[worker.id].sha ELSE head

(* clone_github_pull takes refs/pull/N/head as it is at that time.         *)
ClonedHead == head

Analyze ==
    /\ worker.pc = "pending"
    /\ worker' = [worker EXCEPT !.pc = "analyzed", !.rev = ClonedHead]
    /\ UNCHANGED <<ghVars, seen, hook, nodeVars, apiVars, queue, pubVars>>

(* publish_pull_request_comment: see ReviewComment.                        *)
Comment ==
    /\ worker.pc = "analyzed"
    /\ comment' = worker.rev
    /\ Goto("commented")
    /\ UNCHANGED <<ghVars, seen, hook, nodeVars, apiVars, queue, statuses, reviewed, publisher>>

Verdict == IF worker.rev \in FailingHeads THEN "failure" ELSE "success"

FinalStatus ==
    /\ worker.pc = "commented"
    /\ PublishStatus(Verdict, worker.rev)
    /\ Goto("final")
    /\ UNCHANGED <<ghVars, seen, hook, nodeVars, apiVars, queue, comment>>

(* Mutant: the run keeps the sha it was created with ... that of a newer   *)
(* push than the one reviewed.                                             *)
NewestSha == head

CompletedSha == worker.sha

CompleteRun ==
    /\ worker.pc = "final"
    /\ update_guardian_run(worker.id, "COMPLETE", CompletedSha)
    /\ Goto("complete")
    /\ UNCHANGED <<ghVars, seen, hook, created, clock, unrecorded, apiVars, queue, pubVars>>

(* last_pr_guardian is stored and the function returns.                    *)
ReviewDone ==
    /\ worker.pc = "complete"
    /\ worker' = IdleWorker
    /\ UNCHANGED <<ghVars, seen, hook, nodeVars, apiVars, queue, pubVars>>

(* Any exception inside the try, the RQ timeout included; without a token  *)
(* or a sha GitHub is told nothing.                                        *)
ReviewFails ==
    /\ worker.pc \in Reviewing
    /\ \/ worker.sha # 0 /\ Goto("failing")
       \/ worker.pc = "running" /\ Goto("failed")
    /\ UNCHANGED <<ghVars, seen, hook, nodeVars, apiVars, queue, pubVars>>

(* GitHub may fail again, which is only logged.                            *)
ErrorStatus ==
    /\ worker.pc = "failing"
    /\ PublishStatus("error", 0) \/ UNCHANGED <<statuses, reviewed, publisher>>
    /\ Goto("failed")
    /\ UNCHANGED <<ghVars, seen, hook, nodeVars, apiVars, queue, comment>>

(* The database may fail, which is only logged: the callback tries again.  *)
ErrorRun ==
    /\ worker.pc = "failed"
    /\ \/ update_guardian_run(worker.id, "ERROR", worker.sha)
       \/ DatabaseMayFail /\ UNCHANGED runs
    /\ Goto("raised")
    /\ UNCHANGED <<ghVars, seen, hook, created, clock, unrecorded, apiVars, queue, pubVars>>

(* The callbacks of RQ: a failure to record the failure is only logged.    *)
JobFailed ==
    /\ \/ fail_guardian_run_if_active(worker.id) /\ UNCHANGED unrecorded
       \/ DatabaseMayFail /\ Lost(worker.id)
    /\ worker' = IdleWorker
    /\ UNCHANGED <<ghVars, seen, hook, created, clock, apiVars, queue, pubVars>>

(* guardian_job_failure; guardian_work_horse_killed.                       *)
FailureCallback == worker.pc = "raised" /\ JobFailed

WorkHorseKilled == MayBeKilled /\ worker.pc # "idle" /\ JobFailed

-----------------------------------------------------------------------------
Init ==
    /\ head = 1 /\ commands = 0 /\ inFlight = {1} /\ redelivered = 0
    /\ seen = {} /\ hook = IdleHook
    /\ runs = [id \in RunId |-> NoRun] /\ created = 0 /\ clock = 0 /\ unrecorded = {}
    /\ requests = [r \in Requests |-> IdleRequest] /\ crashes = 0
    /\ queue = <<>> /\ worker = IdleWorker
    /\ comment = 0 /\ statuses = [h \in Heads |-> "none"] /\ reviewed = [h \in Heads |-> 0]
    /\ publisher = [h \in Heads |-> NoId]

HookStep == HookCreate \/ HookPrune \/ HookFails \/ HookEnqueue \/ HookEnqueueFails

RetryStep(r) ==
    RetryCreate(r) \/ RetryPrune(r) \/ RetryFails(r) \/ RetryEnqueue(r) \/ RetryEnqueueFails(r)

WorkerStep ==
    \/ TakeReview \/ NotReady \/ BeginReview \/ Fetch \/ Pending \/ Analyze \/ Comment
    \/ FinalStatus \/ CompleteRun \/ ReviewDone \/ ReviewFails \/ ErrorStatus \/ ErrorRun
    \/ FailureCallback

Next ==
    \/ Push \/ Command \/ Redeliver
    \/ HookReceive \/ HookStep
    \/ \E r \in Requests : RetryStep(r) \/ \E id \in RunId : RetryRead(r, id)
    \/ ApiRestart
    \/ WorkerStep \/ WorkHorseKilled

(* Handlers that began go on, and the worker works: every GitHub call has  *)
(* a timeout and RQ's ends the job.  Nothing obliges anybody to push, to   *)
(* deliver or to click.                                                    *)
Fairness ==
    /\ WF_vars(HookStep)
    /\ \A r \in Requests : WF_vars(RetryStep(r))
    /\ WF_vars(WorkerStep)

Spec == Init /\ [][Next]_vars /\ Fairness

-----------------------------------------------------------------------------
(* Properties.                                                             *)

RunStatus == {"ABSENT", "QUEUED", "RUNNING", "COMPLETE", "ERROR"}
Shas == 0..MaxHead
Job == [id : RunId, sha : Shas]

(* The types of the nodes, the queue and what GitHub shows: a sha stored,  *)
(* queued or published is one of the pull request's, never a number that   *)
(* came with a comment.                                                    *)
TypeOK ==
    /\ head \in Heads /\ commands \in 0..MaxCommands
    /\ inFlight \subseteq Delivery /\ redelivered \in 0..MaxRedeliveries
    /\ seen \subseteq Delivery
    /\ hook \in [pc : {"idle", "bound", "created", "stored"}, delivery : Delivery \union {0},
                 id : RunId \union {NoId}, sha : Shas]
    /\ runs \in [RunId -> [status : RunStatus, sha : Shas, at : Nat, delivery : Delivery \union {0}]]
    /\ created \in 0..MaxRuns /\ clock \in Nat /\ unrecorded \subseteq RunId
    /\ requests \in [Requests -> [pc : {"idle", "read", "mine", "other", "stored"},
                                  id : RunId \union {NoId}, sha : Shas]]
    /\ crashes \in 0..MaxCrashes
    /\ queue \in Seq(Job)
    /\ worker \in [pc : Reviewing \union {"idle", "begin", "failing", "failed", "raised"},
                   id : RunId \union {NoId}, sha : Shas, rev : Shas]
    /\ comment \in Shas
    /\ statuses \in [Heads -> {"none", "pending", "success", "failure", "error"}]
    /\ reviewed \in [Heads -> Shas]
    /\ publisher \in [Heads -> RunId \union {NoId}]

InQueue(id) == {i \in DOMAIN queue : queue[i].id = id}
OnIt(id) == worker.pc # "idle" /\ worker.id = id

(* A run the Integration Center shows as queued has a job, or a handler    *)
(* that is about to queue one; one shown as running is the one the worker  *)
(* reviews.  Excepted are the runs whose own failure could not be written. *)
RunHasJob ==
    \A id \in RunId \ unrecorded :
        /\ runs[id].status = "QUEUED" => AboutToQueue(id) \/ InQueue(id) # {} \/ OnIt(id)
        /\ runs[id].status = "RUNNING" => OnIt(id)

(* "Repeated clicks reuse the same queued retry instead of creating        *)
(* concurrent jobs" (docs/GITHUB_PR_GUARDIAN.md:62): however the clicks of *)
(* several owners interleave, a run is queued or reviewed once at a time.  *)
AtMostOneJob ==
    \A id \in RunId :
        Cardinality(InQueue(id)) + (IF OnIt(id) THEN 1 ELSE 0)
          + Cardinality({r \in Requests : requests[r].pc \in {"mine", "stored"} /\ requests[r].id = id}) <= 1

(* A webhook delivered again, while Redis holds its key, makes no second   *)
(* run, unless the first one failed or was left without a job because the  *)
(* query after its creation, or the record of its failure, failed.         *)
OneLiveRunPerDelivery ==
    \A id, other \in RunId \ unrecorded :
        (id # other /\ Stored(id) /\ Stored(other) /\ runs[id].delivery = runs[other].delivery)
            => runs[id].delivery = 0 \/ "ERROR" \in {runs[id].status, runs[other].status}

(* The one comment of the pull request never goes back to an older head:   *)
(* not when an old run is retried, nor when reviews are queued out of      *)
(* order.                                                                  *)
CommentNeverOlder == [][comment' >= comment]_vars

(* No head is judged by the code of an older one.                          *)
VerdictNotOlder ==
    \A h \in Heads : statuses[h] \in {"success", "failure"} => reviewed[h] >= h

(* The run of a review tells of its failure: it is in ERROR and can be     *)
(* retried; or the history has dropped it, or no write got through.        *)
Explained(id) == runs[id].status \in {"ERROR", "ABSENT"} \/ id \in unrecorded

(* A head that shows "pending" is being reviewed by the run that made it   *)
(* so, or that very run, whatever the sha it was queued with, says why     *)
(* not: a killed work horse leaves no head pending without a trace.        *)
PendingExplained ==
    \A h \in Heads : statuses[h] = "pending" =>
        (OnIt(publisher[h]) /\ worker.sha = h) \/ Explained(publisher[h])

(* A complete run has published all it says it did: the comment covers its *)
(* head, and that head was given a status, which is "pending" only for     *)
(* another, later review of it.  ("error" is possible: a review whose last *)
(* write, after COMPLETE, fails tells GitHub so before it records it.)     *)
CompleteMeansPublished ==
    \A id \in RunId : runs[id].status = "COMPLETE" =>
        LET h == runs[id].sha IN
        /\ comment >= h
        /\ statuses[h] # "none"
        /\ statuses[h] = "pending" => publisher[h] # id

Lifecycle == INSTANCE RunLifecycle
    WITH Runs <- RunId, state <- [id \in RunId |-> runs[id].status]

(* Every run is queued, begun and ended once, whatever prunes, retries and *)
(* kills happen.                                                           *)
ImplementsRunLifecycle == Lifecycle!Spec

(* A run does not stay queued or running: it completes, fails or is        *)
(* pruned, unless its failure could not be recorded.                       *)
RunsEnd == \A id \in RunId :
    runs[id].status \in {"QUEUED", "RUNNING"}
        ~> runs[id].status \notin {"QUEUED", "RUNNING"} \/ id \in unrecorded
=============================================================================
