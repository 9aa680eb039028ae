# TLA+ models of Regora

Regora indexes GitHub repositories into a Neo4j graph, keeps them synchronized
with their default branch, answers questions about them and reviews their pull
requests. This directory models the parts of it that are hard to test: the
protocols between the API process, the RQ workers, GitHub, Redis and Neo4j, and
the analysis from source files to graphs, impacts, policies, reviews and plans.
TLC checks small instances; TLAPS proves every safety property, of the protocols
(indexing, reviews, comments, readers, explanations, bindings, questions) and of the
analysis, and two refinements for every value of the constants. Liveness is
model-checked only.

Run one check with `tlc -config MCIndexing_pushes.cfg MCIndexing`, one proof
with `tlapm Indexing_proofs.tla`.

## 1. The system

### Processes

| process | code | concurrency |
| --- | --- | --- |
| API (one uvicorn process) | `api/routes.py`, `api/github_webhooks.py` | `def` endpoints run on threads; the webhook is `async def` and does not await after it has read the body, so one webhook handler runs at a time |
| `worker` | `workers/ingestion.py`, `services/repository_sync.py` | RQ, queues "ingestion" then "sync" in strict priority, one work horse at a time |
| `architecture-worker` | `workers/ingestion.py: generate_architecture` | RQ, queue "architecture", one job at a time |
| `pull-request-worker` | `services/pr_guardian.py` | RQ, queue "pull-requests", one job at a time |
| Neo4j, Redis | `graph/store.py`, RQ | one `session.run` is one transaction; Redis is append only and survives restarts |
| GitHub | external | delivers webhooks in any order, again on request, or not at all; answers may be lost |

A job that raises runs its failure callback in the work horse; a work horse that
is killed (out of memory, native crash) is recorded by its parent process with
`handle_work_horse_killed`.

### Components

Paths are below `src/backend/app`.

| component | state | operations | hard behaviour | correct when |
| --- | --- | --- | --- | --- |
| Indexing and synchronization (`workers/ingestion.py`, `services/repository_sync.py`, `workers/run.py`) | `RepositoryMeta` (status, sync_status, indexed and latest sha, job), `CodeNode`s, `GraphSnapshot`s, two queues | `ingest` by stages, `sync_github_repository`, failure callbacks | jobs killed between writes; a failure whose record fails too; two status fields written by different processes; a superseded job; a repository deleted under a job | the served graph, its metadata and its snapshot change together; an active status always ends |
| Repository API (`api/routes.py`) | the same | `enqueue`, `reindex`, `delete`, status poll | read, decide, write in separate queries, on several threads; a restart in between | no status without a job |
| GitHub webhooks (`api/github_webhooks.py`) | delivery keys in Redis | push branch, pull request branch, redelivery | reordered and repeated deliveries, refused jobs, a key that cannot be deleted | an accepted push is indexed or its failure shown; one run per delivery |
| PR Guardian (`services/pr_guardian.py`, `services/github_app.py`) | `GuardianRun` nodes, the queue, commit statuses, the comment | webhook, retry, prune, review | pushes during a review, concurrent retries, pruning of runs still queued, failure of any of four writes | one job per run, nothing published goes back to older code, what a run records is on GitHub |
| Review comments (`services/pull_requests.py`) | the comments of a pull request | search page by page, edit or add | comments added, deleted or published while it searches; lost answers | one comment per actor, nobody else's touched |
| Graph readers and cache (`services/cache.py`, `api/routes.py`, `graph/store.py`) | LRU cache in the process | `ready`, `intelligence`, `graph` | publication between two queries; source that returns to earlier content | a cached graph is the graph its key names |
| Architecture explanation (`workers/ingestion.py`) | architecture and its status | queue, check, ask the model, check, store | graphs published meanwhile, a killed job | the overview that stays is about the graph that stays |
| Repository binding (`graph/store.py: github_repository`, `api/github_webhooks.py`) | repository and installation ids on the metadata, delivery keys | four queries: find, claim, find again | two copies of one repository, two installations, copies deleted and published meanwhile | nobody's events reach another's copy; what is turned away can be redelivered |
| Question answering (`agents/reasoning.py`, `agents/tools.py`) | `ChatSession` | tool loop, citations, session update | the model may answer anything; two questions of one session | citations only of evidence shown, an answer whatever the model does, a conversation keeps its turns |
| Parsing and graph construction (`parsers/`, `security/repositories.py: scan_files`) | none: files to a graph | extract, resolve names, add nodes and edges | files that refer to each other, in any order, in circles; packages and modules that are missing | no reference is lost or invented, whatever the order of the scan |
| Graph queries (`graph/intelligence.py`) | none | neighbours, paths, traces, impact, cycles, architecture | cycles, limits on hops, paths and nodes | the queries agree with each other and with reachability |
| Graph comparison (`graph/diff.py`) | none | `compare_graphs` | a capped score | only changed files and those that import them are blamed; 0 means equal |
| Architecture policy (`services/architecture_policy.py`) | none | validate, evaluate | limits on what is found | decides by the code, never passes unread |
| Pull request analysis and review (`services/pull_requests.py`, `agents/pull_request_review.py`) | none | map patches to symbols, impacts, review | lines of the base and of the head, renames, limits | no change escapes, no untested symbol passes unmentioned |
| Refactoring plans (`agents/refactoring.py`) | none | evidence, the model's stages or fixed ones | the model may cite anything | stages cite only what the impact found |
| Embeddings, retrieval, model providers (`embeddings/`, `retrieval/`, `llm/`) | none | ranking, HTTP | | out of scope: numeric ranking and thin clients |
| Authentication, cleanup, start-up, MCP server, schemas | none to speak of | | | out of scope, see PROJECT.json |
| Frontend (`src/frontend`) | browser state | polls and calls the API | | out of scope: presentation |

## 2. The modules

### Indexing (refines VersionedGraph)

One repository: the owner's requests, pushes, the webhook's push branch and the
`worker`. A commit is its position on the default branch, 0 is none; the
fingerprint of a graph is determined by the commit. One query is one step, and
what a handler read before it is in its record (`requests[r]`, `hook`,
`worker`), so that every window between a read and a write is explored.

| variables | code |
| --- | --- |
| `repo` | the `RepositoryMeta` node: status, sync_status, indexed_sha, latest_github_sha, job_id; `Absent` when there is none |
| `unrecorded` | history: the status fields whose last writer failed and could not record that |
| `graph`, `snapshots`, `clock` | the commit of the `CodeNode`s, the `GraphSnapshot`s, the order of `created_at` |
| `ingestQ`, `syncQ`, `failed` | the RQ queues and the failed-job registry |
| `worker` | the work horse: the last thing its job did, which queue it came from, its argument, the commit it cloned |
| `hook`, `seen`, `inFlight` | the webhook handler, the delivery keys in Redis, deliveries under way |
| `requests`, `jobs`, `crashes` | API threads, ids given out, restarts |

| actions | code |
| --- | --- |
| `CreateRepository`, `ReindexRead`, `ReindexUpdate`, `EnqueueIngest(Fails)` | `enqueue`, `reindex` (routes.py:114-132, 284-328) |
| `DeleteRead`, `DeleteRepository`, `PollRead`, `PollUpdate`, `RequestFails` | `delete`, `repository` (routes.py:247-282), and a service that fails before anything is written |
| `HookReceive`, `HookUpdate(Fails)`, `HookEnqueue(Fails)` | `github_webhook` (github_webhooks.py:45-165) |
| `TakeIngest`, `TakeSync`, `SyncCheck`, `Stage`, `Clone`, `Publish`, `IngestDone`, `IngestFails`, `SyncDecide`, `SyncFinish`, `SyncFails`, `SyncRaises` | `ingest`, `sync_github_repository`, `publish_graph` |
| `FailureCallback`, `WorkHorseKilled` | `job_failure`, `sync_job_failure`, `handle_work_horse_killed` |
| `Push`, `Redeliver`, `ApiRestart` | the environment |

A service may fail at each call, and again while the failure is handled (`RedisMayFail`,
`DatabaseMayFail`): a refused job's except clause deletes a key in Redis before it
stores ERROR or FAILED (github_webhooks.py:149, routes.py:326), and callbacks only log
that they could not write (ingestion.py:205, repository_sync.py:86). `unrecorded` names
the field that is then left as it was, until the next write to it. An enqueue that
raises has queued nothing.

`VersionedGraph` is what a reader of the repository is promised: one complete
version, replaced in one step, never by an older one, its own snapshot always
retained; or nothing, after a deletion.

### Guardian (refines RunLifecycle)

The reviews of one pull request. Heads are numbered in the order of their
pushes; a run is `<<n, k>>`, the k-th retry of the n-th run, as the code names a
retry after its source. The webhook's pull request branch is `HookReceive`,
`HookCreate`, `HookPrune`, `HookFails`, `HookEnqueue(Fails)`; `retry_guardian_run` is
`RetryRead`, `RetryCreate` (one statement, with the token that tells who created
the node), `RetryPrune`, `RetryFails`, `RetryEnqueue(Fails)`; `review_pull_request` is
`BeginReview`, `Fetch`, `Pending`, `Analyze`, `Comment`, `FinalStatus`,
`CompleteRun`, `ReviewDone`, with `ReviewFails`, `ErrorStatus` and `ErrorRun` for
the `except` blocks and `FailureCallback`, `WorkHorseKilled` for RQ's. The
pull-request comment is one step here and a module of its own below. Whether
the repository is READY is left open (`NotReady`): it is Indexing's matter.

As in Indexing, Redis and the database may fail again while a failure is handled. Three
ways lead to a run that is QUEUED or RUNNING for good: the prune after the node was
created raises, so that the handler knows of no run (store.py:147, github_webhooks.py:206);
Redis does not delete the key of the job it refused (github_webhooks.py:204); a callback
cannot write (pr_guardian.py:46, 61). `unrecorded` is the set of these runs, and `publisher` the
run whose review gave a head its commit status; both are history variables.

`RunLifecycle` is what the Integration Center shows: a run is queued once, begun
at most once, ends once, and may be forgotten at any time.

### ReviewComment

`publish_pull_request_comment`: pages of comments are searched for the actor's
marker (`Found`, `NotFound`), the comment is edited (`Patch`) or added (`Post`);
`Answer` may be lost after GitHub acted. People comment and delete meanwhile. A comment has
an author and a marker: the code looks at the marker alone, the text that a body ends with
(pull_requests.py:145), so that a person's comment may carry a copied one. GitHub decides
whether the actor may edit that.

### GraphReaders

`ready()` and `intelligence()` of several API threads against the writes of an
ingestion job: the status, the metadata read again, the LRU cache keyed by
fingerprint and timestamp, and the two queries of `graph()`. Other repositories
may evict the oldest entry at any time. A job that publishes after its repository was deleted
writes nodes and edges all the same (store.py:270); a reader that was past the checks by then loads them. `current[r]` is a history variable: the
graphs there were since reader `r` read its key.

### Explanation

From `publish_graph` to the end of `generate_architecture`: the fingerprint is
checked before and after the model is asked, and written by a third query.

### Agent

`RepoAgent.ask` for several conversations at a time. A question reads its
conversation (`Ask`, with the symbols it starts from: `Seeds`), gathers evidence
(`Gather`), goes through rounds in which the model calls tools (`CallTools`), and
ends with the model's reply or without (`Save`, with the citations and the query
that saves the conversation). The graph of a question is whole, torn or empty (`kind`): with no
node at all the question raises at once (`AskOfNothing`, reasoning.py:91), and with the edges of
another publication an impact or a trace may meet a node that is not there
(`Missed`, intelligence.py:31, 107). What is local to the thread between two queries or
two requests to the model is one step. A tool returns any symbols and relationships;
`Bounded` is what the evidence budget leaves of them, `shown` what the model was
given of them, `seen` and `edges` what `AgentTools` recorded and citations are
checked against. `answered` and `overlapped` are history variables: the answered
questions of each conversation, and whether two of its questions were in progress at
once.

### Binding

What the webhook does before an event reaches Indexing or Guardian: the delivery key
(`Receive`), the four queries of `github_repository`, one step each (`FindBound`,
`FindUnbound`, `Claim`, `Rebind`, or `LookupFails`), and the end of the handler
(`Ignore`, `Accept`, `Refuse`), of which all but `Accept` delete the key again, if Redis does it
(`RemoveKey`). Copies are `RepositoryMeta` nodes of one source;
owners index them (`Enqueue`, `IngestEnds`), reindex and delete them
(`RequestChecked`, `Reindex`, `Delete`, which act on what was checked before), pushes
are synchronized (`SyncEnds`), and the API may be restarted. The shipped deployment
handles one webhook at a time; the queries are written for more (`Claim` guards
against a copy being taken since `FindUnbound`), so two handlers run here. `stuck` and `seen` are
history variables: the deliveries whose key Redis failed to delete or a restart left, and what the queries would have answered at the moments since a
handler began. Of the status only absent, queued, READY and FAILED are kept, the rest
is Indexing's matter.

### CodeAnalysis and the modules it composes

| module | models | as |
| --- | --- | --- |
| `CodeGraph` | `models/schema.py` | nodes, edges, graphs; an id is the tuple that `stable_id` hashes; lists: `Sorted`, `First`, `Unique`, `Among` |
| `Analyzer` | `parsers/analyzers.py` | what is extracted of a file: a sequence of statements, one on a line, each with the scope it is in (`WellFormed`) |
| `Resolver` | `resolve`, `module_path` in `parsers/pipeline.py` | what a name in a scope of a file means: `Meaning`, by the number of hops that are left; a module as it is written, leading dots included, and where it is looked for (`Place`) |
| `Pipeline` | `resolve_graph` | one operator for each kind of node and edge |
| `Intelligence` | `graph/intelligence.py` | queries as set expressions over the edges |
| `GraphDiff`, `Policy` | `graph/diff.py`, `services/architecture_policy.py` | functions of graphs; a policy's document may have a list or object in the place of a word (`Unhashable`) |
| `PullRequests`, `Planner` | `services/pull_requests.py`, `agents/pull_request_review.py`, `agents/refactoring.py` | functions of a graph and of what GitHub or the model answers; the sort of the impacts places each among those before it |

These are pure functions of the code; `CodeAnalysis` gives them a repository: its files,
commits that edit (`Edit`) or rename (`Move`) one, the graph that is indexed (`head`) and
the one it is compared with (`base`). A commit that cannot be indexed (no source file,
too many nodes) replaces nothing. `PullRequest` is what GitHub answers for the pull
request from one to the other, with the hunks of its patches. The statements of a file
are imports, classes with bases, functions with annotated parameters, assignments, calls,
routes and other text. When a commit is indexed, and what readers see meanwhile, is the
matter of Indexing and GraphReaders.

Modules of protocols share no variables. What one takes from another is named where it is
used: Guardian's `Comment` is a run of ReviewComment that succeeded, GraphReaders'
and Explanation's `PublishGraph` is Indexing's `Publish`; an event that Binding accepted
is Indexing's `HookUpdate` or Guardian's `HookCreate`; Guardian's verdict on a head is
`Policy`'s on the graph of `Pipeline`.

## 3. What TLC checks

All sizes are distinct states with the bounds of the cfg. No run checks deadlock:
GitHub may stop pushing and owners may stop asking, and then nothing is left to
do; that nothing stops too early is what the liveness properties say.

### Runs that pass

**indexing** (296 166 states; two API threads, two commits, two jobs, one restart of
the API, one snapshot kept, kills, a Redis and a database that may fail at each call).
`PublishedTogether`: what the metadata says is indexed is the graph in the database, and its
snapshot is there. `ActiveHasJob` and `ActiveSyncHasJob`: a status that makes reindex and delete
answer 409 has a job, or a handler about to queue one, behind it, unless it is `unrecorded`.
`SyncKeepsPreviousVersion`: a background
synchronization leaves the served version alone until one step replaces it.
`StatusesSettle`: both statuses leave the active states, unless they are `unrecorded`. Two threads are
what it takes for a deletion or a poll to race a reindex; a second job for a callback to meet the
next status; a second commit for a synchronization.

**pushes** (248 280 states; three commits, one thread, two jobs, one redelivered webhook, handlers
that run to their end and services that answer). `NoAcceptedPushForgotten`: an accepted push newer
than the index has
a job for exactly that commit or a failure on record. `CurrentIsTrue`: when nothing
runs, CURRENT is true. `AcceptedPushServed`: the newest stored push is served, or
its failure reported, or another delivery takes its place.
`ImplementsVersionedGraph`, with enough commits for an old job to matter:
two deliveries can be under way at once and arrive in either order.

**reviews** (1.39 million states up to symmetry; two heads, two threads, two runs, one retry each,
kills, one restart of the API, a history longer than there are runs). `AtMostOneJob` (two clicks on
Retry need two threads), `CompleteMeansPublished`, `VerdictNotOlder`, `CommentNeverOlder` need a
second head, pushed while the first is reviewed. `PendingExplained`: a head that shows "pending" is
being reviewed by the run that published that, or that very run is in ERROR, pruned or `unrecorded`.

**history** (333 574 states; one head, a history of one run, so that every second run is
pruned while it is queued or reviewed; a comment command, one redelivered webhook, kills, a Redis
and a database that may fail at each call). `TypeOK`, `ImplementsRunLifecycle`, `RunHasJob`,
`OneLiveRunPerDelivery` and `RunsEnd`, the last three except for `unrecorded` runs. The two runs
share the bounds that matter to each: services fail in the one that has one head, heads move in the
one in which services answer. That `PendingExplained` also holds when both happen is the theorem
`PendingExplainedHolds`; with a failing database `reviews` passes too, but has 11.9 million states
and takes too long to be kept.

**readers** (1.95 million states up to symmetry; two readers, two contents, a cache of two
entries). `CurrentKeyIsCurrent`: the entry of the key the metadata has now is the
graph the database has now. `NoStaleRead`: what a reader returns was current at
some time since it asked. Two contents are enough for the source to go back to an
earlier state; two entries for eviction and recency.

**explained** (4 506 states; four publications of two contents).
`LastGraphIsExplained`, `ExplanationComes`.

**comments** (1.98 million states; two actors, four comments on two pages, four
reviews, deletions, people's comments with and without a copied marker). `OneCommentPerActor` and
`PublishedIsShown` until somebody deletes a comment; `OthersUntouched` always: a publication edits no
comment of another actor, and a person's only if it ends with the actor's marker.

**asks** (1.03 million states up to symmetry; two questions at a time in two
conversations, two symbols and a relationship, evidence for two, three rounds, a
conversation of one turn). `EvidenceBacked`: whatever the model replies, an answer
cites what was in the evidence of its own question, or what its impact was computed
for. `AlwaysAnswers`: no question about a graph that was read whole ends with an exception, also when
the conversation is about a symbol that the graph has lost. `ConversationKept`: as long as its
questions do not overlap, a conversation is its newest turns. Two symbols let the
graph lose the one a conversation is about and keep another; a third round follows
two of tools, in which the evidence runs out; the second turn pushes out the first.

**bindings** (2.43 million states up to symmetry; two copies of one repository, two
installations, three deliveries, two handlers, one owner's request at a time, one
restart, one key that Redis fails to delete). `JobsOfOwnInstallation`: a job made for an event is of a copy bound to the
event's installation, as long as the copy is there. `AnsweredRightly`: the four queries
give an answer that a single query could have given at some moment meanwhile, with the
exceptions listed below. `TurnedAwayCanBeRedelivered`: the key of an event that was
turned away or refused is gone when its handler is, unless it is `stuck`. Two copies are what it takes for an
ambiguity, two installations for a conflict, a third delivery for an event that meets what
the first two did. With a third copy, which this run has no room for, there is one more
exception (AMBIGUOUS below); the theorem is for any number of them.

**analysis** (2 626 states: every repository that four small files in 4, 3, 5 and 3
versions make, absent ones included, and every commit to each). Each state has two graphs,
of which every query of every node is computed:
`ReferencesKept`: every call, base class, import and route of a file is an edge of the graph, to
what it means or to a node that says it is unresolved, and the ends of every edge are
nodes. `OrderIndependent`: the graph is the same for the reversed order of the scan, but for
packages of calls and the name that a package is given.
`QueriesAgree`: traces, paths, impacts, neighbourhoods and the architecture find the same
dependencies at the same distances, and say so when a limit cut something off.
`ChangesExplained`: what a comparison lists is of files that changed or import these,
directories and packages of calls apart; its score is 0 for equal graphs only. `PolicyDecides`: a policy fails if and only if a rule is
broken, computed independently of what is found and shown, and never passes when it cannot be read;
a policy that begins to fail is explained by a relationship that the comparison lists as added, or one
of a package that it lists as modified.
`PatchFindsChanges`: by the graph of the base or of the head, each symbol whose code
changed is found by the lines of the patch, or its file is reported as unmatched, and a
review that asks for no attention has something in a test connected with all it shows. `PlanGrounded`: whatever the model replies, each stage of a plan
cites the target, its members, dependents, or databases of these. The versions have an
ORM model and an edit that moves it down by a line, a class that imports its importer,
an instance and a parameter that shadows it, a call of itself, a namespace package, a
missing import, a package imported by two modules, `from . import` of a module in the parent
directory, and a test; the documents have rules that are valid, duplicate, missing, and that hold lists in
the place of words; two hops, three changed symbols, two shown ones and seven
nodes of a returned graph are little enough for every limit to be reached.

### Runs that fail: what the code does not keep

| run | says | what happens |
| --- | --- | --- |
| late_delivery: `AcceptedPushIndexed` | README.md:96 "signed default-branch push events refresh the indexed graph" | the index is at push 2 when the delivery of 3 arrives, and then that of 2: latest_github_sha goes back to 2, the job of 3 ends as superseded, that of 2 finds nothing to do, and the status is CURRENT without 3 |
| torn: `NoTornGraph` | graph/store.py:222 "readers see either the old graph or the complete new graph" | `graph()` reads nodes and edges in two transactions; a publication falls between them (a deletion may, too, which the property does not count) |

### What the guards of the passing properties exclude

Each condition below is needed: without it TLC finds the behaviour described.

- No property says that a job keeps its repository. README.md:368 does ("Active jobs cannot
  be deleted mid-write"), but `delete` reads an idle status in one query and deletes in
  another (routes.py:277): a reindex accepted in between is deleted mid-write. What is left
  is consistent (`PublishedTogether`), and the job that goes on revives nothing.
- `VerdictNotOlder` allows newer code. docs/GITHUB_PR_GUARDIAN.md:3 says "from the exact pull
  request head", but the head is read with the pull request and the code cloned from
  refs/pull/N/head later (pr_guardian.py:172): after a push between them the old head gets
  the verdict of the new code.
- `AnsweredRightly`: a copy that was found may be deleted or taken before it is claimed
  (CONFLICT); one that is bound or published between the first two queries is missed by
  both (NOT_FOUND), also when two other copies were published meanwhile and are all that the
  second one sees (AMBIGUOUS); the owner can redeliver the event in each case. What is claimed is
  otherwise final: an event that arrives while the bound copy is being reindexed claims a
  second READY copy, and both are ambiguous until one is deleted, as
  docs/GITHUB_PR_GUARDIAN.md:70 tells the owner. An event of another installation than the one
  a copy is bound to is answered repository_not_indexed, not
  repository_binding_conflict as docs/GITHUB_PR_GUARDIAN.md:71 has it: the second query
  wants an unbound copy, so a conflict is found only when the copy is taken between two
  queries.
- `TurnedAwayCanBeRedelivered` excepts the deliveries that are `stuck`: when Redis fails to delete
  the key (github_webhooks.py:108, 118, 149, 204), or the API is stopped, the key stays for a day
  and the redelivery is a duplicate. Events that Binding does not see, because their payload is rejected with 422 (no
  installation, a foreign pull request), keep theirs as well.
- `OthersUntouched` lets a person's comment be edited if it ends with the actor's marker: the code
  asks for nothing else (pull_requests.py:145-152). Whether GitHub permits that edit depends on the
  actor.
- `OrderIndependent` leaves out the name of a package: its node has the module of the last import
  that was scanned, os or os.path (pipeline.py:231-239), so that the other order of the scan
  makes a comparison list it as modified, and a glob of a policy that matches packages by their
  module may match in one order only. `PolicyDecides` names the latter.
- Relative imports are resolved as the code does, which is not always what Python means: `from . import x`
  becomes the module `..x` and is looked for one directory too high (pipeline.py:180, 210), where it may be missed or be
  taken for another file; in the root directory a relative module is looked for as `./b.py`, which
  no file is called. `ReferencesKept` is about what the graph says of such an import, not about Python.
- An unresolved relative module is one node for all files that write it alike (pipeline.py:230),
  from whatever directory.
- A policy in which a rule has a list or an object in the place of its type, its severity or a
  relationship raises TypeError (architecture_policy.py:71, 73, 89), which load_architecture_policy
  does not catch: the indexing of the commit fails, against docs/ARCHITECTURE_RULES.md:55
  "Invalid policy YAML is reported as `INVALID`; repository indexing still completes".
  `PolicyDecides` says that nothing else makes it raise, and that such a policy never passes.
- `AlwaysAnswers` excepts graphs that were not read whole. When the repository is deleted between the
  check of its metadata and the query for its nodes, `next(iter(...))` of no nodes raises
  (reasoning.py:91); when a publication falls between nodes and edges, `impact` and `trace` look up
  a node that is not there (intelligence.py:31, 107). Neither is inside a try.
- `OrderIndependent` and `ChangesExplained` exclude the USES_PACKAGE edges of calls: those at a
  line where nothing is imported. Such an edge is added if the package is among the nodes by
  then (pipeline.py:280-282), and with a directory without `__init__.py` whether it is depends
  on files scanned before.
- `ChangesExplained` speaks of the files of nodes other than directories: a directory comes
  and goes with the files below it.
- `PatchFindsChanges` claims tests only for pull requests with no more changed symbols than
  are shown: the review is computed from `impacts[:20]` (pull_requests.py:273), and its
  sentence "Every mapped changed symbol has a statically connected test file"
  (pull_request_review.py:93) may be false for the others. Files beyond those that are read
  are reported as such.
- A file that is renamed without a change is looked for by its new name and, if nothing has
  that, by the old one (pull_requests.py:205). By the graph of the base the new name may be a
  directory's: then nothing is mapped and the new name is listed as unmatched, which makes the
  review ask for attention.
- What the review takes for a test of a symbol is any node of its impact whose file is a test:
  also a database entity that is declared in a test file and that the symbol, or what depends
  on it, reads or writes (pull_request_review.py:23). `PatchFindsChanges` names that case.
- `PatchFindsChanges` needs a line of context in the patches (`Context`, 3 at GitHub). With
  none, a line appended to the last definition of a file is after all its lines by the base.
- A file defines a qualified name once in the model. In the code, a property and its setter
  share an id and the last definition's lines (analyzers.py:162), so that a change of the
  first is mapped to the class only.
- Not claimed because the code means otherwise: a symbol moved by inserted lines counts as
  modified, and its edges as removed and added (the line is part of an edge's id);
  `neighbors` that fill the limit exactly end without saying so; a function that calls
  itself is a cycle.
- `ActiveHasJob`, `ActiveSyncHasJob` and `StatusesSettle` except the status that is `unrecorded`: its
  last writer failed and its failure could not be written. Redis refuses the job and then the deletion
  of a key, so that the FAILED or ERROR after it is never reached (routes.py:325, github_webhooks.py:149);
  the database refuses that write; a callback fails to write and logs it (ingestion.py:211, 226,
  repository_sync.py:87, 98); or the API is stopped between the status (routes.py:306) and the job.
  The repository then answers 409 to reindex and delete until something writes that status: a poll, if
  RQ has the job as failed, or another push to a READY repository.
- `RunHasJob`, `OneLiveRunPerDelivery`, `PendingExplained` and `RunsEnd` except `unrecorded` runs in
  the same way: a QUEUED run without a job, or a RUNNING one without a review, stays for good. A
  first run that is left by a prune that failed has a second, live one beside it after the redelivery,
  since the key was deleted. A retry that is left (by a prune that failed, or a stop between
  routes.py:439 and 464) is what every later click finds, and is told to be a duplicate.
- `PendingExplained` lets the run be pruned: the history keeps 200, and a run that failed is forgotten
  as any other.
- **pushes** excludes kills and failing services. The job of an older push writes CURRENT over the QUEUED
  of a newer one; when the newer job is then killed before its first stage,
  `fail_sync_if_active` finds an inactive status and records nothing.
- For `CurrentIsTrue` also a refused job is too much. The outcome of a
  synchronization is decided from one query and written by another
  (repository_sync.py:49-54), over the ERROR of a push that could not be queued.
- A push that arrives while the repository is not READY is answered "ignored"; the
  reindex that was running may end CURRENT behind the branch. No property claims
  otherwise.
- STALE says "A newer push is waiting" (repository_sync.py:58), also when nothing
  waits any more: it is not checked as a property.
- FAILED may be written over the QUEUED of a later reindex, by the callback of the
  previous job (ingestion.py:206) or by a poll (routes.py:258).
- `OneCommentPerActor` has one publication per actor at a time: two clicks of one user
  may both list the comments before either adds one (pull_requests.py:129-165), against
  docs/GITHUB_PR_GUARDIAN.md:60 "Repeated updates edit the same Regora comment". It
  also needs that no more comments are made than are searched: an
  actor whose comment is behind five pages gets another one with every review.
- `ConversationKept` excludes questions of one conversation that overlap: each saves
  what it read and its own turn (reasoning.py:291-295), so the first answer is lost.
  Nor does it see a deletion: a question in progress saves its conversation after the
  repository is gone (store.py:376, a MERGE), and the node stays.
- An explanation job has no failure callback and `handle_work_horse_killed` ignores
  its queue: architecture_status stays QUEUED. `ExplanationComes` excludes failures.

### Fairness

`WF(HookStep)`, `WF(RequestStep(r))`: a handler that began goes on, unless the API
restarts (a step of its own). `WF(WorkerStep)`: the worker container runs and RQ's
job timeout ends every job; the steps of one job are sequential, so weak fairness
of their disjunction is enough, and it is stated of the whole worker because RQ
promises no more. Nothing is assumed of GitHub, of owners, of new requests or of
kills; a service that fails at a call does not stop the handler, which goes on to what the code does
then. ReviewComment, GraphReaders, Binding and CodeAnalysis state no liveness and
have no fairness.

### Bounds

`MaxCommit`, `MaxHead`, `MaxCommands`, `MaxAsks`: pushes, comments, questions. `MaxJobs`, `MaxRuns`,
`MaxAttempts`, `MaxReviews`, `MaxPublished`, `MaxComments`, `MaxStamp`: what is ever
created. `MaxCrashes`, `MaxRedeliveries`, `MaxStuck`: the environment's interventions. `Keep`
(20 in the code), `KeepRuns` (200), `CacheSize` (8), `PageSize` (100), `SearchLimit`
(500), `ContextSize` (6000 characters), `MaxRounds` (4, or 2 with a local model),
`MaxMessages` (20) and `MaxSeeds` (4) are the program's own limits, reduced so that they are reached.
So are those of the analysis: `Cutoff` (8 hops), `MaxPath` (16), `MaxDepth` (5), `GraphLimit` (250),
`MaxCycles` (20), `MaxComponents` (100), `MaxRules` (50), `MaxRelationships` (20), `MaxFound` (50), `MaxViolations` (100),
`MaxFiles` (500), `MaxChanged` (50), `MaxShown` (20), `MaxFindings` (8), `MaxEvidence` (40), `MaxCited`
(8), `MaxNodes` (50000); `Context` is 1 (3 at GitHub: fewer lines around a change are stricter), and
`MaxHops` (20) has its value. A path too long to be returned needs more files than four.

## 4. What is proved

Nothing is assumed of the constants but what the modules' own assumptions say of them
(`BoundsAssumption`, `GuardianBounds`, `AgentBounds` ...: limits are numbers, values that stand
for "nothing" are none of the others). All properties are those of section 3. For the analysis these
are: `ResolverBounds`, `IntelligenceBounds`, `PolicyBounds`, `PullRequestBounds`, `PlannerBounds`
(limits are numbers, but for that of hops at least 1; a list is no word), `AnalysisBounds` (a patch has a line of
context or more), `PolicyDocuments` (a policy has finitely many rules) and `RepositoryContents`: a repository has finitely many paths, each with a place in the order of the scan
and in directories; what a file may hold is a list of statements in which each scope is a definition's
and no qualified name or alias is defined twice (`WellFormed`); modules are looked for at paths. The files,
their number and contents, the commits, the documents and the replies of the model are arbitrary.

`Indexing_proofs`, for every number of threads, commits, jobs, restarts, redeliveries and
snapshots:

| theorem | statement |
| --- | --- |
| `TypeCorrect` | `Spec => []TypeOK` |
| `PublishedTogetherHolds` | `Spec => []PublishedTogether` |
| `Refinement` | `Spec => ImplementsVersionedGraph` |
| `ActiveHasJobHolds` | `Spec => []ActiveHasJob` |
| `ActiveSyncHasJobHolds` | `Spec => []ActiveSyncHasJob` |
| `SyncKeepsPreviousVersionHolds` | `Spec => SyncKeepsPreviousVersion` |
| `NoAcceptedPushForgottenHolds` | `AppliedInFull /\ Spec => []NoAcceptedPushForgotten` |
| `CurrentIsTrueHolds` | `AppliedInFull /\ Spec => []CurrentIsTrue` |

`Guardian_proofs`, for every number of threads, heads, comments, runs, retries, redeliveries and
restarts, and every bound on the history:

| theorem | statement |
| --- | --- |
| `TypeCorrect` | `Spec => []TypeOK` |
| `AtMostOneJobHolds` | `Spec => []AtMostOneJob` |
| `RunHasJobHolds` | `Spec => []RunHasJob` |
| `OneLiveRunPerDeliveryHolds` | `Spec => []OneLiveRunPerDelivery` |
| `VerdictNotOlderHolds` | `Spec => []VerdictNotOlder` |
| `CommentNeverOlderHolds` | `Spec => CommentNeverOlder` |
| `PendingExplainedHolds` | `Spec => []PendingExplained` |
| `CompleteMeansPublishedHolds` | `Spec => []CompleteMeansPublished` |
| `RunLifecycleImplemented` | `Spec => ImplementsRunLifecycle` |

`ReviewComment_proofs`, for every number of actors, calls, comments, pages and deletions:

| theorem | statement |
| --- | --- |
| `OthersUntouchedHolds` | `Spec => OthersUntouched` |
| `OneCommentPerActorHolds` | `OneCallEach` and `Spec => [](nextId <= SearchLimit + 1 => OneCommentPerActor)` |
| `PublishedIsShownHolds` | `OneCallEach` and `Spec => []PublishedIsShown` |

`GraphReaders_proofs`, for every number of readers, contents and publications and every size of
the cache; `Explanation_proofs`, for every number of publications, jobs and kills:

| theorem | statement |
| --- | --- |
| `CurrentKeyIsCurrentHolds` | `Spec => []CurrentKeyIsCurrent` |
| `NoStaleReadHolds` | `Spec => []NoStaleRead` |
| `LastGraphIsExplainedHolds` | `Spec => []LastGraphIsExplained` |

`Agent_proofs`, for every number of threads, conversations, symbols and rounds, every budget and
every limit on messages and symbols:

| theorem | statement |
| --- | --- |
| `EvidenceBackedHolds` | `Spec => []EvidenceBacked` |
| `AlwaysAnswersHolds` | `Spec => []AlwaysAnswers` |
| `ConversationKeptHolds` | `Spec => []ConversationKept` |

`Binding_proofs`, for every number of copies, installations, deliveries, handlers, requests and
restarts:

| theorem | statement |
| --- | --- |
| `JobsOfOwnInstallationHolds` | `Spec => []JobsOfOwnInstallation` |
| `RedeliveryHolds` | `Spec => []TurnedAwayCanBeRedelivered` |
| `AnsweredRightlyHolds` | `Spec => []AnsweredRightly` |

`CodeAnalysis_proofs`, for every repository, whatever its files hold, every order of the scan, every
commit, document and reply of the model, and every limit:

| theorem | statement |
| --- | --- |
| `VersionsHold` | `Spec => []Versions`: both graphs are of files that were there and could be indexed |
| `ReferencesKeptHolds` | `Spec => []ReferencesKept` |
| `OrderIndependentHolds` | `Spec => []OrderIndependent` |
| `QueriesAgreeHolds` | `Spec => []QueriesAgree` |
| `ChangesExplainedHolds` | `Spec => []ChangesExplained` |
| `PolicyDecidesHolds` | `Spec => []PolicyDecides` |
| `PatchFindsChangesHolds` | `Spec => []PatchFindsChanges` |
| `PlanGroundedHolds` | `Spec => []PlanGrounded` |
| `ComparisonScore` | for finite graphs with unique ids, the score of `CompareGraphs(base, head)` is in 0..100, and is 0 if and only if `base = head` |
| `ImpactScore` | the sum of the capped features of an impact is in 0..100, and is 0 if and only if they are |

### The conditions

Each is one under which the run checks the property, too; section 3 says what goes wrong without it.

- `AppliedInFull`: no restart or kill, and a Redis and a database that answer.
- `OneCallEach`: an actor publishes one review at a time; `nextId <= SearchLimit + 1`: no more comments
  were ever made than the search reads.

### The arguments

None of the properties of the protocols but the types is inductive. Each strengthening was checked by TLC on the
run of its property before it was proved (but for types that TLC cannot enumerate, as of sequences).

Indexing:

- `VersionInv` adds to `PublishedTogether` that the newest snapshot is the served
  graph's, that snapshots are dated in the past (so that pruning spares the one just
  written), that a clone the worker holds is at least as new as the graph (only one
  work horse runs, and a branch only grows), and that nothing exists before the
  repository is created. The refinement needs it for the step `Publish`, and
  `SyncKeepsPreviousVersion` for the same step.
- `ActiveInv` adds that the worker's job has not written READY yet; otherwise
  `IngestDone` would leave an active status behind. Both invariants of active statuses say what
  `unrecorded` is for: it takes a failure that was not written to leave a status without a job.
- `ActiveSyncInv` adds that the job behind the status is for the newest stored push
  as long as it has not checked that: a superseded job may leave, since the job
  that superseded it is behind it in the queue or about to be queued.
- `PushInv` adds what the worker's job has achieved at each stage: its argument is
  the newest stored push or another job waits (`Pending`), its clone is at least its
  argument, and once it has published, its argument is in the index. So `SyncFinish`
  may overwrite a newer QUEUED: the newer push's job is in the queue.
- `CurrentInv` says when CURRENT may be false: while the job of the newest push waits, or the worker has
  taken it and not looked at it yet. The same of the CURRENT that the worker has decided on and not
  written: pushes that come in between have their job queued by then, or their handler about to.

Guardian:

- `GuardianInv` has three parts. `HistoryInv`: the attempts at one run are dated in their order and are
  forgotten in it, so that what a click reads as the source of a retry is not made again after it was pruned.
  `UniqueInv`: a run has one of a job in the queue, a review and a handler that holds it (`mine`, `stored`;
  a click that came second is `other`). `StatusInv`: which statuses the holder of a job can find; ABSENT is
  always among them, since any run may be pruned. The three hold each other up.
- `DeliveryInv` adds to `OneLiveRunPerDelivery` that the deliveries of live runs, but for `unrecorded` ones, are remembered, and
  what is so while a handler has claimed its delivery and not created the run.
- `HeadInv` adds what the worker knows at each stage: the head it fetched is no newer than the branch, the
  code it cloned no older than that head, and the comment no newer than that code.
- `PendingInv` says of the run that made a head pending (`publisher`) that it is in the worker's hands
  before the final status, or failed, or pruned together with all earlier attempts at it, so that no retry
  of theirs makes it again, or `unrecorded` and left. It has no condition on the history: pruning takes
  runs away, but makes none of them COMPLETE.
- `RunLifecycle`: each step changes the status of one run, or forgets some; that a
  retry or a webhook creates a run from nothing is `HistoryInv` and `UniqueInv`.

Readers, comments, explanations:

- `KeyInv`: a key with the present timestamp and another fingerprint was read before the one publication
  that the timestamp covers. `FreshInv`: what is cached, or half read, under the present key is the present
  graph. `SeenInv`: what anybody read under the key of a reader has been the graph since that reader read it.
- `IdInv`: ids are used once, and a call that found a comment holds one of its own actor, or one that is
  deleted since. That is all that `OthersUntouched` needs. `SearchInv`, until somebody deletes a comment:
  what a call has searched has no comment of its actor. `TextInv` and `KeptInv`: the texts of an actor are
  numbered as they were reviewed, and one that was answered is on GitHub, or a later one.
- `LastJobInv`: as long as nothing failed, the last graph's job is still to be queued, is the last in the queue, or
  is in the worker's hands with that graph read - or the overview is that graph's and nothing is left to run.
  So an older job that stores its overview is always followed by another.

Agent:

- `EvidenceInv` adds what is recorded before there is an answer: the symbols and
  relationships that citations are checked against were shown to the model.
- `AnswersInv` adds that a question starts from symbols of its own graph (`SeedsOfGraph`) and has seen no
  others.
- `ConversationInv` adds that two questions in progress in one conversation are known to overlap, and that
  one that is alone holds the messages as they are stored. `TurnedExtends` is the step from one turn to the
  next, by index, with the trimming: the newest messages of the newest messages and a turn are the newest of
  all; `SuffixByIndex` turns that into the library's `IsSuffix`.

Binding:

- `BindingInv` adds the types, what a handler knows of the copy it found at each of its
  queries - once it is bound for the handler, it is bound to the handler's installation
  until it is deleted - and which keys are held for whom. `Kept(c)`: no step takes an
  installation from a stored copy.
- `AnswersInv` adds which answers were possible when each query was made: what `seen` records at every
  step of any actor. A handler whose first query found nothing has been able to
  see a bound copy only if copies were published meanwhile (`grown`), which is where the exceptions NOT_FOUND
  and AMBIGUOUS come from.

Analysis: the properties are of what is computed from the files, so that the invariant is `Versions` alone,
and the work is in the operators.

- Recursive functions over 0..n are shown to exist (`Recursion`), then to have what each step keeps
  (`Stays`); induction is over sets of numbers (`Induction`). `AmongSteps`, `UniqueSteps`, `SortedSteps`,
  `WithinSteps`, `MeaningSteps`, `ImpactSteps` and the like unfold one of them each, and the lemma after it says
  what it computes, which is all that is cited elsewhere.
- `ReferencesKept`: `GraphNodes` and `GraphEdges` list the kinds of nodes and edges; the tag of an id tells its
  kind, and two nodes of one id are equal because the last of those that share one is taken (`SameNode`).
  A name means a node of the graph or nothing, for any number of hops (`MeaningKnown`).
- `QueriesAgree`: `Near(net, k, a, b)`, being at most k hops away, does not depend on the end it is counted from
  (`NearReversed`), so that traces from a node and impacts on it meet (`DistancesKnown`, `TracesAgree`).
- `PolicyDecides`: the nodes from which one can go on forever are those that are left when one without
  successor is removed as often as there are nodes (`Settles`), and have a cycle after them (`CyclicIff`);
  what can be reached is reached within as many hops as there are nodes (`NearEnough`). Limits cut off what is
  found, but leave something of what is not empty (`FoundWhenBroken`).
- `ChangesExplained`: the files that a commit does not concern import none that it does (`RestClosed`); and a part of
  a repository that imports nothing of the rest means the same by itself as within it (`SameMeaning`), so that
  its edges and nodes are the same in both graphs (`EdgeKept`, `NodeKept`).
- `PatchFindsChanges`: what a hunk does not meet is before or after all that changed and is there, with the line
  that follows it, in the other version (`MissedIsCopied`); that line is why a definition ends in both where it
  does in one (`CopiedDefinition`). So a symbol that no range meets has a node of its text in the other graph
  (`LostIsShown`), and all others are mapped (`LostIsMapped`). The members of a symbol are of its own file
  (`SelectedStays`), so a connected test outside that file is a dependent or a database
  (`TestsConnected`).
- `PlanGrounded`: all that a stage may cite is in the evidence or in the impact (`EvidenceAround`, `FallbackAround`).

Each step of the program is one case of the step lemmas of an invariant; what most steps
leave alone is stated once (in Indexing `Quiet`, `QuietWrite`, `QuietFailure`, `PushFrame`; in Guardian
`WorkerLeaves`, `ApiLeaves`, `WorkerWrites`; in Agent `OneCall`, `ConversationStays`).

### Only model-checked

- Every liveness property (`StatusesSettle`, `AcceptedPushServed`, `RunsEnd`, `ExplanationComes`): fairness and
  ENABLED are out of the prover's reach.
- The two properties that fail (`late_delivery`, `torn`), which are there for their counterexamples.

## 5. Not modelled

- The death of a worker container (RQ's own registry cleanup then decides), Redis
  losing data, Redis accepting a job whose enqueue timed out, the 24 hour expiry of
  delivery keys, RQ's retention of failed jobs.
- Force pushes and deleted branches: commits only grow. Branches other than the
  default one, which the webhook ignores.
- ZIP uploads and the demo repository, which are indexed without a revision.
- Several repositories at once, except for their effect on the snapshot cache.
- Syntax: the trees that tree-sitter and Python's `ast` build, and what is found only in them:
  default exports, re-exports, decorated routes, `Depends`, annotated fields, CommonJS.
- The texts of overviews, comments, reports, plans and answers; the counts and hubs of the
  overview; the retrieval of symbols by meaning.
- Failures of the GitHub API while a pull request is fetched: nothing is computed then.
- A second demo repository, when two requests find none (routes.py:192).
- Clock skew: `created_at` and `updated_at` grow with every write.

## 6. Plan

Done, in order: Indexing and VersionedGraph with their proofs; Guardian and
RunLifecycle; GraphReaders; Explanation; ReviewComment; Agent; Binding with its proofs;
the analysis, from CodeGraph to CodeAnalysis.

Then the proofs: every safety property of the protocols and of the analysis, as section 4 lists
them. No safety property that a run checks is left without a theorem.

Left are parts that are not modelled (section 5), of which the rarer forms of syntax matter most to the
graph: re-exports and default exports add ways in which a name gets its meaning.

The project stays at about a dozen runs: a new module's run replaces a run that
fails, whose behaviour then joins the list in section 3.
