---------------------------- MODULE Explanation ----------------------------
(***************************************************************************)
(* The AI explanation of an indexed repository.  The ingestion worker      *)
(* publishes a graph with a factual overview and queues                    *)
(* generate_architecture; the `architecture-worker` process serves that    *)
(* queue one job at a time while other graphs may be published.            *)
(*                                                                         *)
(*  - An explanation is named by the content it was generated from.        *)
(*  - The graph and the fingerprint change in one transaction (see         *)
(*    Indexing); that a job may load a torn graph is GraphReaders' matter. *)
(***************************************************************************)
EXTENDS Integers, Sequences

CONSTANTS
    Contents,     \* what the source of the repository can be
    MaxPublished  \* bound on the graphs published

ASSUME ExplanationBounds == MaxPublished \in Nat

VARIABLES
    fingerprint,  \* content of the indexed graph
    architecture, \* the overview shown: [of, status]
    indexer,      \* the ingestion job: idle, published, ready
    queue,        \* the "architecture" queue: the fingerprint each job has
    worker,       \* the job running: [pc, asked, read, grounding]
    published,    \* graphs published so far
    clean         \* whether nothing failed since the last one

vars == <<fingerprint, architecture, indexer, queue, worker, published, clean>>

Status == {"QUEUED", "READY", "EVIDENCE_ONLY"}

-----------------------------------------------------------------------------
(* ingest, from publish_graph on.                                          *)

PublishGraph ==
    /\ indexer = "idle" /\ published < MaxPublished
    /\ \E content \in Contents :
        /\ fingerprint' = content
        /\ architecture' = [of |-> content, status |-> "QUEUED"]
    /\ published' = published + 1 /\ clean' = TRUE
    /\ indexer' = "published"
    /\ UNCHANGED <<queue, worker>>

(* The stage READY; when it cannot be stored the job fails and nothing is  *)
(* queued.                                                                 *)
StageReady ==
    /\ indexer = "published"
    /\ \/ indexer' = "ready" /\ UNCHANGED clean
       \/ indexer' = "idle" /\ clean' = FALSE
    /\ UNCHANGED <<fingerprint, architecture, queue, worker, published>>

(* Mutant: an explanation that waits already is enough.                    *)
EnqueueIfNone(content) == queue' = IF queue = <<>> THEN <<content>> ELSE queue

EnqueueJob(content) == queue' = Append(queue, content)

Enqueue ==
    /\ indexer = "ready"
    /\ EnqueueJob(fingerprint)
    /\ indexer' = "idle"
    /\ UNCHANGED <<fingerprint, architecture, worker, published, clean>>

(* Redis refuses: the factual overview is all there will be, if the        *)
(* database takes that.                                                    *)
EnqueueFails ==
    /\ indexer = "ready"
    /\ architecture' \in {architecture, [architecture EXCEPT !.status = "EVIDENCE_ONLY"]}
    /\ indexer' = "idle" /\ clean' = FALSE
    /\ UNCHANGED <<fingerprint, queue, worker, published>>

-----------------------------------------------------------------------------
(* generate_architecture.                                                  *)

NoContent == "none"
IdleWorker == [pc |-> "idle", asked |-> NoContent, read |-> NoContent, grounding |-> "none"]

Take ==
    /\ worker.pc = "idle" /\ queue # <<>>
    /\ queue' = Tail(queue)
    /\ worker' = [IdleWorker EXCEPT !.pc = "taken", !.asked = Head(queue)]
    /\ UNCHANGED <<fingerprint, architecture, indexer, published, clean>>

Differs == fingerprint # worker.asked

CheckBefore ==
    /\ worker.pc = "taken"
    /\ worker' = IF Differs THEN IdleWorker ELSE [worker EXCEPT !.pc = "checked"]
    /\ UNCHANGED <<fingerprint, architecture, indexer, queue, published, clean>>

ReadGraph ==
    /\ worker.pc = "checked"
    /\ worker' = [worker EXCEPT !.pc = "read", !.read = fingerprint]
    /\ UNCHANGED <<fingerprint, architecture, indexer, queue, published, clean>>

(* RepoAgent.ask: from the model, or from the evidence when that fails.    *)
Ask ==
    /\ worker.pc = "read"
    /\ \E grounding \in {"READY", "EVIDENCE_ONLY"} :
          worker' = [worker EXCEPT !.pc = "answered", !.grounding = grounding]
    /\ UNCHANGED <<fingerprint, architecture, indexer, queue, published, clean>>

CheckAfter ==
    /\ worker.pc = "answered"
    /\ worker' = IF Differs THEN IdleWorker ELSE [worker EXCEPT !.pc = "current"]
    /\ UNCHANGED <<fingerprint, architecture, indexer, queue, published, clean>>

StoreExplanation ==
    /\ worker.pc = "current"
    /\ architecture' = [of |-> worker.read, status |-> worker.grounding]
    /\ worker' = IdleWorker
    /\ UNCHANGED <<fingerprint, indexer, queue, published, clean>>

(* An exception, the RQ timeout or a killed work horse: the job has no     *)
(* failure callback, and the handler of kills does not know its queue.     *)
JobFails ==
    /\ worker.pc # "idle"
    /\ worker' = IdleWorker /\ clean' = FALSE
    /\ UNCHANGED <<fingerprint, architecture, indexer, queue, published>>

-----------------------------------------------------------------------------
Init ==
    /\ fingerprint \in Contents
    /\ architecture = [of |-> fingerprint, status |-> "EVIDENCE_ONLY"]
    /\ indexer = "idle" /\ queue = <<>> /\ worker = IdleWorker
    /\ published = 0 /\ clean = TRUE

IndexStep == StageReady \/ Enqueue \/ EnqueueFails

WorkerStep == Take \/ CheckBefore \/ ReadGraph \/ Ask \/ CheckAfter \/ StoreExplanation

Next == PublishGraph \/ IndexStep \/ WorkerStep \/ JobFails

(* The job that published goes on, and the architecture worker works.      *)
Fairness == WF_vars(IndexStep) /\ WF_vars(WorkerStep)

Spec == Init /\ [][Next]_vars /\ Fairness

-----------------------------------------------------------------------------
(* Properties.                                                             *)

Quiet == indexer = "idle" /\ queue = <<>> /\ worker.pc = "idle"

(* Whatever older jobs wrote in between - one may pass its second check,   *)
(* and overwrite the overview of the graph published right after it - the  *)
(* overview that stays is that of the indexed graph.                       *)
LastGraphIsExplained ==
    (Quiet /\ clean) => architecture.of = fingerprint /\ architecture.status # "QUEUED"

(* Unless something fails, an explanation that waits is generated.         *)
ExplanationComes ==
    (architecture.status = "QUEUED") ~> (architecture.status # "QUEUED" \/ ~clean)
=============================================================================
