---------------------------- MODULE GraphReaders ----------------------------
(***************************************************************************)
(* The readers of one repository's graph, in the threads of the API, while *)
(* the ingestion worker replaces it.  A reader checks the status, reads    *)
(* the metadata again, and takes the snapshot that the process-local LRU   *)
(* cache holds for their fingerprint and timestamp, or loads it with one   *)
(* query for the nodes and one for the edges.                              *)
(*                                                                         *)
(*  - A graph is the content it was analyzed from; two versions of equal   *)
(*    content are equal graphs and have the same fingerprint.              *)
(*  - updated_at is a counter: every write of a stage moves it on.         *)
(*  - The cache is shared by all repositories: what the others insert may  *)
(*    evict this one's oldest entry at any time.                           *)
(***************************************************************************)
EXTENDS Integers, Sequences

CONSTANTS
    Readers,     \* API threads
    Contents,    \* what the source of the repository can be
    Gone,        \* the graph of a deleted repository
    CacheSize,   \* maxsize of the LRU cache
    MaxStamp     \* bound on the writes of stages

ASSUME ReadersBounds ==
    /\ Gone \notin Contents
    /\ CacheSize \in Nat \ {0} /\ MaxStamp \in Nat

VARIABLES
    graph,    \* CodeNodes and relationships of the repository
    meta,     \* RepositoryMeta: [present, ready, fp, stamp]
    indexer,  \* the job that replaces the graph: idle, working, published
    cache,    \* snapshots, the least recently used first: [key, nodes, edges]
    readers,  \* each thread: [pc, key, nodes, edges]
    current   \* for each reader, the graphs there were since it read its key

vars == <<graph, meta, indexer, cache, readers, current>>

Graphs == Contents \union {Gone}

-----------------------------------------------------------------------------
(* The ingestion worker, as far as readers can tell.                       *)

Touch(ready) == meta' = [meta EXCEPT !.stamp = @ + 1, !.ready = ready]

(* A background synchronization leaves the status READY; a reindex does    *)
(* not.                                                                    *)
StartIndexing ==
    /\ indexer = "idle" /\ meta.present /\ meta.stamp < MaxStamp
    /\ \E background \in BOOLEAN : Touch(meta.ready /\ background)
    /\ indexer' = "working"
    /\ UNCHANGED <<graph, cache, readers, current>>

(* publish_graph: one transaction, which does not write updated_at.  It    *)
(* writes the nodes and edges also when the metadata are gone.             *)
PublishGraph ==
    /\ indexer = "working"
    /\ \E content \in Contents :
        /\ graph' = content
        /\ meta' = IF meta.present THEN [meta EXCEPT !.fp = content] ELSE meta
    /\ current' = [r \in Readers |-> current[r] \union {graph'}]
    /\ indexer' = "published"
    /\ UNCHANGED <<cache, readers>>

(* The stage READY, or the stage FAILED of a job that may have published   *)
(* already; that of a synchronization keeps the status.                    *)
FinishIndexing ==
    /\ indexer # "idle"
    /\ \/ meta.present /\ \E ready \in {meta.ready, indexer = "published"} : Touch(ready)
       \/ ~meta.present /\ UNCHANGED meta
    /\ indexer' = "idle"
    /\ UNCHANGED <<graph, cache, readers, current>>

DeleteRepository ==
    /\ meta.present
    /\ meta' = [meta EXCEPT !.present = FALSE, !.ready = FALSE]
    /\ graph' = Gone
    /\ current' = [r \in Readers |-> current[r] \union {Gone}]
    /\ UNCHANGED <<indexer, cache, readers>>

-----------------------------------------------------------------------------
(* The readers.                                                            *)

IdleReader == [pc |-> "idle", key |-> <<Gone, 0>>, nodes |-> Gone, edges |-> Gone]

(* ready(): the status is checked ...                                      *)
CheckReady(r) ==
    /\ readers[r].pc = "idle" /\ meta.ready
    /\ readers' = [readers EXCEPT ![r].pc = "ready"]
    /\ UNCHANGED <<graph, meta, indexer, cache, current>>

(* Mutants: one half of the key.                                           *)
KeyByFingerprint(m) == <<m.fp, 0>>
KeyByStamp(m) == <<Gone, m.stamp>>

Key(m) == <<m.fp, m.stamp>>

(* ... and the metadata are read again, for the key.                       *)
ReadKey(r) ==
    /\ readers[r].pc = "ready"
    /\ IF meta.present
         THEN readers' = [readers EXCEPT ![r].pc = "keyed", ![r].key = Key(meta)]
         ELSE readers' = [readers EXCEPT ![r] = IdleReader]
    /\ current' = [current EXCEPT ![r] = {graph}]
    /\ UNCHANGED <<graph, meta, indexer, cache>>

Cached(key) == {i \in DOMAIN cache : cache[i].key = key}

Without(i) == SubSeq(cache, 1, i - 1) \o SubSeq(cache, i + 1, Len(cache))

Hit(r) ==
    /\ readers[r].pc = "keyed"
    /\ \E i \in Cached(readers[r].key) :
        /\ readers' = [readers EXCEPT ![r].pc = "done", ![r].nodes = cache[i].nodes,
                                      ![r].edges = cache[i].edges]
        /\ cache' = Append(Without(i), cache[i])
    /\ UNCHANGED <<graph, meta, indexer, current>>

Miss(r) ==
    /\ readers[r].pc = "keyed" /\ Cached(readers[r].key) = {}
    /\ readers' = [readers EXCEPT ![r].pc = "miss"]
    /\ UNCHANGED <<graph, meta, indexer, cache, current>>

ReadNodes(r) ==
    /\ readers[r].pc = "miss"
    /\ readers' = [readers EXCEPT ![r].pc = "nodes", ![r].nodes = graph]
    /\ UNCHANGED <<graph, meta, indexer, cache, current>>

ReadEdges(r) ==
    /\ readers[r].pc = "nodes"
    /\ readers' = [readers EXCEPT ![r].pc = "loaded", ![r].edges = graph]
    /\ UNCHANGED <<graph, meta, indexer, cache, current>>

Insert(entry) ==
    LET longer == Append(cache, entry)
    IN  IF Len(longer) > CacheSize THEN Tail(longer) ELSE longer

(* The first of two threads that missed the same key fills it; each uses   *)
(* what it loaded.                                                         *)
Store(r) ==
    LET key == readers[r].key
        entry == [key |-> key, nodes |-> readers[r].nodes, edges |-> readers[r].edges]
    IN
    /\ readers[r].pc = "loaded"
    /\ cache' = IF Cached(key) = {} THEN Insert(entry) ELSE cache
    /\ readers' = [readers EXCEPT ![r].pc = "done"]
    /\ UNCHANGED <<graph, meta, indexer, current>>

Respond(r) ==
    /\ readers[r].pc = "done"
    /\ readers' = [readers EXCEPT ![r] = IdleReader]
    /\ current' = [current EXCEPT ![r] = {}]
    /\ UNCHANGED <<graph, meta, indexer, cache>>

EvictOldest ==
    /\ cache # <<>>
    /\ cache' = Tail(cache)
    /\ UNCHANGED <<graph, meta, indexer, readers, current>>

-----------------------------------------------------------------------------
Init ==
    /\ graph \in Contents
    /\ meta = [present |-> TRUE, ready |-> TRUE, fp |-> graph, stamp |-> 0]
    /\ indexer = "idle" /\ cache = <<>>
    /\ readers = [r \in Readers |-> IdleReader] /\ current = [r \in Readers |-> {}]

IndexStep == StartIndexing \/ PublishGraph \/ FinishIndexing \/ DeleteRepository

ReaderStep(r) ==
    \/ CheckReady(r) \/ ReadKey(r) \/ Hit(r) \/ Miss(r) \/ ReadNodes(r) \/ ReadEdges(r)
    \/ Store(r) \/ Respond(r)

Next == IndexStep \/ EvictOldest \/ \E r \in Readers : ReaderStep(r)

Spec == Init /\ [][Next]_vars

-----------------------------------------------------------------------------
(* Properties.                                                             *)

(* "A changed fingerprint/updated timestamp invalidates the bounded        *)
(* process snapshot cache" (README.md:202): a snapshot that readers find   *)
(* under the metadata of the repository is the whole graph it has now,     *)
(* whatever was loaded while an earlier one was replaced.                  *)
CurrentKeyIsCurrent ==
    \A i \in DOMAIN cache :
        (meta.present /\ cache[i].key = Key(meta))
            => cache[i].nodes = graph /\ cache[i].edges = graph

(* No reader is given nodes or edges that were already replaced when it    *)
(* read the metadata, also when the source goes back to an earlier state.  *)
NoStaleRead ==
    \A r \in Readers : readers[r].pc = "done" =>
        readers[r].nodes \in current[r] /\ readers[r].edges \in current[r]

-----------------------------------------------------------------------------
(* "Readers see either the old graph or the complete new graph"            *)
(* (graph/store.py:222, of the transaction that writes it).  The two       *)
(* queries that read it are not in one transaction.  A graph that is       *)
(* missing on either side, as of a repository deleted between the two, is  *)
(* not counted: only two complete graphs that are mixed.                   *)
NoTornGraph ==
    \A r \in Readers :
        (readers[r].pc = "done" /\ Gone \notin {readers[r].nodes, readers[r].edges})
            => readers[r].nodes = readers[r].edges
=============================================================================
