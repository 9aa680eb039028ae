------------------------ MODULE GraphReaders_proofs ------------------------
(***************************************************************************)
(* Theorems about GraphReaders, for any number of readers, contents,       *)
(* writes of stages and any size of the cache.                             *)
(***************************************************************************)
EXTENDS GraphReaders, SequenceTheorems, TLAPS

-----------------------------------------------------------------------------
(* The invariant.                                                          *)

KeyType == Graphs \X Nat
Entry == [key : KeyType, nodes : Graphs, edges : Graphs]
ReaderType == [pc : {"idle", "ready", "keyed", "miss", "nodes", "loaded", "done"},
               key : KeyType, nodes : Graphs, edges : Graphs]
MetaType == [present : BOOLEAN, ready : BOOLEAN, fp : Graphs, stamp : Nat]

ReadersTypes ==
    /\ graph \in Graphs
    /\ meta \in MetaType
    /\ indexer \in {"idle", "working", "published"}
    /\ cache \in Seq(Entry)
    /\ readers \in [Readers -> ReaderType]
    /\ current \in [Readers -> SUBSET Graphs]

Held == {cache[i] : i \in DOMAIN cache}

HasKey(r) == readers[r].pc \in {"keyed", "miss", "nodes", "loaded", "done"}
NodesRead(r) == readers[r].pc \in {"nodes", "loaded", "done"}
EdgesRead(r) == readers[r].pc \in {"loaded", "done"}

(* A key was read from the metadata, now or earlier: its fingerprint       *)
(* differs from that of the present with the same timestamp only after the *)
(* one publication that the timestamp covers.                              *)
KeyInv(key) ==
    /\ key[2] <= meta.stamp
    /\ meta.present /\ key[2] = meta.stamp /\ key[1] # meta.fp => indexer = "published"

IsNow(key) == meta.present /\ key = Key(meta)

FreshInv ==
    /\ meta.present => graph = meta.fp
    /\ \A e \in Held : KeyInv(e.key) /\ (IsNow(e.key) => e.nodes = graph /\ e.edges = graph)
    /\ \A r \in Readers : HasKey(r) =>
        /\ KeyInv(readers[r].key)
        /\ IsNow(readers[r].key) => /\ NodesRead(r) => readers[r].nodes = graph
                                    /\ EdgesRead(r) => readers[r].edges = graph

(* What anybody read under the key of r has been the graph since r read    *)
(* its key.                                                                *)
SeenInv ==
    \A r \in Readers : HasKey(r) =>
        /\ graph \in current[r]
        /\ \A e \in Held : e.key = readers[r].key => e.nodes \in current[r] /\ e.edges \in current[r]
        /\ \A q \in Readers : HasKey(q) /\ readers[q].key = readers[r].key =>
            /\ NodesRead(q) => readers[q].nodes \in current[r]
            /\ EdgesRead(q) => readers[q].edges \in current[r]

ReadersInv == FreshInv /\ SeenInv

-----------------------------------------------------------------------------
(* The cache.                                                              *)

(* What a sequence is built from is all that it holds.                     *)
LEMMA HeldOf ==
    ASSUME NEW S \in SUBSET Entry, cache' \in Seq(S)
    PROVE  cache' \in Seq(Entry) /\ Held' \subseteq S
  BY DEF Held

LEMMA HeldType ==
    ASSUME cache \in Seq(Entry)
    PROVE  cache \in Seq(Held) /\ Held \subseteq Entry
  BY DEF Held

LEMMA TailHeld ==
    ASSUME cache \in Seq(Entry), cache # <<>>, cache' = Tail(cache)
    PROVE  cache' \in Seq(Entry) /\ Held' \subseteq Held
  <1>1. Tail(cache) \in Seq(Held)
    BY HeldType, HeadTailProperties
  <1> QED  BY <1>1, HeldOf, HeldType

(* The entry that was found becomes the most recently used one.            *)
LEMMA HitHeld ==
    ASSUME cache \in Seq(Entry), NEW i \in DOMAIN cache, cache' = Append(Without(i), cache[i])
    PROVE  cache' \in Seq(Entry) /\ Held' \subseteq Held
  <1>1. /\ i \in Int /\ i - 1 \in Int /\ i + 1 \in Int /\ Len(cache) \in Int
        /\ \A j \in 1..(i - 1) : cache[j] \in Held
        /\ \A j \in (i + 1)..Len(cache) : cache[j] \in Held
        /\ cache[i] \in Held
    BY DEF Held
  <1>2. SubSeq(cache, 1, i - 1) \in Seq(Held) /\ SubSeq(cache, i + 1, Len(cache)) \in Seq(Held)
    BY <1>1, SubSeqProperties
  <1>3. Without(i) \in Seq(Held)
    BY <1>2, ConcatProperties DEF Without
  <1>4. Append(Without(i), cache[i]) \in Seq(Held)
    BY <1>1, <1>3, AppendProperties
  <1> QED  BY <1>4, HeldOf, HeldType

LEMMA InsertHeld ==
    ASSUME cache \in Seq(Entry), NEW entry \in Entry, cache' = Insert(entry)
    PROVE  cache' \in Seq(Entry) /\ Held' \subseteq Held \union {entry}
  <1> DEFINE S == Held \union {entry}
             longer == Append(cache, entry)
  <1>1. S \in SUBSET Entry /\ cache \in Seq(S) /\ entry \in S
    BY HeldType
  <1>2. longer \in Seq(S) /\ longer # <<>>
    BY <1>1, AppendProperties
  <1>3. Tail(longer) \in Seq(S)
    BY <1>2, HeadTailProperties
  <1>4. Insert(entry) \in Seq(S)
    BY <1>2, <1>3 DEF Insert
  <1> HIDE DEF S, longer
  <1>5. cache' \in Seq(Entry) /\ Held' \subseteq S
    BY <1>1, <1>4, HeldOf
  <1> QED  BY <1>5 DEF S

-----------------------------------------------------------------------------
(* The invariant is inductive.                                             *)

LEMMA IdleType ==
    IdleReader \in ReaderType /\ IdleReader.pc = "idle"
  BY DEF IdleReader, ReaderType, KeyType, Graphs

LEMMA ReadersInit == Init => ReadersTypes /\ ReadersInv
  <1> SUFFICES ASSUME Init PROVE ReadersTypes /\ ReadersInv
    OBVIOUS
  <1>1. ReadersTypes
    BY IdleType DEF Init, ReadersTypes, MetaType, Graphs
  <1>2. Held = {} /\ \A r \in Readers : ~HasKey(r)
    BY IdleType DEF Init, Held, HasKey
  <1> QED  BY <1>1, <1>2 DEF Init, ReadersInv, FreshInv, SeenInv

(* A step that changes neither the readers nor what is in the cache, and   *)
(* leaves keys as they were or makes them keys of the past.                *)
LEMMA IndexKeeps ==
    ASSUME ReadersTypes, ReadersInv, UNCHANGED <<cache, readers>>,
           meta'.present => graph' = meta'.fp,
           \A key \in KeyType : KeyInv(key) => KeyInv(key)',
           \A key \in KeyType : KeyInv(key) /\ IsNow(key)' => IsNow(key) /\ graph' = graph,
           \A r \in Readers : HasKey(r) => graph' \in current'[r] /\ current[r] \subseteq current'[r]
    PROVE  ReadersInv'
  <1>1. Held' = Held
    BY DEF Held
  <1>2. \A r \in Readers : (HasKey(r)' <=> HasKey(r)) /\ (NodesRead(r)' <=> NodesRead(r))
                           /\ (EdgesRead(r)' <=> EdgesRead(r)) /\ readers'[r] = readers[r]
    BY DEF HasKey, NodesRead, EdgesRead
  <1>0. (\A e \in Held : e.key \in KeyType) /\ (\A r \in Readers : readers[r].key \in KeyType)
    BY HeldType DEF ReadersTypes, Entry, ReaderType
  <1>3. FreshInv'
    <2>1. ASSUME NEW e \in Held
          PROVE  KeyInv(e.key)' /\ (IsNow(e.key)' => e.nodes = graph' /\ e.edges = graph')
      BY <1>0, <2>1 DEF ReadersInv, FreshInv
    <2>2. ASSUME NEW r \in Readers, HasKey(r), NEW key, key = readers[r].key
          PROVE  /\ KeyInv(key)'
                 /\ IsNow(key)' => /\ NodesRead(r) => readers[r].nodes = graph'
                                   /\ EdgesRead(r) => readers[r].edges = graph'
      BY <1>0, <2>2 DEF ReadersInv, FreshInv
    <2>3. ASSUME NEW r \in Readers, HasKey(r)
          PROVE  /\ KeyInv(readers[r].key)'
                 /\ IsNow(readers[r].key)' => /\ NodesRead(r) => readers[r].nodes = graph'
                                              /\ EdgesRead(r) => readers[r].edges = graph'
      BY <2>2, <2>3 DEF KeyInv, IsNow, Key
    <2> QED  BY <1>1, <1>2, <2>1, <2>3 DEF FreshInv
  <1>4. SeenInv'
    BY <1>1, <1>2 DEF ReadersInv, SeenInv
  <1> QED  BY <1>3, <1>4 DEF ReadersInv

LEMMA TouchMeta ==
    ASSUME meta \in MetaType, NEW ready \in BOOLEAN, Touch(ready)
    PROVE  /\ meta' \in MetaType /\ meta'.stamp = meta.stamp + 1
           /\ meta'.present = meta.present /\ meta'.fp = meta.fp
  <1> DEFINE next == meta.stamp + 1
             stamped == [meta EXCEPT !.stamp = next]
  <1>1. next \in Nat /\ meta' = [stamped EXCEPT !.ready = ready]
    BY DEF Touch, MetaType
  <1>2. stamped \in MetaType /\ stamped.stamp = next /\ stamped.present = meta.present /\ stamped.fp = meta.fp
    BY <1>1 DEF MetaType
  <1> HIDE DEF stamped
  <1> QED  BY <1>1, <1>2 DEF MetaType

LEMMA IndexNext ==
    ASSUME ReadersTypes, ReadersInv, IndexStep
    PROVE  ReadersTypes' /\ ReadersInv'
  <1>0. /\ meta \in MetaType /\ meta.stamp \in Nat
        /\ meta.present => graph = meta.fp
        /\ \A r \in Readers : HasKey(r) => graph \in current[r]
    BY DEF ReadersTypes, MetaType, ReadersInv, FreshInv, SeenInv
  <1>1. ASSUME NEW ready \in BOOLEAN, Touch(ready), UNCHANGED <<graph, cache, readers, current>>,
               indexer' \in {"idle", "working", "published"}
        PROVE  ReadersTypes' /\ ReadersInv'
    <2>1. /\ meta' \in MetaType /\ meta'.stamp = meta.stamp + 1
          /\ meta'.present = meta.present /\ meta'.fp = meta.fp
      BY <1>0, <1>1, TouchMeta
    <2>2. ASSUME NEW key \in KeyType, KeyInv(key)
          PROVE  KeyInv(key)' /\ ~IsNow(key)'
      BY <1>0, <2>1, <2>2 DEF KeyType, KeyInv, IsNow, Key
    <2>3. ReadersInv'
      BY <1>0, <1>1, <2>1, <2>2, IndexKeeps
    <2> QED  BY <1>1, <2>1, <2>3 DEF ReadersTypes
  <1>2. CASE StartIndexing
    <2>1. PICK background \in BOOLEAN : Touch(meta.ready /\ background)
      BY <1>2 DEF StartIndexing
    <2>2. (meta.ready /\ background) \in BOOLEAN
      OBVIOUS
    <2> QED  BY <1>1, <1>2, <2>1, <2>2 DEF StartIndexing
  <1>3. CASE FinishIndexing
    <2>1. CASE ~meta.present /\ UNCHANGED meta
      <3>1. ReadersInv'
        BY <1>0, <1>3, <2>1, IndexKeeps DEF FinishIndexing, KeyInv, IsNow
      <3> QED  BY <1>3, <2>1, <3>1 DEF FinishIndexing, ReadersTypes
    <2>2. ASSUME NEW ready \in {meta.ready, indexer = "published"}, Touch(ready)
          PROVE  ReadersTypes' /\ ReadersInv'
      <3>1. ready \in BOOLEAN
        BY <1>0 DEF MetaType
      <3> QED  BY <1>1, <1>3, <2>2, <3>1 DEF FinishIndexing
    <2> QED  BY <1>3, <2>1, <2>2 DEF FinishIndexing
  <1>4. CASE PublishGraph
    <2>1. /\ indexer = "working" /\ indexer' = "published" /\ UNCHANGED <<cache, readers>>
          /\ graph' \in Graphs /\ meta' \in MetaType
          /\ meta'.present = meta.present /\ meta'.stamp = meta.stamp
          /\ meta.present => graph' = meta'.fp
          /\ current' = [r \in Readers |-> current[r] \union {graph'}]
      BY <1>0, <1>4 DEF PublishGraph, ReadersTypes, MetaType, Graphs
    <2>2. \A key : KeyInv(key) => KeyInv(key)'
      BY <2>1 DEF KeyInv
    <2>3. \A key : KeyInv(key) /\ IsNow(key)' => IsNow(key) /\ graph' = graph
      <3>1. ASSUME NEW key, KeyInv(key), IsNow(key)'
            PROVE  IsNow(key) /\ graph' = graph
        <4>1. key = <<meta'.fp, meta.stamp>> /\ meta.present
          BY <2>1, <3>1 DEF IsNow, Key
        <4>2. meta'.fp = meta.fp
          BY <2>1, <3>1, <4>1 DEF KeyInv
        <4> QED  BY <1>0, <2>1, <4>1, <4>2 DEF IsNow, Key
      <3> QED  BY <3>1
    <2>4. ReadersInv'
      BY <2>1, <2>2, <2>3, IndexKeeps
    <2> QED  BY <2>1, <2>4 DEF ReadersTypes
  <1>5. CASE DeleteRepository
    <2>1. /\ UNCHANGED <<indexer, cache, readers>> /\ graph' = Gone /\ graph' \in Graphs
          /\ meta' \in MetaType /\ ~meta'.present /\ meta'.stamp = meta.stamp
          /\ current' = [r \in Readers |-> current[r] \union {graph'}]
      BY <1>0, <1>5 DEF DeleteRepository, MetaType, Graphs
    <2>2. \A key : KeyInv(key) => KeyInv(key)' /\ ~IsNow(key)'
      BY <2>1 DEF KeyInv, IsNow
    <2>3. ReadersInv'
      BY <2>1, <2>2, IndexKeeps
    <2> QED  BY <2>1, <2>3 DEF ReadersTypes
  <1> QED  BY <1>2, <1>3, <1>4, <1>5 DEF IndexStep

(* Entries leave the cache.                                                *)
LEMMA EvictKeeps ==
    ASSUME ReadersTypes, ReadersInv, EvictOldest
    PROVE  ReadersTypes' /\ ReadersInv'
  <1>1. cache' \in Seq(Entry) /\ Held' \subseteq Held
    BY TailHeld DEF EvictOldest, ReadersTypes
  <1>2. UNCHANGED <<graph, meta, indexer, readers, current>>
    BY DEF EvictOldest
  <1>3. \A r \in Readers : (HasKey(r)' <=> HasKey(r)) /\ (NodesRead(r)' <=> NodesRead(r))
                           /\ (EdgesRead(r)' <=> EdgesRead(r))
    BY <1>2 DEF HasKey, NodesRead, EdgesRead
  <1>4. FreshInv'
    BY <1>1, <1>2, <1>3 DEF ReadersInv, FreshInv, KeyInv, IsNow, Key
  <1>5. SeenInv'
    BY <1>1, <1>2, <1>3 DEF ReadersInv, SeenInv
  <1> QED  BY <1>1, <1>2, <1>4, <1>5 DEF ReadersTypes, ReadersInv

(* A reader goes on with its key: what it adds to what it, or the cache,   *)
(* holds under the key is the graph of now, or was held under it before.   *)
LEMMA ReaderKeeps ==
    ASSUME ReadersTypes, ReadersInv, NEW r \in Readers, UNCHANGED <<graph, meta, indexer, current>>,
           HasKey(r), \A q \in Readers : q # r => readers'[q] = readers[q],
           readers'[r] \in ReaderType, readers'[r].key = readers[r].key, HasKey(r)',
           NodesRead(r)' => \/ readers'[r].nodes = graph
                            \/ NodesRead(r) /\ readers'[r].nodes = readers[r].nodes
                            \/ \E e \in Held : e.key = readers[r].key /\ readers'[r].nodes = e.nodes,
           EdgesRead(r)' => \/ readers'[r].edges = graph
                            \/ EdgesRead(r) /\ readers'[r].edges = readers[r].edges
                            \/ \E e \in Held : e.key = readers[r].key /\ readers'[r].edges = e.edges,
           \A e \in Held' : \/ e \in Held
                            \/ /\ EdgesRead(r) /\ NodesRead(r) /\ e.key = readers[r].key
                               /\ e.nodes = readers[r].nodes /\ e.edges = readers[r].edges
    PROVE  ReadersInv'
  <1>1. PICK key : key = readers[r].key
    OBVIOUS
  <1>2. \A k : (KeyInv(k)' <=> KeyInv(k)) /\ (IsNow(k)' <=> IsNow(k))
    BY DEF KeyInv, IsNow, Key
  <1>3. \A q \in Readers : q # r => /\ (HasKey(q)' <=> HasKey(q)) /\ (NodesRead(q)' <=> NodesRead(q))
                                    /\ (EdgesRead(q)' <=> EdgesRead(q))
    BY DEF HasKey, NodesRead, EdgesRead
  <1>4. KeyInv(key) /\ (IsNow(key) => /\ NodesRead(r)' => readers'[r].nodes = graph
                                      /\ EdgesRead(r)' => readers'[r].edges = graph)
    BY <1>1 DEF ReadersInv, FreshInv
  <1>5. \A e \in Held' : KeyInv(e.key) /\ (IsNow(e.key) => e.nodes = graph /\ e.edges = graph)
    BY <1>1 DEF ReadersInv, FreshInv
  <1>6. FreshInv'
    <2>1. \A e \in Held' : KeyInv(e.key)' /\ (IsNow(e.key)' => e.nodes = graph' /\ e.edges = graph')
      BY <1>2, <1>5
    <2>2. ASSUME NEW q \in Readers, HasKey(q)', NEW k, k = readers'[q].key
          PROVE  KeyInv(k) /\ (IsNow(k) => /\ NodesRead(q)' => readers'[q].nodes = graph
                                           /\ EdgesRead(q)' => readers'[q].edges = graph)
      BY <1>1, <1>3, <1>4, <2>2 DEF ReadersInv, FreshInv
    <2>3. ASSUME NEW q \in Readers, HasKey(q)'
          PROVE  /\ KeyInv(readers[q].key)'
                 /\ IsNow(readers[q].key)' => /\ NodesRead(q)' => readers'[q].nodes = graph'
                                              /\ EdgesRead(q)' => readers'[q].edges = graph'
      BY <2>2, <2>3 DEF KeyInv, IsNow, Key
    <2> QED  BY <2>1, <2>3 DEF ReadersInv, FreshInv
  <1>7. SeenInv'
    <2>1. ASSUME NEW q \in Readers, HasKey(q)'
          PROVE  /\ HasKey(q) /\ readers'[q].key = readers[q].key
      BY <1>3, <2>1
    <2>2. ASSUME NEW q \in Readers, HasKey(q), NEW e \in Held', e.key = readers[q].key
          PROVE  e.nodes \in current[q] /\ e.edges \in current[q]
      BY <2>2 DEF ReadersInv, SeenInv
    <2>3. ASSUME NEW q \in Readers, HasKey(q), readers[q].key = key
          PROVE  /\ NodesRead(r)' => readers'[r].nodes \in current[q]
                 /\ EdgesRead(r)' => readers'[r].edges \in current[q]
      BY <1>1, <2>3 DEF ReadersInv, SeenInv
    <2>4. ASSUME NEW q \in Readers, HasKey(q), NEW p \in Readers, HasKey(p), readers[p].key = readers[q].key
          PROVE  /\ NodesRead(p)' => readers'[p].nodes \in current[q]
                 /\ EdgesRead(p)' => readers'[p].edges \in current[q]
      <3>1. CASE p = r
        BY <1>1, <2>3, <2>4, <3>1
      <3>2. CASE p # r
        BY <1>3, <2>4, <3>2 DEF ReadersInv, SeenInv
      <3> QED  BY <3>1, <3>2
    <2> QED  BY <2>1, <2>2, <2>4 DEF ReadersInv, SeenInv
  <1> QED  BY <1>6, <1>7 DEF ReadersInv

(* A reader without a key comes or goes.                                   *)
LEMMA KeylessKeeps ==
    ASSUME ReadersInv, NEW r \in Readers, UNCHANGED <<graph, meta, indexer, cache>>,
           \A q \in Readers : q # r => readers'[q] = readers[q] /\ current'[q] = current[q],
           ~HasKey(r)'
    PROVE  ReadersInv'
  <1>1. Held' = Held
    BY DEF Held
  <1>2. \A q \in Readers : q # r => /\ (HasKey(q)' <=> HasKey(q)) /\ (NodesRead(q)' <=> NodesRead(q))
                                    /\ (EdgesRead(q)' <=> EdgesRead(q))
    BY DEF HasKey, NodesRead, EdgesRead
  <1>3. FreshInv'
    BY <1>1, <1>2 DEF ReadersInv, FreshInv, KeyInv, IsNow, Key
  <1>4. SeenInv'
    BY <1>1, <1>2 DEF ReadersInv, SeenInv
  <1> QED  BY <1>3, <1>4 DEF ReadersInv

(* A reader takes the key of now.                                          *)
LEMMA KeyKeeps ==
    ASSUME ReadersInv, NEW r \in Readers, UNCHANGED <<graph, meta, indexer, cache>>, meta \in MetaType,
           meta.present, \A q \in Readers : q # r => readers'[q] = readers[q] /\ current'[q] = current[q],
           readers'[r].pc = "keyed", readers'[r].key = Key(meta), current'[r] = {graph}
    PROVE  ReadersInv'
  <1>1. Held' = Held
    BY DEF Held
  <1>2. \A q \in Readers : q # r => /\ (HasKey(q)' <=> HasKey(q)) /\ (NodesRead(q)' <=> NodesRead(q))
                                    /\ (EdgesRead(q)' <=> EdgesRead(q))
    BY DEF HasKey, NodesRead, EdgesRead
  <1>3. HasKey(r)' /\ ~NodesRead(r)' /\ ~EdgesRead(r)'
    BY DEF HasKey, NodesRead, EdgesRead
  <1>4. KeyInv(Key(meta)) /\ IsNow(Key(meta))
    BY DEF KeyInv, IsNow, Key, MetaType
  <1>5. FreshInv'
    BY <1>1, <1>2, <1>3, <1>4 DEF ReadersInv, FreshInv, KeyInv, IsNow, Key
  <1>6. SeenInv'
    BY <1>1, <1>2, <1>3, <1>4 DEF ReadersInv, FreshInv, SeenInv
  <1> QED  BY <1>5, <1>6 DEF ReadersInv

LEMMA ReaderNext ==
    ASSUME ReadersTypes, ReadersInv, NEW r \in Readers, ReaderStep(r)
    PROVE  ReadersTypes' /\ ReadersInv'
  <1>0. /\ graph \in Graphs /\ meta \in MetaType /\ cache \in Seq(Entry)
        /\ readers \in [Readers -> ReaderType] /\ current \in [Readers -> SUBSET Graphs]
    BY DEF ReadersTypes
  <1>1. ASSUME NEW reader \in ReaderType, readers' = [readers EXCEPT ![r] = reader]
        PROVE  /\ readers' \in [Readers -> ReaderType] /\ readers'[r] = reader
               /\ \A q \in Readers : q # r => readers'[q] = readers[q]
    BY <1>0, <1>1
  <1>2. ASSUME NEW pc \in {"idle", "ready", "keyed", "miss", "nodes", "loaded", "done"},
               readers' = [readers EXCEPT ![r].pc = pc]
        PROVE  /\ readers' \in [Readers -> ReaderType]
               /\ readers'[r].pc = pc /\ readers'[r].key = readers[r].key
               /\ readers'[r].nodes = readers[r].nodes /\ readers'[r].edges = readers[r].edges
               /\ \A q \in Readers : q # r => readers'[q] = readers[q]
    BY <1>0, <1>2 DEF ReaderType
  <1>3. CASE CheckReady(r)
    <2>1. readers' \in [Readers -> ReaderType] /\ readers'[r].pc = "ready"
          /\ \A q \in Readers : q # r => readers'[q] = readers[q]
      BY <1>2, <1>3 DEF CheckReady
    <2>2. ReadersInv'
      BY <1>3, <2>1, KeylessKeeps DEF CheckReady, HasKey
    <2> QED  BY <1>3, <2>1, <2>2 DEF CheckReady, ReadersTypes
  <1>4. CASE ReadKey(r)
    <2>1. current' \in [Readers -> SUBSET Graphs] /\ current'[r] = {graph}
          /\ \A q \in Readers : q # r => current'[q] = current[q]
      BY <1>0, <1>4 DEF ReadKey
    <2>2. CASE ~meta.present
      <3>1. readers' \in [Readers -> ReaderType] /\ readers'[r].pc = "idle"
            /\ \A q \in Readers : q # r => readers'[q] = readers[q]
        BY <1>1, <1>4, <2>2, IdleType DEF ReadKey
      <3>2. ReadersInv'
        BY <1>4, <2>1, <3>1, KeylessKeeps DEF ReadKey, HasKey
      <3> QED  BY <1>4, <2>1, <3>1, <3>2 DEF ReadKey, ReadersTypes
    <2>3. CASE meta.present
      <3>1. Key(meta) \in KeyType
        BY <1>0 DEF Key, KeyType, MetaType
      <3>2. /\ readers' \in [Readers -> ReaderType]
            /\ readers'[r].pc = "keyed" /\ readers'[r].key = Key(meta)
            /\ \A q \in Readers : q # r => readers'[q] = readers[q]
        <4>1. PICK key \in KeyType : key = Key(meta)
          BY <3>1
        <4>2. readers' = [readers EXCEPT ![r].pc = "keyed", ![r].key = key]
          BY <1>4, <2>3, <4>1 DEF ReadKey
        <4>3. readers[r] \in ReaderType
          BY <1>0
        <4>4. [readers[r] EXCEPT !.pc = "keyed", !.key = key] \in ReaderType
          BY <4>3 DEF ReaderType
        <4> QED  BY <1>0, <4>1, <4>2, <4>3, <4>4 DEF ReaderType
      <3>3. ReadersInv'
        BY <1>0, <1>4, <2>1, <2>3, <3>2, KeyKeeps DEF ReadKey
      <3> QED  BY <1>4, <2>1, <3>2, <3>3 DEF ReadKey, ReadersTypes
    <2> QED  BY <2>2, <2>3
  <1>5. CASE Hit(r)
    <2>1. PICK i \in Cached(readers[r].key) :
            /\ readers' = [readers EXCEPT ![r].pc = "done", ![r].nodes = cache[i].nodes,
                                          ![r].edges = cache[i].edges]
            /\ cache' = Append(Without(i), cache[i])
      BY <1>5 DEF Hit
    <2>2. i \in DOMAIN cache /\ cache[i].key = readers[r].key /\ cache[i] \in Held /\ cache[i] \in Entry
      BY <1>0 DEF Cached, Held
    <2>3. cache' \in Seq(Entry) /\ Held' \subseteq Held
      BY <1>0, <2>1, <2>2, HitHeld
    <2>4. /\ readers' \in [Readers -> ReaderType]
          /\ readers'[r].pc = "done" /\ readers'[r].key = readers[r].key
          /\ readers'[r].nodes = cache[i].nodes /\ readers'[r].edges = cache[i].edges
          /\ \A q \in Readers : q # r => readers'[q] = readers[q]
      BY <1>0, <2>1, <2>2 DEF ReaderType, Entry
    <2>5. ReadersInv'
      BY <1>5, <2>2, <2>3, <2>4, ReaderKeeps DEF Hit, HasKey
    <2> QED  BY <1>5, <2>3, <2>4, <2>5 DEF Hit, ReadersTypes
  <1>6. CASE Miss(r)
    <2>1. /\ readers' \in [Readers -> ReaderType]
          /\ readers'[r].pc = "miss" /\ readers'[r].key = readers[r].key
          /\ \A q \in Readers : q # r => readers'[q] = readers[q]
      BY <1>2, <1>6 DEF Miss
    <2>2. ReadersInv'
      BY <1>6, <2>1, ReaderKeeps DEF Miss, HasKey, NodesRead, EdgesRead, Held
    <2> QED  BY <1>6, <2>1, <2>2 DEF Miss, ReadersTypes
  <1>7. CASE ReadNodes(r)
    <2>1. /\ readers' \in [Readers -> ReaderType]
          /\ readers'[r].pc = "nodes" /\ readers'[r].key = readers[r].key /\ readers'[r].nodes = graph
          /\ \A q \in Readers : q # r => readers'[q] = readers[q]
      BY <1>0, <1>7 DEF ReadNodes, ReaderType
    <2>2. ReadersInv'
      BY <1>7, <2>1, ReaderKeeps DEF ReadNodes, HasKey, NodesRead, EdgesRead, Held
    <2> QED  BY <1>7, <2>1, <2>2 DEF ReadNodes, ReadersTypes
  <1>8. CASE ReadEdges(r)
    <2>1. /\ readers' \in [Readers -> ReaderType]
          /\ readers'[r].pc = "loaded" /\ readers'[r].key = readers[r].key
          /\ readers'[r].nodes = readers[r].nodes /\ readers'[r].edges = graph
          /\ \A q \in Readers : q # r => readers'[q] = readers[q]
      BY <1>0, <1>8 DEF ReadEdges, ReaderType
    <2>2. ReadersInv'
      BY <1>8, <2>1, ReaderKeeps DEF ReadEdges, HasKey, NodesRead, EdgesRead, Held
    <2> QED  BY <1>8, <2>1, <2>2 DEF ReadEdges, ReadersTypes
  <1>9. CASE Store(r)
    <2> DEFINE entry == [key |-> readers[r].key, nodes |-> readers[r].nodes, edges |-> readers[r].edges]
    <2>1. entry \in Entry /\ entry.key = readers[r].key /\ entry.nodes = readers[r].nodes
          /\ entry.edges = readers[r].edges
      BY <1>0 DEF ReaderType, Entry
    <2>2. cache' = Insert(entry) \/ cache' = cache
      BY <1>9 DEF Store
    <2> HIDE DEF entry
    <2>3. cache' \in Seq(Entry) /\ Held' \subseteq Held \union {entry}
      BY <1>0, <2>1, <2>2, InsertHeld DEF Held
    <2>4. /\ readers' \in [Readers -> ReaderType]
          /\ readers'[r].pc = "done" /\ readers'[r].key = readers[r].key
          /\ readers'[r].nodes = readers[r].nodes /\ readers'[r].edges = readers[r].edges
          /\ \A q \in Readers : q # r => readers'[q] = readers[q]
      BY <1>2, <1>9 DEF Store
    <2>5. HasKey(r) /\ NodesRead(r) /\ EdgesRead(r) /\ HasKey(r)'
      BY <1>9, <2>4 DEF Store, HasKey, NodesRead, EdgesRead
    <2>6. ReadersInv'
      BY <1>9, <2>1, <2>3, <2>4, <2>5, ReaderKeeps DEF Store
    <2> QED  BY <1>9, <2>3, <2>4, <2>6 DEF Store, ReadersTypes
  <1>10. CASE Respond(r)
    <2>1. current' \in [Readers -> SUBSET Graphs] /\ \A q \in Readers : q # r => current'[q] = current[q]
      BY <1>0, <1>10 DEF Respond
    <2>2. readers' \in [Readers -> ReaderType] /\ readers'[r].pc = "idle"
          /\ \A q \in Readers : q # r => readers'[q] = readers[q]
      BY <1>1, <1>10, IdleType DEF Respond
    <2>3. ReadersInv'
      BY <1>10, <2>1, <2>2, KeylessKeeps DEF Respond, HasKey
    <2> QED  BY <1>10, <2>1, <2>2, <2>3 DEF Respond, ReadersTypes
  <1> QED  BY <1>3, <1>4, <1>5, <1>6, <1>7, <1>8, <1>9, <1>10 DEF ReaderStep

LEMMA ReadersNext == ReadersTypes /\ ReadersInv /\ [Next]_vars => ReadersTypes' /\ ReadersInv'
  <1> SUFFICES ASSUME ReadersTypes, ReadersInv, [Next]_vars PROVE ReadersTypes' /\ ReadersInv'
    OBVIOUS
  <1>1. CASE UNCHANGED vars
    BY <1>1 DEF vars, ReadersTypes, ReadersInv, FreshInv, SeenInv, KeyInv, IsNow, Key, Held,
       HasKey, NodesRead, EdgesRead
  <1> QED  BY <1>1, IndexNext, EvictKeeps, ReaderNext DEF Next

LEMMA ReadersHold == Spec => [](ReadersTypes /\ ReadersInv)
  BY ReadersInit, ReadersNext, PTL DEF Spec

(* "A changed fingerprint/updated timestamp invalidates the bounded        *)
(* process snapshot cache": whatever was loaded while an earlier graph was *)
(* replaced, also when the source goes back to an earlier state, a         *)
(* snapshot found under the repository's metadata is the whole graph that  *)
(* it has now.                                                             *)
THEOREM CurrentKeyIsCurrentHolds == Spec => []CurrentKeyIsCurrent
  <1>1. ReadersInv => CurrentKeyIsCurrent
    BY DEF ReadersInv, FreshInv, IsNow, CurrentKeyIsCurrent, Held
  <1> QED  BY <1>1, ReadersHold, PTL

(* No reader is given nodes or edges that were already replaced when it    *)
(* read the metadata, whoever loaded the snapshot it is given.             *)
THEOREM NoStaleReadHolds == Spec => []NoStaleRead
  <1>1. ReadersInv => NoStaleRead
    BY DEF ReadersInv, SeenInv, HasKey, NodesRead, EdgesRead, NoStaleRead
  <1> QED  BY <1>1, ReadersHold, PTL
=============================================================================
