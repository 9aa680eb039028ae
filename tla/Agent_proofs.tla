---------------------------- MODULE Agent_proofs ----------------------------
(***************************************************************************)
(* Theorems about Agent, for every value of its constants.                 *)
(***************************************************************************)
EXTENDS Agent, SequenceTheorems, TLAPS

(* A call is a record of these fields; their types do not matter here.     *)
Fields == {"pc", "ask", "session", "nodes", "kind", "past", "seeds", "budget", "shown", "seen",
           "edges", "round", "answer"}

IsCall(call) == call = [f \in Fields |-> call[f]]

(* What the citations are checked against was shown.                       *)
Recorded(call) == call.seen \subseteq call.shown /\ call.edges \subseteq call.shown

Backed(call) ==
    call.pc = "answered" =>
        /\ call.answer.symbols \subseteq call.shown \union call.answer.impact
        /\ call.answer.edges \subseteq call.shown

(* What every call keeps.                                                  *)
CallInv(call) == IsCall(call) /\ Recorded(call) /\ Backed(call)

EvidenceInv ==
    /\ calls = [c \in Calls |-> calls[c]]
    /\ \A c \in Calls : CallInv(calls[c])

-----------------------------------------------------------------------------
LEMMA IdleCallInv == CallInv(Idle)
  BY DEF CallInv, IsCall, Fields, Recorded, Backed, Idle, NoAnswer

(* Tools only add to the evidence, and record what they add.               *)
LEMMA RunRecords ==
    ASSUME NEW call, CallInv(call), call.pc # "answered", NEW next \in Run(call)
    PROVE  CallInv(next) /\ next.pc = call.pc
  <1>1. PICK e \in Bounded(call.nodes \union Edges, call.budget) :
            next = [call EXCEPT !.budget = e.left, !.shown = @ \union e.shown,
                                !.seen = @ \union (e.shown \intersect call.nodes),
                                !.edges = @ \union (e.shown \intersect Edges)]
    BY DEF Run
  <1>2. IsCall(next)
    BY <1>1 DEF CallInv, IsCall, Fields
  <1>3. /\ next.pc = call.pc
        /\ next.shown = call.shown \union e.shown
        /\ next.seen = call.seen \union (e.shown \intersect call.nodes)
        /\ next.edges = call.edges \union (e.shown \intersect Edges)
    BY <1>1 DEF CallInv, IsCall, Fields
  <1>4. Recorded(next) /\ Backed(next)
    BY <1>3 DEF CallInv, Recorded, Backed
  <1> QED  BY <1>2, <1>3, <1>4 DEF CallInv

(* A step of one thread that leaves the others alone.                      *)
LEMMA OneCall ==
    ASSUME EvidenceInv, NEW c \in Calls, NEW call, CallInv(call),
           calls' = [calls EXCEPT ![c] = call]
    PROVE  EvidenceInv'
  BY DEF EvidenceInv

-----------------------------------------------------------------------------
LEMMA EvidenceInit == Init => EvidenceInv
  BY IdleCallInv DEF Init, EvidenceInv

LEMMA EvidenceAsk ==
    ASSUME EvidenceInv, NEW c \in Calls, Ask(c)
    PROVE  EvidenceInv'
  <1>1. PICK s \in Sessions, graph \in SUBSET Symbols, kind \in {"whole", "torn"} :
        /\ \E selected \in graph \union {None}, referred \in {sessions[s].symbol, None},
              found \in Found(graph) :
            calls' = [calls EXCEPT ![c] =
                [Idle EXCEPT !.pc = "gather", !.ask = asked', !.session = s, !.nodes = graph,
                             !.kind = kind, !.past = sessions[s].messages, !.budget = ContextSize,
                             !.seeds = Seeds(graph, selected, referred, found)]]
        /\ overlapped' =
            IF \E d \in Calls : calls[d].session = s /\ calls[d].pc \in {"gather", "model"}
            THEN overlapped \union {s} ELSE overlapped
    BY Zenon DEF Ask
  <1>2. PICK selected \in graph \union {None}, referred \in {sessions[s].symbol, None},
             found \in Found(graph) :
            calls' = [calls EXCEPT ![c] =
                [Idle EXCEPT !.pc = "gather", !.ask = asked', !.session = s, !.nodes = graph,
                             !.kind = kind, !.past = sessions[s].messages, !.budget = ContextSize,
                             !.seeds = Seeds(graph, selected, referred, found)]]
    BY <1>1
  <1> DEFINE call == [Idle EXCEPT !.pc = "gather", !.ask = asked', !.session = s, !.nodes = graph,
                             !.kind = kind, !.past = sessions[s].messages, !.budget = ContextSize,
                             !.seeds = Seeds(graph, selected, referred, found)]
  <1>3. CallInv(call)
    BY DEF CallInv, IsCall, Fields, Recorded, Backed, Idle, NoAnswer
  <1>4. calls' = [calls EXCEPT ![c] = call]
    BY <1>2
  <1> HIDE DEF call
  <1> QED  BY <1>3, <1>4, OneCall

LEMMA RaisedEvidence ==
    ASSUME EvidenceInv, NEW c \in Calls, NEW kind, calls' = Raised(c, kind)
    PROVE  EvidenceInv'
  <1> DEFINE call == [Idle EXCEPT !.pc = "raised", !.kind = kind]
  <1>1. CallInv(call)
    BY DEF CallInv, IsCall, Fields, Recorded, Backed, Idle, NoAnswer
  <1>2. calls' = [calls EXCEPT ![c] = call]
    BY DEF Raised
  <1> HIDE DEF call
  <1> QED  BY <1>1, <1>2, OneCall

LEMMA EvidenceTools ==
    ASSUME EvidenceInv, NEW c \in Calls, Gather(c) \/ CallTools(c)
    PROVE  EvidenceInv'
  <1>0. CallInv(calls[c])
    BY DEF EvidenceInv
  <1>1. ASSUME Gather(c), NEW next \in Run(calls[c]),
               calls' = [calls EXCEPT ![c] = [next EXCEPT !.pc = "model"]]
        PROVE  EvidenceInv'
    <2>2. CallInv(next)
      BY <1>0, <1>1, RunRecords DEF Gather
    <2>3. CallInv([next EXCEPT !.pc = "model"])
      BY <2>2 DEF CallInv, IsCall, Fields, Recorded, Backed
    <2> QED  BY <1>1, <2>3, OneCall
  <1>2. ASSUME NEW kind, calls' = Raised(c, kind) PROVE EvidenceInv'
    BY <1>2, RaisedEvidence
  <1>3. CASE CallTools(c)
    <2>1. PICK next \in Run(calls[c]) : calls' = [calls EXCEPT ![c] = [next EXCEPT !.round = @ + 1]]
      BY <1>3 DEF CallTools
    <2>2. CallInv(next)
      BY <1>0, <1>3, RunRecords DEF CallTools
    <2>3. CallInv([next EXCEPT !.round = @ + 1])
      BY <2>2 DEF CallInv, IsCall, Fields, Recorded, Backed
    <2> QED  BY <2>1, <2>3, OneCall
  <1> QED  BY <1>1, <1>2, <1>3 DEF Gather, Missed

(* What is cited was recorded, or is in the computed impact.               *)
LEMMA CitedRecorded ==
    ASSUME NEW call, NEW reply \in Replies(call), NEW impact
    PROVE  /\ Cited(call, reply, impact) \subseteq call.seen \union impact
           /\ reply.edges \subseteq call.edges
  <1>1. reply.edges \subseteq call.edges
    BY DEF Replies, Valid
  <1>2. Cited(call, reply, impact) \subseteq call.seen \union impact
    BY DEF Cited
  <1> QED  BY <1>1, <1>2

LEMMA EvidenceSave ==
    ASSUME EvidenceInv, NEW c \in Calls, Save(c) \/ SaveFails(c) \/ Respond(c)
    PROVE  EvidenceInv'
  <1>0. CallInv(calls[c])
    BY DEF EvidenceInv
  <1>1. ASSUME NEW reply \in Replies(calls[c]), NEW impact \in SUBSET calls[c].nodes,
               Answer(c, reply, impact)
        PROVE  EvidenceInv'
    <2> DEFINE cited == Cited(calls[c], reply, impact)
               call == [Idle EXCEPT !.pc = "answered", !.shown = calls[c].shown,
                          !.answer = [symbols |-> cited, edges |-> reply.edges, impact |-> impact]]
    <2>2. calls' = [calls EXCEPT ![c] = call]
      BY <1>1 DEF Answer
    <2>3. cited \subseteq calls[c].shown \union impact /\ reply.edges \subseteq calls[c].shown
      BY <1>0, CitedRecorded DEF CallInv, Recorded
    <2> HIDE DEF cited
    <2>4. CallInv(call)
      BY <2>3 DEF CallInv, IsCall, Fields, Recorded, Backed, Idle
    <2> HIDE DEF call
    <2> QED  BY <2>2, <2>4, OneCall
  <1>2. ASSUME NEW kind, calls' = Raised(c, kind) PROVE EvidenceInv'
    BY <1>2, RaisedEvidence
  <1>3. CASE SaveFails(c) \/ Respond(c)
    BY <1>3, IdleCallInv, OneCall DEF SaveFails, Respond
  <1> QED  BY <1>1, <1>2, <1>3 DEF Save, Missed

LEMMA EvidenceNext == EvidenceInv /\ [Next]_vars => EvidenceInv'
  <1> SUFFICES ASSUME EvidenceInv, [Next]_vars PROVE EvidenceInv'
    OBVIOUS
  <1>1. CASE UNCHANGED vars
    BY <1>1 DEF vars, EvidenceInv
  <1>2. ASSUME NEW c \in Calls, Ask(c) \/ AskOfNothing(c) \/ Answering(c) PROVE EvidenceInv'
    BY <1>2, EvidenceAsk, RaisedEvidence, EvidenceTools, EvidenceSave DEF Answering, AskOfNothing
  <1> QED  BY <1>1, <1>2 DEF Next

(* An answer cites symbols that were in the bounded evidence of its own    *)
(* question, or in its computed impact, and relationships that were in the *)
(* evidence: however many threads answer, whatever the tools find, the     *)
(* budget leaves and the model replies, in any number of rounds.           *)
THEOREM EvidenceBackedHolds == Spec => []EvidenceBacked
  <1>1. EvidenceInv => EvidenceBacked
    BY DEF EvidenceInv, CallInv, Backed, EvidenceBacked
  <1> QED  BY <1>1, EvidenceInit, EvidenceNext, PTL DEF Spec

-----------------------------------------------------------------------------
(* Every question is answered.                                             *)

LEMMA RemovedOne ==
    ASSUME NEW S, NEW s \in Seq(S), NEW x
    PROVE  Without(s, x) \in Seq(S)
  <1>1. CASE x \in ToSet(s)
    <2> DEFINE i == CHOOSE j \in DOMAIN s : s[j] = x
    <2>1. i \in DOMAIN s
      BY <1>1 DEF ToSet
    <2> HIDE DEF i
    <2>2. i \in 1..Len(s) /\ Len(s) \in Nat
      BY <2>1
    <2>3. SubSeq(s, 1, i - 1) \in Seq(S)
      <3>1. \A j \in 1..(i - 1) : s[j] \in S
        BY <2>2
      <3> QED  BY <2>2, <3>1, SubSeqProperties
    <2>4. SubSeq(s, i + 1, Len(s)) \in Seq(S)
      <3>1. \A j \in (i + 1)..Len(s) : s[j] \in S
        BY <2>2
      <3> QED  BY <2>2, <3>1, SubSeqProperties
    <2>5. RemoveAt(s, i) \in Seq(S)
      BY <2>3, <2>4, ConcatProperties DEF RemoveAt
    <2> QED  BY <1>1, <2>5 DEF Without, i
  <1>2. CASE x \notin ToSet(s)
    BY <1>2 DEF Without
  <1> QED  BY <1>1, <1>2

LEMMA MinOfTwo ==
    ASSUME NEW a \in Int, NEW b \in Int
    PROVE  Min({a, b}) = IF a <= b THEN a ELSE b
  BY DEF Min

LEMMA MaxOfTwo ==
    ASSUME NEW a \in Int, NEW b \in Int
    PROVE  Max({a, b}) = IF a >= b THEN a ELSE b
  BY DEF Max

(* A question starts from symbols of its own graph, whatever symbol its    *)
(* conversation was about.                                                 *)
LEMMA SeedsOfGraph ==
    ASSUME NEW graph, None \notin graph, NEW selected \in graph \union {None}, NEW referred,
           NEW found \in Found(graph)
    PROVE  Seeds(graph, selected, referred, found) \in Seq(graph)
  <1>1. found \in Seq(graph)
    <2>1. PICK n \in 0..MaxSeeds : found \in [1..n -> graph]
      BY DEF Found, SeqOf
    <2>2. n \in Nat
      BY <2>1, AgentBounds
    <2> QED  BY <2>1, <2>2
  <1>2. ASSUME NEW x \in graph PROVE <<x>> \o Without(found, x) \in Seq(graph)
    <2>1. <<x>> \in Seq(graph) /\ Without(found, x) \in Seq(graph)
      BY <1>1, <1>2, RemovedOne
    <2> QED  BY <2>1, ConcatProperties
  <1>3. ASSUME NEW s \in Seq(graph) PROVE FirstSeeds(s) \in Seq(graph)
    <2> DEFINE n == Min({MaxSeeds, Len(s)})
    <2>1. Len(s) \in Nat /\ MaxSeeds \in Nat
      BY AgentBounds
    <2>2. n \in Nat /\ n <= Len(s)
      BY <2>1, MinOfTwo
    <2> HIDE DEF n
    <2>3. \A j \in 1..n : s[j] \in graph
      BY <2>1, <2>2
    <2>4. SubSeq(s, 1, n) \in Seq(graph)
      BY <2>2, <2>3, SubSeqProperties
    <2> QED  BY <2>4 DEF FirstSeeds, n
  <1>4. CASE selected # None
    BY <1>2, <1>4 DEF Seeds
  <1>5. CASE selected = None /\ referred \in graph
    BY <1>2, <1>3, <1>5 DEF Seeds
  <1>6. CASE selected = None /\ referred \notin graph
    BY <1>1, <1>6 DEF Seeds
  <1> QED  BY <1>4, <1>5, <1>6

(* What a call that is not answered yet has to go on.                      *)
GoesOn(call) ==
    /\ call.pc = "raised" => call.kind \in {"torn", "empty"}
    /\ call.pc \in {"gather", "model"} =>
        call.seen \subseteq call.nodes /\ call.nodes \subseteq Symbols /\ call.seeds \in Seq(call.nodes)

AnswersInv == \A c \in Calls : GoesOn(calls[c])

LEMMA RunGoesOn ==
    ASSUME NEW call, CallInv(call), NEW next \in Run(call)
    PROVE  /\ next.pc = call.pc /\ next.nodes = call.nodes /\ next.seeds = call.seeds
           /\ next.seen \subseteq call.seen \union call.nodes
           /\ next.ask = call.ask /\ next.session = call.session /\ next.past = call.past
           /\ IsCall(next)
  <1>1. PICK e \in Bounded(call.nodes \union Edges, call.budget) :
            next = [call EXCEPT !.budget = e.left, !.shown = @ \union e.shown,
                                !.seen = @ \union (e.shown \intersect call.nodes),
                                !.edges = @ \union (e.shown \intersect Edges)]
    BY DEF Run
  <1> QED  BY <1>1 DEF CallInv, IsCall, Fields

NewCall(ask, s, past, graph, kind, seeds) ==
    [Idle EXCEPT !.pc = "gather", !.ask = ask, !.session = s, !.nodes = graph, !.kind = kind,
                 !.past = past, !.budget = ContextSize, !.seeds = seeds]

(* What each step makes of the call that takes it.                         *)
LEMMA AskMakes ==
    ASSUME EvidenceInv, NEW c \in Calls, Ask(c)
    PROVE  \E s \in Sessions, graph \in SUBSET Symbols, kind \in {"whole", "torn"},
              seeds \in Seq(Symbols) :
              /\ seeds \in Seq(graph)
              /\ calls' = [calls EXCEPT ![c] =
                    NewCall(asked', s, sessions[s].messages, graph, kind, seeds)]
              /\ overlapped' =
                    IF \E d \in Calls : calls[d].session = s /\ calls[d].pc \in {"gather", "model"}
                    THEN overlapped \union {s} ELSE overlapped
  <1>1. PICK s \in Sessions, graph \in SUBSET Symbols, kind \in {"whole", "torn"} :
        /\ \E selected \in graph \union {None}, referred \in {sessions[s].symbol, None},
              found \in Found(graph) :
            calls' = [calls EXCEPT ![c] =
                [Idle EXCEPT !.pc = "gather", !.ask = asked', !.session = s, !.nodes = graph,
                             !.kind = kind, !.past = sessions[s].messages, !.budget = ContextSize,
                             !.seeds = Seeds(graph, selected, referred, found)]]
        /\ overlapped' =
            IF \E d \in Calls : calls[d].session = s /\ calls[d].pc \in {"gather", "model"}
            THEN overlapped \union {s} ELSE overlapped
    BY Zenon DEF Ask
  <1>2. PICK selected \in graph \union {None}, referred \in {sessions[s].symbol, None},
             found \in Found(graph) :
            calls' = [calls EXCEPT ![c] =
                [Idle EXCEPT !.pc = "gather", !.ask = asked', !.session = s, !.nodes = graph,
                             !.kind = kind, !.past = sessions[s].messages, !.budget = ContextSize,
                             !.seeds = Seeds(graph, selected, referred, found)]]
    BY <1>1
  <1>3. /\ Seeds(graph, selected, referred, found) \in Seq(graph)
        /\ Seeds(graph, selected, referred, found) \in Seq(Symbols)
    BY SeedsOfGraph, AgentBounds
  <1>4. calls' = [calls EXCEPT ![c] =
            NewCall(asked', s, sessions[s].messages, graph, kind,
                    Seeds(graph, selected, referred, found))]
    BY <1>2 DEF NewCall
  <1> QED  BY <1>1, <1>3, <1>4, Zenon

LEMMA ToolsMake ==
    ASSUME EvidenceInv, AnswersInv, NEW c \in Calls, Gather(c) \/ CallTools(c)
    PROVE  \/ calls[c].kind = "torn" /\ calls' = Raised(c, "torn")
           \/ \E call :
              /\ calls' = [calls EXCEPT ![c] = call]
              /\ calls[c].pc \in {"gather", "model"} /\ call.pc = "model"
              /\ call.nodes = calls[c].nodes /\ call.seeds = calls[c].seeds
              /\ call.seen \subseteq calls[c].nodes
              /\ call.ask = calls[c].ask /\ call.session = calls[c].session /\ call.past = calls[c].past
  <1>0. CallInv(calls[c]) /\ GoesOn(calls[c])
    BY DEF EvidenceInv, AnswersInv
  <1>1. CASE Gather(c) /\ ~Missed(c)
    <2>1. calls[c].pc = "gather" /\ ToSet(calls[c].seeds) \subseteq calls[c].nodes
      BY <1>0, <1>1 DEF Gather, GoesOn, ToSet
    <2>2. PICK next \in Run(calls[c]) : calls' = [calls EXCEPT ![c] = [next EXCEPT !.pc = "model"]]
      BY <1>1, <2>1 DEF Gather, Missed
    <2> DEFINE call == [next EXCEPT !.pc = "model"]
    <2>3. /\ call.pc = "model" /\ call.nodes = next.nodes /\ call.seeds = next.seeds
          /\ call.seen = next.seen
          /\ call.ask = next.ask /\ call.session = next.session /\ call.past = next.past
      BY <1>0, RunGoesOn DEF IsCall, Fields
    <2>4. next.seen \subseteq calls[c].nodes
      BY <1>0, <2>1, RunGoesOn DEF GoesOn
    <2> HIDE DEF call
    <2>5. calls' = [calls EXCEPT ![c] = call]
      BY <2>2 DEF call
    <2>6. /\ next.pc = calls[c].pc /\ next.nodes = calls[c].nodes /\ next.seeds = calls[c].seeds
          /\ next.ask = calls[c].ask /\ next.session = calls[c].session /\ next.past = calls[c].past
      BY <1>0, RunGoesOn
    <2> QED  BY <2>1, <2>3, <2>4, <2>5, <2>6
  <1>2. CASE CallTools(c)
    <2>1. calls[c].pc = "model"
      BY <1>2 DEF CallTools
    <2>2. PICK next \in Run(calls[c]) : calls' = [calls EXCEPT ![c] = [next EXCEPT !.round = @ + 1]]
      BY <1>2 DEF CallTools
    <2> DEFINE call == [next EXCEPT !.round = @ + 1]
    <2>3. /\ call.pc = next.pc /\ call.nodes = next.nodes /\ call.seeds = next.seeds
          /\ call.seen = next.seen
          /\ call.ask = next.ask /\ call.session = next.session /\ call.past = next.past
      BY <1>0, RunGoesOn DEF IsCall, Fields
    <2>4. next.seen \subseteq calls[c].nodes
      BY <1>0, <2>1, RunGoesOn DEF GoesOn
    <2> HIDE DEF call
    <2>5. calls' = [calls EXCEPT ![c] = call]
      BY <2>2 DEF call
    <2>6. /\ next.pc = calls[c].pc /\ next.nodes = calls[c].nodes /\ next.seeds = calls[c].seeds
          /\ next.ask = calls[c].ask /\ next.session = calls[c].session /\ next.past = calls[c].past
      BY <1>0, RunGoesOn
    <2> QED  BY <2>1, <2>3, <2>4, <2>5, <2>6
  <1>3. CASE Missed(c)
    BY <1>3 DEF Missed
  <1> QED  BY <1>1, <1>2, <1>3

LEMMA SaveMakes ==
    ASSUME AnswersInv, NEW c \in Calls, Save(c)
    PROVE  \/ Missed(c) /\ UNCHANGED <<sessions, answered>>
           \/ \E reply \in Replies(calls[c]), impact \in SUBSET calls[c].nodes : Answer(c, reply, impact)
  BY DEF Save, AnswersInv, GoesOn

LEMMA AnswersNext ==
    ASSUME EvidenceInv, AnswersInv, [Next]_vars
    PROVE  AnswersInv'
  <1>0. calls = [c \in Calls |-> calls[c]]
    BY DEF EvidenceInv
  <1>1. ASSUME NEW c \in Calls, NEW call, calls' = [calls EXCEPT ![c] = call], GoesOn(call)
        PROVE  AnswersInv'
    BY <1>0, <1>1 DEF AnswersInv
  <1>2. CASE UNCHANGED vars
    BY <1>2 DEF vars, AnswersInv
  <1>7. ASSUME NEW c \in Calls, NEW kind \in {"torn", "empty"}, calls' = Raised(c, kind)
        PROVE  AnswersInv'
    <2> DEFINE call == [Idle EXCEPT !.pc = "raised", !.kind = kind]
    <2>1. GoesOn(call)
      BY DEF GoesOn, Idle
    <2>2. calls' = [calls EXCEPT ![c] = call]
      BY <1>7 DEF Raised
    <2> HIDE DEF call
    <2> QED  BY <1>1, <2>1, <2>2
  <1>3. ASSUME NEW c \in Calls, Ask(c) PROVE AnswersInv'
    <2>0. Ask(c)
      BY <1>3
    <2>1. PICK s \in Sessions, graph \in SUBSET Symbols, kind \in {"whole", "torn"},
            seeds \in Seq(Symbols) :
            /\ seeds \in Seq(graph)
            /\ calls' = [calls EXCEPT ![c] =
                  NewCall(asked', s, sessions[s].messages, graph, kind, seeds)]
      BY <2>0, AskMakes
    <2> DEFINE call == NewCall(asked', s, sessions[s].messages, graph, kind, seeds)
    <2>2. call.pc = "gather" /\ call.nodes = graph /\ call.seeds = seeds /\ call.seen = {}
      BY DEF Idle, NewCall
    <2> HIDE DEF call
    <2>3. GoesOn(call)
      BY <2>1, <2>2 DEF GoesOn
    <2>4. calls' = [calls EXCEPT ![c] = call]
      BY <2>1 DEF call
    <2> QED  BY <1>1, <2>3, <2>4
  <1>4. ASSUME NEW c \in Calls, Gather(c) \/ CallTools(c) PROVE AnswersInv'
    <2>1. ASSUME NEW call,
                 calls' = [calls EXCEPT ![c] = call],
                 calls[c].pc \in {"gather", "model"}, call.pc = "model",
                 call.nodes = calls[c].nodes, call.seeds = calls[c].seeds,
                 call.seen \subseteq calls[c].nodes
          PROVE  AnswersInv'
      <3>1. GoesOn(call)
        BY <2>1 DEF AnswersInv, GoesOn
      <3> QED  BY <1>1, <2>1, <3>1
    <2>2. CASE calls' = Raised(c, "torn")
      BY <1>7, <2>2
    <2> QED  BY <1>4, <2>1, <2>2, ToolsMake
  <1>5. ASSUME NEW c \in Calls, NEW reply \in Replies(calls[c]),
               NEW impact \in SUBSET calls[c].nodes, Answer(c, reply, impact)
        PROVE  AnswersInv'
    <2> DEFINE cited == Cited(calls[c], reply, impact)
               call == [Idle EXCEPT !.pc = "answered", !.shown = calls[c].shown,
                          !.answer = [symbols |-> cited, edges |-> reply.edges, impact |-> impact]]
    <2>2. calls' = [calls EXCEPT ![c] = call]
      BY <1>5 DEF Answer
    <2> HIDE DEF cited
    <2>3. GoesOn(call)
      BY DEF GoesOn, Idle
    <2> HIDE DEF call
    <2> QED  BY <1>1, <2>2, <2>3
  <1>6. ASSUME NEW c \in Calls, SaveFails(c) \/ Respond(c) PROVE AnswersInv'
    <2>1. GoesOn(Idle)
      BY DEF GoesOn, Idle
    <2> QED  BY <1>1, <1>6, <2>1 DEF SaveFails, Respond
  <1>8. ASSUME NEW c \in Calls, Save(c) PROVE AnswersInv'
    BY <1>5, <1>7, <1>8, SaveMakes DEF Missed
  <1>9. ASSUME NEW c \in Calls, AskOfNothing(c) PROVE AnswersInv'
    BY <1>7, <1>9 DEF AskOfNothing
  <1> QED  BY <1>2, <1>3, <1>4, <1>6, <1>8, <1>9 DEF Next, Answering

(* A question about a graph that was read whole never ends with an         *)
(* exception of its own: it starts from symbols of the graph it is         *)
(* answered from, and what it records as seen are symbols of that graph    *)
(* (reasoning.py, ask).                                                    *)
THEOREM AlwaysAnswersHolds == Spec => []AlwaysAnswers
  <1>1. Init => EvidenceInv /\ AnswersInv
    BY EvidenceInit DEF Init, AnswersInv, GoesOn, Idle
  <1>2. EvidenceInv /\ AnswersInv /\ [Next]_vars => (EvidenceInv /\ AnswersInv)'
    BY EvidenceNext, AnswersNext
  <1>3. AnswersInv => AlwaysAnswers
    BY DEF AnswersInv, GoesOn, AlwaysAnswers
  <1> QED  BY <1>1, <1>2, <1>3, PTL DEF Spec

-----------------------------------------------------------------------------
(* A conversation is its newest answered questions.                        *)

Message == [role : {"user", "assistant"}, ask : Nat]

Turn == [ask : Nat, about : Symbols \union {None}]

(* The messages of the answered questions, the i-th of all.                *)
MessageOf(turns, i) ==
    [role |-> IF i % 2 = 1 THEN "user" ELSE "assistant", ask |-> turns[(i + 1) \div 2].ask]

(* These messages are the newest ones of these questions.                  *)
Turned(messages, turns) ==
    /\ Len(messages) = IF MaxMessages <= 2 * Len(turns) THEN MaxMessages ELSE 2 * Len(turns)
    /\ \A i \in 1..Len(messages) :
          messages[i] = MessageOf(turns, 2 * Len(turns) - Len(messages) + i)

AboutOf(turns) == IF turns = <<>> THEN None ELSE Last(turns).about

Active(c) == calls[c].pc \in {"gather", "model"}

ConversationTypes ==
    /\ asked \in Nat
    /\ sessions \in [Sessions -> [messages : Seq(Message), symbol : Symbols \union {None}]]
    /\ answered \in [Sessions -> Seq(Turn)]
    /\ \A c \in Calls : Active(c) =>
        /\ calls[c].session \in Sessions /\ calls[c].ask \in Nat
        /\ calls[c].past \in Seq(Message)

(* Two questions that overlap are known to.                                *)
AloneInv ==
    \A c, d \in Calls :
        Active(c) /\ Active(d) /\ calls[c].session = calls[d].session =>
            c = d \/ calls[c].session \in overlapped

(* A question that is alone answers the conversation as it still is.       *)
PastInv ==
    \A c \in Calls : Active(c) =>
        \/ calls[c].session \in overlapped
        \/ calls[c].past = sessions[calls[c].session].messages

TurnedInv ==
    \A s \in Sessions : s \notin overlapped =>
        /\ Turned(sessions[s].messages, answered[s])
        /\ sessions[s].symbol = AboutOf(answered[s])

ConversationInv == ConversationTypes /\ AloneInv /\ PastInv /\ TurnedInv

(* An answer leaves a conversation the newest messages, with its own.      *)
LEMMA OldMessage ==
    ASSUME NEW turns \in Seq(Turn), NEW t \in Turn, NEW i \in 1..(2 * Len(turns))
    PROVE  MessageOf(Append(turns, t), i) = MessageOf(turns, i)
  <1>1. Len(turns) \in Nat
    OBVIOUS
  <1>2. (i + 1) \div 2 \in 1..Len(turns)
    BY <1>1
  <1> DEFINE n == (i + 1) \div 2
  <1>3. Append(turns, t)[n] = turns[n]
    BY <1>2, AppendProperties
  <1> QED  BY <1>3 DEF MessageOf

LEMMA NewMessages ==
    ASSUME NEW turns \in Seq(Turn), NEW t \in Turn
    PROVE  LET n == Len(turns) IN
           /\ MessageOf(Append(turns, t), 2 * n + 1) = [role |-> "user", ask |-> t.ask]
           /\ MessageOf(Append(turns, t), 2 * n + 2) = [role |-> "assistant", ask |-> t.ask]
  <1> DEFINE n == Len(turns)
  <1>1. n \in Nat /\ Append(turns, t)[n + 1] = t
    BY AppendProperties
  <1> HIDE DEF n
  <1>2. /\ (2 * n + 1) % 2 = 1 /\ ((2 * n + 1) + 1) \div 2 = n + 1
        /\ (2 * n + 2) % 2 # 1 /\ ((2 * n + 2) + 1) \div 2 = n + 1
    BY <1>1
  <1>3. MessageOf(Append(turns, t), 2 * n + 1) = [role |-> "user", ask |-> t.ask]
    BY <1>1, <1>2 DEF MessageOf
  <1>4. MessageOf(Append(turns, t), 2 * n + 2) = [role |-> "assistant", ask |-> t.ask]
    BY <1>1, <1>2 DEF MessageOf
  <1> QED  BY <1>3, <1>4 DEF n

LEMMA TurnedExtends ==
    ASSUME NEW turns \in Seq(Turn), NEW messages \in Seq(Message), NEW t \in Turn
    PROVE  LET turn == <<[role |-> "user", ask |-> t.ask], [role |-> "assistant", ask |-> t.ask]>> IN
           /\ Extended(messages, turn) \in Seq(Message)
           /\ Turned(messages, turns) => Turned(Extended(messages, turn), Append(turns, t))
  <1> DEFINE turn == <<[role |-> "user", ask |-> t.ask], [role |-> "assistant", ask |-> t.ask]>>
             all == messages \o turn
             first == IF Len(all) - MaxMessages + 1 >= 1 THEN Len(all) - MaxMessages + 1 ELSE 1
             kept == SubSeq(all, first, Len(all))
             n == Len(turns)
             m == Len(messages)
  <1>0. n \in Nat /\ m \in Nat /\ MaxMessages \in Nat /\ MaxMessages >= 1
    BY AgentBounds
  <1>0a. n = Len(turns) /\ m = Len(messages)
    OBVIOUS
  <1> HIDE DEF n, m
  <1>1. turn \in Seq(Message) /\ Len(turn) = 2
    BY DEF Turn, Message
  <1>2. /\ turn[1] = [role |-> "user", ask |-> t.ask]
        /\ turn[2] = [role |-> "assistant", ask |-> t.ask]
    OBVIOUS
  <1> HIDE DEF turn
  <1>3. /\ all \in Seq(Message) /\ Len(all) = m + 2
        /\ \A i \in 1..(m + 2) : all[i] = IF i <= m THEN messages[i] ELSE turn[i - m]
    <2>1. /\ all \in Seq(Message) /\ Len(all) = Len(messages) + Len(turn)
          /\ \A i \in 1..(Len(messages) + Len(turn)) :
                all[i] = IF i <= Len(messages) THEN messages[i] ELSE turn[i - Len(messages)]
      BY <1>1, ConcatProperties
    <2> HIDE DEF all
    <2> QED  BY <2>1, <1>0a, <1>1
  <1>3b. \A i \in 1..(m + 2) : all[i] \in Message
    BY <1>3, ElementOfSeq
  <1> HIDE DEF all
  <1>4. first = (IF m + 3 - MaxMessages >= 1 THEN m + 3 - MaxMessages ELSE 1) /\ first \in 1..(m + 2)
    BY <1>0, <1>3
  <1> HIDE DEF first
  <1>5. /\ kept \in Seq(Message) /\ Len(kept) = m + 3 - first
        /\ \A i \in 1..(m + 3 - first) : kept[i] = all[first + i - 1]
    <2>1. \A i \in first..(m + 2) : all[i] \in Message
      BY <1>0, <1>3b, <1>4
    <2>2. first \in Int /\ m + 2 \in Int /\ first <= m + 2
      BY <1>0, <1>4
    <2>3. /\ SubSeq(all, first, m + 2) \in Seq(Message)
          /\ Len(SubSeq(all, first, m + 2)) = (m + 2) - first + 1
          /\ \A i \in 1..((m + 2) - first + 1) : SubSeq(all, first, m + 2)[i] = all[first + i - 1]
      BY <2>1, <2>2, SubSeqProperties
    <2>4. (m + 2) - first + 1 = m + 3 - first
      BY <1>0, <2>2
    <2> QED  BY <1>3, <2>3, <2>4
  <1>6. Extended(messages, turn) = kept
    <2>1. Max({1, Len(all) - MaxMessages + 1}) = first
      BY <1>0, <1>3, MaxOfTwo DEF first
    <2> QED  BY <2>1 DEF Extended, Newest, all
  <1> HIDE DEF kept
  <1>7. ASSUME Turned(messages, turns) PROVE Turned(kept, Append(turns, t))
    <2>1. Len(Append(turns, t)) = n + 1
      BY <1>0a, AppendProperties
    <2>2. m = IF MaxMessages <= 2 * n THEN MaxMessages ELSE 2 * n
      BY <1>0a, <1>7 DEF Turned
    <2>3. Len(kept) = IF MaxMessages <= 2 * (n + 1) THEN MaxMessages ELSE 2 * (n + 1)
      BY <1>0, <1>4, <1>5, <2>2
    <2>4. ASSUME NEW i \in 1..Len(kept)
          PROVE  kept[i] = MessageOf(Append(turns, t), 2 * (n + 1) - Len(kept) + i)
      <3> DEFINE k == first + i - 1
      <3>1. /\ k \in 1..(m + 2) /\ kept[i] = all[k]
            /\ 2 * (n + 1) - Len(kept) + i = 2 * n - m + k
        <4>1. i \in 1..(m + 3 - first) /\ first \in Int
          BY <1>0, <1>4, <1>5
        <4>2. kept[i] = all[k]
          BY <1>5, <4>1
        <4>3. k \in 1..(m + 2)
          BY <1>0, <1>4, <4>1
        <4>4. 2 * (n + 1) - (m + 3 - first) + i = 2 * n - m + k
          BY <1>0, <4>1
        <4> QED  BY <1>5, <4>2, <4>3, <4>4
      <3> HIDE DEF k
      <3>2. CASE k <= m
        <4>1. k \in 1..m /\ 2 * n - m + k \in 1..(2 * n)
          BY <1>0, <2>2, <3>1, <3>2
        <4>2. all[k] = MessageOf(turns, 2 * n - m + k)
          BY <1>0a, <1>3, <1>7, <3>1, <3>2, <4>1 DEF Turned
        <4> QED  BY <1>0a, <3>1, <4>1, <4>2, OldMessage
      <3>3. CASE k = m + 1
        <4>1. all[k] = turn[1] /\ 2 * n - m + k = 2 * n + 1
          BY <1>0, <1>3, <3>1, <3>3
        <4>2. MessageOf(Append(turns, t), 2 * n + 1) = turn[1]
          BY <1>0a, <1>2, NewMessages
        <4> QED  BY <3>1, <4>1, <4>2
      <3>4. CASE k = m + 2
        <4>1. all[k] = turn[2] /\ 2 * n - m + k = 2 * n + 2
          BY <1>0, <1>3, <3>1, <3>4
        <4>2. MessageOf(Append(turns, t), 2 * n + 2) = turn[2]
          BY <1>0a, <1>2, NewMessages
        <4> QED  BY <3>1, <4>1, <4>2
      <3> QED  BY <1>0, <3>1, <3>2, <3>3, <3>4
    <2> QED  BY <2>1, <2>3, <2>4 DEF Turned
  <1> QED  BY <1>5, <1>6, <1>7 DEF turn

(* Sequences that agree from the end are one a suffix of the other.        *)
LEMMA SuffixByIndex ==
    ASSUME NEW S, NEW s \in Seq(S), NEW t \in Seq(S), Len(s) <= Len(t),
           \A i \in 1..Len(s) : s[i] = t[Len(t) - Len(s) + i]
    PROVE  IsSuffix(s, t)
  <1> DEFINE m == Len(s)
             n == Len(t)
             r == Reverse(s)
             q == Reverse(t)
  <1>1. m \in Nat /\ n \in Nat
    OBVIOUS
  <1>2. /\ r = [i \in 1..m |-> s[(m - i) + 1]]
        /\ q = [i \in 1..n |-> t[(n - i) + 1]]
    BY DEF Reverse
  <1>3. \A i \in 1..m : (m - i) + 1 \in 1..m
    BY <1>1
  <1>4. \A i \in 1..n : (n - i) + 1 \in 1..n
    BY <1>1
  <1>5. r \in Seq(S) /\ Len(r) = m /\ \A i \in 1..m : r[i] = s[(m - i) + 1]
    BY <1>1, <1>2, <1>3
  <1>6. q \in Seq(S) /\ Len(q) = n /\ \A i \in 1..n : q[i] = t[(n - i) + 1]
    BY <1>1, <1>2, <1>4
  <1>7. ASSUME NEW i \in 1..m PROVE r[i] = q[i]
    <2>1. s[(m - i) + 1] = t[n - m + ((m - i) + 1)]
      BY <1>3
    <2>2. n - m + ((m - i) + 1) = (n - i) + 1 /\ i \in 1..n
      BY <1>1
    <2> QED  BY <1>5, <1>6, <2>1, <2>2
  <1>8. m <= n /\ m \in Int
    BY <1>1
  <1> HIDE DEF m, n, r, q
  <1>9. /\ SubSeq(r, 1, m) \in Seq(S) /\ Len(SubSeq(r, 1, m)) = m
        /\ \A i \in 1..m : SubSeq(r, 1, m)[i] = r[i]
    <2>1. \A i \in 1..m : r[i] \in S
      BY <1>1, <1>5, ElementOfSeq
    <2> QED  BY <1>1, <2>1, SubSeqProperties
  <1>10. /\ SubSeq(q, 1, m) \in Seq(S) /\ Len(SubSeq(q, 1, m)) = m
         /\ \A i \in 1..m : SubSeq(q, 1, m)[i] = q[i]
    <2>1. \A i \in 1..m : q[i] \in S
      BY <1>1, <1>6, <1>8, ElementOfSeq
    <2> QED  BY <1>1, <2>1, SubSeqProperties
  <1>11. SubSeq(r, 1, m) = SubSeq(q, 1, m)
    BY <1>1, <1>7, <1>9, <1>10
  <1> QED  BY <1>5, <1>6, <1>8, <1>11 DEF IsSuffix, IsPrefix, r, q

LEMMA TurnedIsSuffix ==
    ASSUME NEW turns \in Seq(Turn), NEW messages \in Seq(Message), Turned(messages, turns)
    PROVE  LET all == [i \in 1..(2 * Len(turns)) |-> MessageOf(turns, i)] IN
           IsSuffix(messages, all) /\ Len(messages) = Min({MaxMessages, Len(all)})
  <1> DEFINE n == Len(turns)
             m == Len(messages)
             all == [i \in 1..(2 * n) |-> MessageOf(turns, i)]
  <1>1. n \in Nat /\ m \in Nat /\ MaxMessages \in Nat
    BY AgentBounds
  <1>2. m = IF MaxMessages <= 2 * n THEN MaxMessages ELSE 2 * n
    BY DEF Turned
  <1>3. \A i \in 1..m : messages[i] = MessageOf(turns, 2 * n - m + i)
    BY DEF Turned
  <1>4. ASSUME NEW i \in 1..(2 * n) PROVE MessageOf(turns, i) \in Message
    <2>1. (i + 1) \div 2 \in 1..n
      BY <1>1
    <2>2. turns[(i + 1) \div 2] \in Turn
      BY <2>1, ElementOfSeq
    <2> QED  BY <2>2 DEF MessageOf, Message, Turn
  <1> HIDE DEF n, m
  <1>5. all \in Seq(Message) /\ Len(all) = 2 * n
    BY <1>1, <1>4
  <1>6. \A i \in 1..m : messages[i] = all[2 * n - m + i]
    BY <1>1, <1>2, <1>3
  <1> HIDE DEF all
  <1>7. IsSuffix(messages, all)
    <2>1. m <= Len(all) /\ \A i \in 1..m : messages[i] = all[Len(all) - m + i]
      BY <1>1, <1>2, <1>5, <1>6
    <2>2. /\ Len(messages) <= Len(all)
          /\ \A i \in 1..Len(messages) : messages[i] = all[Len(all) - Len(messages) + i]
      BY <2>1 DEF m
    <2> QED  BY <1>5, <2>2, SuffixByIndex
  <1>8. m = Min({MaxMessages, Len(all)})
    BY <1>1, <1>2, <1>5, MinOfTwo
  <1> QED  BY <1>7, <1>8 DEF m, n, all

(* What an answer leaves of the conversation and of its history.           *)
LEMMA AnswerMakes ==
    ASSUME ConversationInv, AnswersInv, NEW c \in Calls, Save(c), ~Missed(c)
    PROVE  \E t \in Turn :
              LET s == calls[c].session
                  turn == <<[role |-> "user", ask |-> t.ask], [role |-> "assistant", ask |-> t.ask]>>
              IN  /\ sessions' = [sessions EXCEPT ![s] =
                        [messages |-> Extended(calls[c].past, turn), symbol |-> t.about]]
                  /\ answered' = [answered EXCEPT ![s] = Append(@, t)]
  <1>1. PICK reply \in Replies(calls[c]), impact \in SUBSET calls[c].nodes : Answer(c, reply, impact)
    BY SaveMakes
  <1> DEFINE cited == Cited(calls[c], reply, impact)
  <1>2. PICK about \in About(calls[c], cited) :
          /\ sessions' = [sessions EXCEPT ![calls[c].session] =
                [messages |-> Extended(calls[c].past,
                    <<[role |-> "user", ask |-> calls[c].ask],
                      [role |-> "assistant", ask |-> calls[c].ask]>>), symbol |-> about]]
          /\ answered' = [answered EXCEPT ![calls[c].session] = Append(@,
                [ask |-> calls[c].ask,
                 about |-> IF calls[c].seeds = <<>> THEN about ELSE Head(calls[c].seeds)])]
    BY <1>1 DEF Answer
  <1>3. Active(c)
    BY DEF Save, Active
  <1>4. /\ calls[c].seen \subseteq calls[c].nodes /\ calls[c].nodes \subseteq Symbols
        /\ calls[c].seeds \in Seq(calls[c].nodes)
    BY <1>3 DEF AnswersInv, GoesOn, Active
  <1>5. cited \subseteq Symbols
    BY <1>4, CitedRecorded
  <1> HIDE DEF cited
  <1>6. /\ about \in Symbols \union {None}
        /\ about = IF calls[c].seeds = <<>> THEN about ELSE Head(calls[c].seeds)
    <2>1. CASE calls[c].seeds = <<>>
      BY <1>5, <2>1 DEF About
    <2>2. CASE calls[c].seeds # <<>>
      <3>1. about = Head(calls[c].seeds)
        BY <2>2 DEF About
      <3>2. Head(calls[c].seeds) \in calls[c].nodes
        BY <1>4, <2>2, HeadTailProperties
      <3> QED  BY <1>4, <2>2, <3>1, <3>2
    <2> QED  BY <2>1, <2>2
  <1> DEFINE t == [ask |-> calls[c].ask, about |-> about]
  <1>7. t \in Turn /\ t.ask = calls[c].ask /\ t.about = about
    BY <1>3, <1>6 DEF Turn, ConversationInv, ConversationTypes
  <1>8. answered' = [answered EXCEPT ![calls[c].session] = Append(@, t)]
    BY <1>2, <1>6
  <1> HIDE DEF t
  <1> QED  BY <1>2, <1>7, <1>8

LEMMA ConversationInit == Init => ConversationInv
  <1> SUFFICES ASSUME Init PROVE ConversationInv
    OBVIOUS
  <1>1. \A c \in Calls : ~Active(c)
    BY DEF Init, Active, Idle
  <1>2. ConversationTypes
    <2>1. NoSession \in [messages : Seq(Message), symbol : Symbols \union {None}]
      BY DEF NoSession
    <2>2. <<>> \in Seq(Turn)
      OBVIOUS
    <2> QED  BY <1>1, <2>1, <2>2 DEF Init, ConversationTypes
  <1>3. TurnedInv
    <2>1. Turned(<<>>, <<>>)
      BY AgentBounds DEF Turned
    <2>2. AboutOf(<<>>) = None
      BY DEF AboutOf
    <2> QED  BY <2>1, <2>2 DEF Init, TurnedInv, NoSession
  <1> QED  BY <1>1, <1>2, <1>3 DEF ConversationInv, AloneInv, PastInv

LEMMA ConversationAsk ==
    ASSUME EvidenceInv, ConversationInv, NEW c \in Calls, Ask(c)
    PROVE  ConversationInv'
  <1>1. PICK s \in Sessions, graph \in SUBSET Symbols, kind \in {"whole", "torn"},
            seeds \in Seq(Symbols) :
          /\ seeds \in Seq(graph)
          /\ calls' = [calls EXCEPT ![c] =
                NewCall(asked', s, sessions[s].messages, graph, kind, seeds)]
          /\ overlapped' =
                IF \E d \in Calls : calls[d].session = s /\ calls[d].pc \in {"gather", "model"}
                THEN overlapped \union {s} ELSE overlapped
    BY AskMakes, Zenon
  <1> DEFINE call == NewCall(asked', s, sessions[s].messages, graph, kind, seeds)
  <1>2. /\ call.pc = "gather" /\ call.ask = asked' /\ call.session = s
        /\ call.past = sessions[s].messages
    BY DEF NewCall, Idle
  <1> HIDE DEF call
  <1>3. calls'[c] = call /\ \A d \in Calls \ {c} : calls'[d] = calls[d]
    BY <1>1 DEF call, EvidenceInv
  <1>4. /\ asked' = asked + 1 /\ sessions' = sessions /\ answered' = answered
        /\ overlapped \subseteq overlapped' /\ calls[c].pc = "idle"
    BY <1>1 DEF Ask
  <1>5. ConversationTypes'
    <2>1. sessions[s].messages \in Seq(Message) /\ asked' \in Nat
      BY <1>4 DEF ConversationInv, ConversationTypes
    <2>2. ASSUME NEW d \in Calls, Active(d)'
          PROVE  calls'[d].session \in Sessions /\ calls'[d].ask \in Nat /\ calls'[d].past \in Seq(Message)
      BY <1>2, <1>3, <2>1, <2>2 DEF Active, ConversationInv, ConversationTypes
    <2> QED  BY <1>4, <2>1, <2>2 DEF ConversationInv, ConversationTypes
  <1>6. AloneInv'
    <2>1. \A d \in Calls \ {c} : Active(d) /\ calls[d].session = s => s \in overlapped'
      BY <1>1 DEF Active
    <2> QED  BY <1>2, <1>3, <1>4, <2>1 DEF ConversationInv, AloneInv, Active
  <1>7. PastInv'
    BY <1>2, <1>3, <1>4 DEF ConversationInv, PastInv, Active
  <1>8. TurnedInv'
    BY <1>4 DEF ConversationInv, TurnedInv
  <1> QED  BY <1>5, <1>6, <1>7, <1>8 DEF ConversationInv

(* A step that leaves the conversations alone, of a question that goes on  *)
(* as it was, or ends.                                                     *)
LEMMA ConversationStays ==
    ASSUME EvidenceInv, ConversationInv, NEW c \in Calls, NEW call,
           calls' = [calls EXCEPT ![c] = call],
           UNCHANGED <<sessions, asked, answered, overlapped>>,
           \/ call.pc \notin {"gather", "model"}
           \/ /\ Active(c) /\ call.session = calls[c].session
              /\ call.ask = calls[c].ask /\ call.past = calls[c].past
    PROVE  ConversationInv'
  <1>1. calls'[c] = call /\ \A d \in Calls \ {c} : calls'[d] = calls[d]
    BY DEF EvidenceInv
  <1>2. ASSUME NEW d \in Calls, Active(d)'
        PROVE  /\ Active(d) /\ calls'[d].session = calls[d].session
               /\ calls'[d].ask = calls[d].ask /\ calls'[d].past = calls[d].past
    BY <1>1, <1>2 DEF Active
  <1>3. ConversationTypes'
    BY <1>2 DEF ConversationInv, ConversationTypes
  <1>4. AloneInv'
    BY <1>2 DEF ConversationInv, AloneInv
  <1>5. PastInv'
    BY <1>2 DEF ConversationInv, PastInv
  <1>6. TurnedInv'
    BY DEF ConversationInv, TurnedInv
  <1> QED  BY <1>3, <1>4, <1>5, <1>6 DEF ConversationInv

(* A question that ends with an exception leaves them alone.               *)
LEMMA ConversationRaised ==
    ASSUME EvidenceInv, ConversationInv, NEW c \in Calls, NEW kind, calls' = Raised(c, kind),
           UNCHANGED <<sessions, answered, overlapped>>, asked' \in Nat
    PROVE  ConversationInv'
  <1> DEFINE call == [Idle EXCEPT !.pc = "raised", !.kind = kind]
  <1>1. call.pc = "raised"
    BY DEF Idle
  <1>2. calls' = [calls EXCEPT ![c] = call]
    BY DEF Raised
  <1> HIDE DEF call
  <1>3. ASSUME NEW d \in Calls, Active(d)' PROVE Active(d) /\ calls'[d] = calls[d]
    BY <1>1, <1>2, <1>3 DEF EvidenceInv, Active
  <1>4. ConversationTypes'
    BY <1>3 DEF ConversationInv, ConversationTypes
  <1>5. AloneInv'
    BY <1>3 DEF ConversationInv, AloneInv
  <1>6. PastInv'
    BY <1>3 DEF ConversationInv, PastInv
  <1>7. TurnedInv'
    BY DEF ConversationInv, TurnedInv
  <1> QED  BY <1>4, <1>5, <1>6, <1>7 DEF ConversationInv

(* An answer is told from an exception.                                    *)
LEMMA AnswerIsNoMiss ==
    ASSUME EvidenceInv, NEW c \in Calls, NEW reply, NEW impact, Answer(c, reply, impact)
    PROVE  ~Missed(c)
  <1>1. calls'[c].pc = "answered"
    BY DEF Answer, EvidenceInv, Idle
  <1>2. Missed(c) => calls'[c].pc = "raised"
    BY DEF Missed, Raised, EvidenceInv, Idle
  <1> QED  BY <1>1, <1>2

LEMMA ConversationSave ==
    ASSUME EvidenceInv, AnswersInv, ConversationInv, NEW c \in Calls, Save(c), ~Missed(c)
    PROVE  ConversationInv'
  <1> DEFINE s == calls[c].session
  <1>1. PICK reply \in Replies(calls[c]), impact \in SUBSET calls[c].nodes : Answer(c, reply, impact)
    BY SaveMakes
  <1>2. calls' = [calls EXCEPT ![c] =
            [Idle EXCEPT !.pc = "answered", !.shown = calls[c].shown,
                !.answer = [symbols |-> Cited(calls[c], reply, impact), edges |-> reply.edges,
                            impact |-> impact]]]
    BY <1>1 DEF Answer
  <1>3. ~Active(c)' /\ \A d \in Calls \ {c} : calls'[d] = calls[d]
    BY <1>2 DEF Active, EvidenceInv, Idle
  <1>4. Active(c) /\ s \in Sessions /\ UNCHANGED <<asked, overlapped>>
    BY DEF Save, Active, ConversationInv, ConversationTypes
  <1>5. PICK t \in Turn :
          LET turn == <<[role |-> "user", ask |-> t.ask], [role |-> "assistant", ask |-> t.ask]>>
          IN  /\ sessions' = [sessions EXCEPT ![s] =
                    [messages |-> Extended(calls[c].past, turn), symbol |-> t.about]]
              /\ answered' = [answered EXCEPT ![s] = Append(@, t)]
    BY AnswerMakes
  <1> DEFINE turn == <<[role |-> "user", ask |-> t.ask], [role |-> "assistant", ask |-> t.ask]>>
  <1>6. calls[c].past \in Seq(Message)
    BY <1>4 DEF ConversationInv, ConversationTypes
  <1>7. Extended(calls[c].past, turn) \in Seq(Message)
    <2>1. <<>> \in Seq(Turn)
      OBVIOUS
    <2> QED  BY <1>6, <2>1, TurnedExtends
  <1>8. \A turns \in Seq(Turn) :
          Turned(calls[c].past, turns) => Turned(Extended(calls[c].past, turn), Append(turns, t))
    BY <1>6, TurnedExtends
  <1> DEFINE new == [messages |-> Extended(calls[c].past, turn), symbol |-> t.about]
  <1>9. sessions' = [sessions EXCEPT ![s] = new] /\ answered' = [answered EXCEPT ![s] = Append(@, t)]
    BY <1>5
  <1>10. /\ new \in [messages : Seq(Message), symbol : Symbols \union {None}]
         /\ new.messages = Extended(calls[c].past, turn) /\ new.symbol = t.about
    BY <1>7 DEF Turn
  <1> HIDE DEF new, turn
  <1>11. /\ sessions'[s] = new /\ answered'[s] = Append(answered[s], t)
         /\ answered[s] \in Seq(Turn)
         /\ \A r \in Sessions \ {s} : sessions'[r] = sessions[r] /\ answered'[r] = answered[r]
    BY <1>4, <1>9 DEF ConversationInv, ConversationTypes
  <1>12. ConversationTypes'
    <2>1. sessions' \in [Sessions -> [messages : Seq(Message), symbol : Symbols \union {None}]]
      BY <1>9, <1>10 DEF ConversationInv, ConversationTypes
    <2>2. Append(answered[s], t) \in Seq(Turn)
      BY <1>11, AppendProperties
    <2>3. answered' \in [Sessions -> Seq(Turn)]
      BY <1>9, <2>2 DEF ConversationInv, ConversationTypes
    <2>4. ASSUME NEW d \in Calls, Active(d)'
          PROVE  calls'[d].session \in Sessions /\ calls'[d].ask \in Nat /\ calls'[d].past \in Seq(Message)
      BY <1>3, <2>4 DEF Active, ConversationInv, ConversationTypes
    <2> QED  BY <1>4, <2>1, <2>3, <2>4 DEF ConversationInv, ConversationTypes
  <1>13. AloneInv'
    BY <1>3, <1>4 DEF ConversationInv, AloneInv, Active
  <1>14. PastInv'
    <2> SUFFICES ASSUME NEW d \in Calls, Active(d)', calls'[d].session \notin overlapped'
                 PROVE  calls'[d].past = sessions'[calls'[d].session].messages
      BY DEF PastInv
    <2>1. d # c /\ calls'[d] = calls[d] /\ Active(d)
      BY <1>3 DEF Active
    <2>2. calls[d].session # s /\ calls[d].session \in Sessions
      BY <1>4, <2>1 DEF ConversationInv, AloneInv, ConversationTypes
    <2>3. calls[d].past = sessions[calls[d].session].messages
      BY <1>4, <2>1 DEF ConversationInv, PastInv
    <2> QED  BY <1>11, <2>1, <2>2, <2>3
  <1>15. TurnedInv'
    <2> SUFFICES ASSUME NEW r \in Sessions, r \notin overlapped'
                 PROVE  Turned(sessions'[r].messages, answered'[r]) /\ sessions'[r].symbol = AboutOf(answered'[r])
      BY DEF TurnedInv
    <2>1. Turned(sessions[r].messages, answered[r]) /\ sessions[r].symbol = AboutOf(answered[r])
      BY <1>4 DEF ConversationInv, TurnedInv
    <2>2. CASE r # s
      BY <1>11, <2>1, <2>2
    <2>3. CASE r = s
      <3>1. calls[c].past = sessions[s].messages
        BY <1>4, <2>3 DEF ConversationInv, PastInv
      <3>2. Turned(new.messages, Append(answered[s], t))
        BY <1>8, <1>10, <1>11, <2>1, <2>3, <3>1
      <3>3. AboutOf(Append(answered[s], t)) = t.about
        BY <1>11, AppendProperties DEF AboutOf, Last
      <3> QED  BY <1>10, <1>11, <2>3, <3>2, <3>3
    <2> QED  BY <2>2, <2>3
  <1> QED  BY <1>12, <1>13, <1>14, <1>15 DEF ConversationInv

LEMMA ConversationNext ==
    ASSUME EvidenceInv, AnswersInv, ConversationInv, [Next]_vars
    PROVE  ConversationInv'
  <1>1. CASE UNCHANGED vars
    BY <1>1 DEF vars, ConversationInv, ConversationTypes, AloneInv, PastInv, TurnedInv, Active
  <1>2. ASSUME NEW c \in Calls, Gather(c) \/ CallTools(c) PROVE ConversationInv'
    <2>1. UNCHANGED <<sessions, asked, answered, overlapped>>
      BY <1>2 DEF Gather, CallTools
    <2>2. ASSUME NEW call, calls' = [calls EXCEPT ![c] = call],
                 calls[c].pc \in {"gather", "model"},
                 call.ask = calls[c].ask, call.session = calls[c].session, call.past = calls[c].past
          PROVE  ConversationInv'
      BY <2>1, <2>2, ConversationStays DEF Active
    <2>3. CASE calls' = Raised(c, "torn")
      BY <2>1, <2>3, ConversationRaised DEF ConversationInv, ConversationTypes
    <2> QED  BY <1>2, <2>2, <2>3, ToolsMake
  <1>3. ASSUME NEW c \in Calls, SaveFails(c) \/ Respond(c) PROVE ConversationInv'
    <2>1. calls' = [calls EXCEPT ![c] = Idle] /\ UNCHANGED <<sessions, asked, answered, overlapped>>
      BY <1>3 DEF SaveFails, Respond
    <2>2. Idle.pc \notin {"gather", "model"}
      BY DEF Idle
    <2> QED  BY <2>1, <2>2, ConversationStays
  <1>4. ASSUME NEW c \in Calls, Save(c) PROVE ConversationInv'
    <2>1. CASE Missed(c) /\ UNCHANGED <<sessions, answered>>
      <3>1. UNCHANGED <<sessions, asked, answered, overlapped>> /\ calls' = Raised(c, "torn")
        BY <1>4, <2>1 DEF Save, Missed
      <3> QED  BY <3>1, ConversationRaised DEF ConversationInv, ConversationTypes
    <2>2. CASE ~Missed(c)
      BY <1>4, <2>2, ConversationSave
    <2>3. CASE Missed(c) /\ ~UNCHANGED <<sessions, answered>>
      BY <1>4, <2>3, SaveMakes, AnswerIsNoMiss
    <2> QED  BY <2>1, <2>2, <2>3
  <1>5. ASSUME NEW c \in Calls, AskOfNothing(c) PROVE ConversationInv'
    BY <1>5, ConversationRaised DEF AskOfNothing, ConversationInv, ConversationTypes
  <1> QED  BY <1>1, <1>2, <1>3, <1>4, <1>5, ConversationAsk DEF Next, Answering

(* As long as no two questions overlap in it, a conversation is its newest *)
(* answered questions, each before its answer and in their order, and is   *)
(* about what the last of them was about: however many questions, threads  *)
(* and other conversations there are and however many messages are kept    *)
(* (reasoning.py, ask; store.py, save_session).                            *)
THEOREM ConversationKeptHolds == Spec => []ConversationKept
  <1>1. Init => EvidenceInv /\ AnswersInv /\ ConversationInv
    BY EvidenceInit, ConversationInit DEF Init, AnswersInv, GoesOn, Idle
  <1>2. EvidenceInv /\ AnswersInv /\ ConversationInv /\ [Next]_vars
            => (EvidenceInv /\ AnswersInv /\ ConversationInv)'
    BY EvidenceNext, AnswersNext, ConversationNext
  <1>3. ConversationInv => ConversationKept
    <2> SUFFICES ASSUME ConversationInv, NEW s \in Sessions \ overlapped
                 PROVE  LET turns == answered[s]
                            all == [i \in 1..(2 * Len(turns)) |-> MessageOf(turns, i)]
                        IN  /\ IsSuffix(sessions[s].messages, all)
                            /\ Len(sessions[s].messages) = Min({MaxMessages, Len(all)})
                            /\ sessions[s].symbol = IF turns = <<>> THEN None ELSE Last(turns).about
      BY DEF ConversationKept, MessageOf
    <2>1. answered[s] \in Seq(Turn) /\ sessions[s].messages \in Seq(Message)
      BY DEF ConversationInv, ConversationTypes
    <2>2. Turned(sessions[s].messages, answered[s]) /\ sessions[s].symbol = AboutOf(answered[s])
      BY DEF ConversationInv, TurnedInv
    <2> QED  BY <2>1, <2>2, TurnedIsSuffix DEF AboutOf
  <1> QED  BY <1>1, <1>2, <1>3, PTL DEF Spec
=============================================================================
