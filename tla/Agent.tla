------------------------------- MODULE Agent -------------------------------
(***************************************************************************)
(* RepoAgent.ask: questions about one repository, of several conversations *)
(* and several at a time.  A question reads its conversation with one      *)
(* query, gathers evidence with tools, goes through a bounded number of    *)
(* rounds with the language model, and saves the conversation with another *)
(* query.                                                                  *)
(*                                                                         *)
(*  - A tool's result is the symbols and relationships in it; how much of  *)
(*    it fits the evidence budget is left open.                            *)
(*  - The tools that run at once, before the model or in one round, are    *)
(*    one run: their results together.                                     *)
(*  - A graph is the symbols of it that can be cited, those of a file: no  *)
(*    directories and no unresolved names.  It is read with two queries,   *)
(*    and is whole, torn when its relationships are those of another       *)
(*    publication than its symbols, or empty when the repository was       *)
(*    deleted before it was read (GraphReaders).                           *)
(*  - The texts, the paths and the limits on citations are left out.       *)
(***************************************************************************)
EXTENDS Integers, Sequences, FiniteSets, SequencesExt

CONSTANTS
    Calls,        \* API threads that answer a question
    Sessions,     \* conversations
    Symbols,      \* ids a graph of the repository can have
    Code,         \* those of functions, methods, classes, endpoints
    Edges,        \* ids of relationships
    None,         \* no symbol, no reply
    ContextSize,  \* context_chars
    MaxRounds,    \* rounds with the model: 4, or 2 for a local one
    MaxMessages,  \* messages a conversation keeps: 20
    MaxSeeds,     \* symbols a question starts from: 4
    MaxAsks       \* bound on the questions

ASSUME AgentBounds ==
    /\ Code \subseteq Symbols /\ Symbols \intersect Edges = {} /\ None \notin Symbols
    /\ ContextSize \in Nat /\ MaxAsks \in Nat
    /\ {MaxRounds, MaxMessages, MaxSeeds} \subseteq Nat \ {0}

VARIABLES
    sessions,   \* ChatSessions: [messages, symbol]
    asked,      \* questions so far; a question is its number
    calls,      \* each thread, see Idle
    answered,   \* for each conversation, its answered questions: [ask, about]
    overlapped  \* the conversations two questions were in at the same time

vars == <<sessions, asked, calls, answered, overlapped>>

NoSession == [messages |-> <<>>, symbol |-> None]

NoAnswer == [symbols |-> {}, edges |-> {}, impact |-> {}]

Idle == [
    pc |-> "idle", ask |-> 0, session |-> None,
    nodes |-> {},              \* the graph the question is answered from
    kind |-> "whole",          \* how it was read: whole, torn or empty
    past |-> <<>>,             \* the messages of the conversation, as read
    seeds |-> <<>>,            \* the symbols it starts from
    budget |-> 0,
    shown |-> {},              \* evidence in the messages to the model
    seen |-> {}, edges |-> {}, \* what AgentTools recorded of it
    round |-> 0,
    answer |-> NoAnswer]

(* A question that ends with an exception, about a graph that was read so. *)
Raised(c, kind) == [calls EXCEPT ![c] = [Idle EXCEPT !.pc = "raised", !.kind = kind]]

-----------------------------------------------------------------------------
(* The symbols that the question starts from.                              *)

Found(graph) == {s \in SeqOf(graph, MaxSeeds) : IsInjective(s)}

(* No symbol is found twice.                                               *)
Without(s, x) ==
    IF x \in ToSet(s) THEN RemoveAt(s, CHOOSE i \in DOMAIN s : s[i] = x) ELSE s

FirstSeeds(s) == SubSeq(s, 1, Min({MaxSeeds, Len(s)}))

(* Mutant: the symbol of the conversation is taken for one of this graph.  *)
SeedsOfAnyGraph(graph, selected, referred, found) ==
    IF selected # None THEN <<selected>> \o Without(found, selected)
    ELSE IF referred # None THEN FirstSeeds(<<referred>> \o Without(found, referred))
    ELSE found

(* The selected symbol; for "it" or "this", what the conversation was      *)
(* about; what the search found.                                           *)
Seeds(graph, selected, referred, found) ==
    IF selected # None THEN <<selected>> \o Without(found, selected)
    ELSE IF referred \in graph THEN FirstSeeds(<<referred>> \o Without(found, referred))
    ELSE found

(* A question comes in, and is answered from the graph there is then,      *)
(* which may be another at every question.                                 *)
Ask(c) ==
    /\ calls[c].pc = "idle" /\ asked < MaxAsks
    /\ asked' = asked + 1
    /\ \E s \in Sessions, graph \in SUBSET Symbols, kind \in {"whole", "torn"} :
        /\ \E selected \in graph \union {None}, referred \in {sessions[s].symbol, None},
              found \in Found(graph) :
            calls' = [calls EXCEPT ![c] =
                [Idle EXCEPT !.pc = "gather", !.ask = asked', !.session = s, !.nodes = graph,
                             !.kind = kind,
                             !.past = sessions[s].messages, !.budget = ContextSize,
                             !.seeds = Seeds(graph, selected, referred, found)]]
        /\ overlapped' =
            IF \E d \in Calls : calls[d].session = s /\ calls[d].pc \in {"gather", "model"}
            THEN overlapped \union {s} ELSE overlapped
    /\ UNCHANGED <<sessions, answered>>

(* The repository was deleted before its graph was read: a question about  *)
(* a graph with no symbol at all raises before anything else.              *)
AskOfNothing(c) ==
    /\ calls[c].pc = "idle" /\ asked < MaxAsks
    /\ asked' = asked + 1
    /\ calls' = Raised(c, "empty")
    /\ UNCHANGED <<sessions, answered, overlapped>>

-----------------------------------------------------------------------------
(* Tools.                                                                  *)

(* What bounded_evidence can make of a result: a notice, or the part that  *)
(* fits.                                                                   *)
Bounded(items, budget) ==
    [shown : {{}}, left : {budget}] \union
    {e \in [shown : SUBSET items, left : 0..(budget - 1)] :
        Cardinality(e.shown) <= budget - e.left}

(* Mutant: the result is recorded as it was before bounded_evidence.       *)
RunRecordsResult(call) ==
    {[call EXCEPT !.budget = e.left, !.shown = @ \union e.shown,
                  !.seen = @ \union call.nodes, !.edges = @ \union Edges] :
        e \in Bounded(call.nodes \union Edges, call.budget)}

(* The states of a call after tools ran: record_evidence.                  *)
Run(call) ==
    {[call EXCEPT !.budget = e.left, !.shown = @ \union e.shown,
                  !.seen = @ \union (e.shown \intersect call.nodes),
                  !.edges = @ \union (e.shown \intersect Edges)] :
        e \in Bounded(call.nodes \union Edges, call.budget)}

(* A relationship of another publication can lead to a symbol that the     *)
(* graph does not have: an exception that nothing catches.                 *)
Missed(c) ==
    /\ calls[c].kind = "torn"
    /\ calls' = Raised(c, "torn")

(* The search, the overview or the analysis of the first symbol, and the   *)
(* source of the next ones.  A tool that does not know a symbol raises.    *)
Gather(c) ==
    LET call == calls[c] IN
    /\ call.pc = "gather"
    /\ \/ /\ ToSet(call.seeds) \subseteq call.nodes
          /\ \E next \in Run(call) : calls' = [calls EXCEPT ![c] = [next EXCEPT !.pc = "model"]]
       \/ /\ ~(ToSet(call.seeds) \subseteq call.nodes)
          /\ calls' = Raised(c, calls[c].kind)
       \/ Missed(c)
    /\ UNCHANGED <<sessions, asked, answered, overlapped>>

-----------------------------------------------------------------------------
(* Rounds with the language model.                                         *)

(* The model calls tools: a call of a tool, symbol or argument there is    *)
(* not is answered with the error.  In the last round, or too many calls,  *)
(* end the attempt.                                                        *)
CallTools(c) ==
    LET call == calls[c] IN
    /\ call.pc = "model" /\ call.round < MaxRounds - 1
    /\ \E next \in Run(call) :
        calls' = [calls EXCEPT ![c] = [next EXCEPT !.round = @ + 1]]
    /\ UNCHANGED <<sessions, asked, answered, overlapped>>

Valid(call, symbols, edges) ==
    symbols # {} /\ symbols \subseteq call.seen /\ edges \subseteq call.edges

(* What an attempt with the model can come to: what it cites, when valid,  *)
(* and nothing when it cannot be reached or its reply is not valid.        *)
Replies(call) ==
    {r \in [symbols : SUBSET Symbols, edges : SUBSET Edges] : Valid(call, r.symbols, r.edges)}
        \union {[symbols |-> {}, edges |-> {}]}

-----------------------------------------------------------------------------
(* The answer.                                                             *)

(* The symbols the model cited or the first ones, as far as there is       *)
(* evidence of them, else any code in the evidence; and those of the       *)
(* computed impact.                                                        *)
Cited(call, reply, impact) ==
    LET proposed == IF reply.symbols # {} THEN reply.symbols ELSE ToSet(call.seeds)
        direct == proposed \intersect call.seen
    IN  (IF direct # {} THEN direct ELSE call.seen \intersect Code) \union impact

(* What the conversation is about after it.                                *)
About(call, cited) ==
    IF call.seeds # <<>> THEN {Head(call.seeds)}
    ELSE IF cited # {} THEN cited
    ELSE {None}

Newest(messages) ==
    SubSeq(messages, Max({1, Len(messages) - MaxMessages + 1}), Len(messages))

(* Mutant: trimmed before the turn is added.                               *)
TrimBeforeAdding(messages, turn) == Newest(messages) \o turn

Extended(messages, turn) == Newest(messages \o turn)

Answer(c, reply, impact) ==
    LET call == calls[c]
        s == call.session
        cited == Cited(call, reply, impact)
        turn == <<[role |-> "user", ask |-> call.ask], [role |-> "assistant", ask |-> call.ask]>>
    IN
    /\ \E about \in About(call, cited) :
        /\ sessions' = [sessions EXCEPT ![s] =
              [messages |-> Extended(call.past, turn), symbol |-> about]]
        /\ answered' = [answered EXCEPT ![s] = Append(@,
              [ask |-> call.ask,
               about |-> IF call.seeds = <<>> THEN about ELSE Head(call.seeds)])]
    /\ calls' = [calls EXCEPT ![c] =
          [Idle EXCEPT !.pc = "answered", !.shown = call.shown,
              !.answer = [symbols |-> cited, edges |-> reply.edges, impact |-> impact]]]

(* The model's last reply, or the last of its failures; then one query     *)
(* saves the conversation.  An id in the evidence that is no symbol's      *)
(* would raise.                                                            *)
Save(c) ==
    /\ calls[c].pc = "model"
    /\ \/ /\ calls[c].seen \subseteq calls[c].nodes
          /\ \E reply \in Replies(calls[c]), impact \in SUBSET calls[c].nodes :
                /\ calls[c].seeds = <<>> => impact = {}
                /\ Answer(c, reply, impact)
       \/ /\ ~(calls[c].seen \subseteq calls[c].nodes)
          /\ calls' = Raised(c, calls[c].kind)
          /\ UNCHANGED <<sessions, answered>>
       \/ Missed(c) /\ UNCHANGED <<sessions, answered>>
    /\ UNCHANGED <<asked, overlapped>>

(* The database fails: the question ends with an error.                    *)
SaveFails(c) ==
    /\ calls[c].pc = "model"
    /\ calls' = [calls EXCEPT ![c] = Idle]
    /\ UNCHANGED <<sessions, asked, answered, overlapped>>

Respond(c) ==
    /\ calls[c].pc \in {"answered", "raised"}
    /\ calls' = [calls EXCEPT ![c] = Idle]
    /\ UNCHANGED <<sessions, asked, answered, overlapped>>

-----------------------------------------------------------------------------
Init ==
    /\ sessions = [s \in Sessions |-> NoSession]
    /\ asked = 0
    /\ calls = [c \in Calls |-> Idle]
    /\ answered = [s \in Sessions |-> <<>>]
    /\ overlapped = {}

Answering(c) ==
    \/ Gather(c) \/ CallTools(c) \/ Save(c) \/ SaveFails(c) \/ Respond(c)

Next == \E c \in Calls : Ask(c) \/ AskOfNothing(c) \/ Answering(c)

Spec == Init /\ [][Next]_vars

-----------------------------------------------------------------------------
(* Properties.                                                             *)

(* "Validate structured output, citation IDs, cited edge IDs ... against   *)
(* retrieved graph evidence" (README.md:214): an answer cites symbols that *)
(* were in the bounded evidence of its own question, whatever the model    *)
(* replied and other questions found, or that the impact was computed for, *)
(* and relationships that were in the evidence.                            *)
EvidenceBacked ==
    \A c \in Calls : calls[c].pc = "answered" =>
        /\ calls[c].answer.symbols \subseteq calls[c].shown \union calls[c].answer.impact
        /\ calls[c].answer.edges \subseteq calls[c].shown

(* "Invalid or unavailable LLM outputs yield a clearly marked              *)
(* static-evidence response" (README.md:224): a question about a graph     *)
(* that was read whole never ends with an exception of its own, not in a   *)
(* conversation about a symbol that the graph has lost since, nor for an   *)
(* id in the evidence that is no symbol's.  A torn graph and that of a     *)
(* deleted repository do end questions with one.                           *)
AlwaysAnswers ==
    \A c \in Calls : calls[c].pc = "raised" => calls[c].kind \in {"torn", "empty"}

(* "conversational state is persisted per repository session"              *)
(* (README.md:202): as long as no two questions overlap in it, a           *)
(* conversation is its newest answered questions, each before its answer   *)
(* and in their order, and is about what the last of them was about; what  *)
(* other conversations do and questions that failed leave no trace.        *)
ConversationKept ==
    \A s \in Sessions \ overlapped :
        LET turns == answered[s]
            message(i) == [role |-> IF i % 2 = 1 THEN "user" ELSE "assistant",
                           ask |-> turns[(i + 1) \div 2].ask]
            all == [i \in 1..(2 * Len(turns)) |-> message(i)]
        IN  /\ IsSuffix(sessions[s].messages, all)
            /\ Len(sessions[s].messages) = Min({MaxMessages, Len(all)})
            /\ sessions[s].symbol = IF turns = <<>> THEN None ELSE Last(turns).about
=============================================================================
