--------------------------- MODULE Binding_proofs ---------------------------
(***************************************************************************)
(* Theorems about Binding, for any number of copies, installations,        *)
(* deliveries and handlers.                                                *)
(***************************************************************************)
EXTENDS Binding, FiniteSetTheorems, TLAPS

Statuses == {"MISSING", "QUEUED", "READY", "FAILED", "DELETED"}

Places == {"idle", "bound", "unbound", "claim", "rebind", "reply"}

Answers == {None, "BOUND", "NOT_FOUND", "AMBIGUOUS", "CONFLICT"}

Metadata == [status : Statuses, installation : Installations \union {None}, syncing : BOOLEAN]

CopiesType == copies \in [Copies -> Metadata]

RequestsType == requests \in [Requests -> {None} \union [operation : {"reindex", "delete"}, copy : Copies]]

HandlersType ==
    handlers \in [Handlers -> [at : Places, delivery : Deliveries \union {None},
                               copy : Copies \union {None},
                               answer : Answers]]

JobsType == jobs \subseteq [delivery : Deliveries, copy : Copies]

TypeInv == CopiesType /\ RequestsType /\ keys \subseteq Deliveries /\ HandlersType /\ JobsType

(* A copy that exists, or existed, is bound to an installation.            *)
BoundTo(c, i) == copies[c].status # "MISSING" /\ (Stored(c) => copies[c].installation = i)

(* What a handler knows of the copy it has found.                          *)
HandlerInv(h) ==
    /\ At(h, "idle") \/ handlers[h].delivery \in Deliveries
    /\ At(h, "idle") => handlers[h].delivery = None
    /\ handlers[h].at \in {"claim", "rebind"} =>
            handlers[h].copy \in Copies /\ copies[handlers[h].copy].status # "MISSING"
    /\ At(h, "reply") /\ handlers[h].answer = "BOUND" =>
            handlers[h].copy \in Copies /\ BoundTo(handlers[h].copy, InstallationAt(h))

JobInv(job) == BoundTo(job.copy, InstallationOf[job.delivery])

BindingInv ==
    /\ TypeInv
    /\ \A h \in Handlers : HandlerInv(h)
    /\ \A job \in jobs : JobInv(job)
    /\ TurnedAwayCanBeRedelivered

(* What every step leaves of a copy's binding.                             *)
Kept(c) ==
    /\ copies[c].status # "MISSING" => copies'[c].status # "MISSING"
    /\ Stored(c)' => Stored(c) \/ copies[c].status = "MISSING"
    /\ Stored(c) /\ Stored(c)' /\ copies[c].installation # None =>
            copies'[c].installation = copies[c].installation

-----------------------------------------------------------------------------
LEMMA BindingInit == Init => BindingInv
  <1> SUFFICES ASSUME Init PROVE BindingInv
    OBVIOUS
  <1>1. TypeInv
    BY DEF Init, TypeInv, CopiesType, RequestsType, HandlersType, JobsType, Metadata, Idle, Missing,
           Statuses, Places, Answers
  <1>2. \A h \in Handlers : HandlerInv(h)
    BY DEF Init, HandlerInv, At, Idle
  <1> QED  BY <1>1, <1>2 DEF Init, BindingInv, TurnedAwayCanBeRedelivered

-----------------------------------------------------------------------------
(* The copies.                                                             *)

LEMMA Unchanged ==
    ASSUME CopiesType, UNCHANGED copies
    PROVE  CopiesType' /\ \A d \in Copies : Kept(d)
  BY DEF CopiesType, Kept, Stored

(* The fields that a step gives a copy keep its type and its binding.      *)
LEMMA SetKeeps ==
    ASSUME CopiesType, NEW c \in Copies, NEW fields, Set(c, fields),
           Stored(c) => /\ fields \in Metadata /\ fields.status # "MISSING"
                        /\ copies[c].installation # None => fields.installation = copies[c].installation
    PROVE  CopiesType' /\ \A d \in Copies : Kept(d)
  <1>1. CASE Stored(c)
    <2>1. copies' = [copies EXCEPT ![c] = fields]
      BY <1>1 DEF Set
    <2>2. CopiesType'
      BY <1>1, <2>1 DEF CopiesType
    <2>3. \A d \in Copies : Kept(d)
      BY <1>1, <2>1 DEF CopiesType, Kept, Stored
    <2> QED  BY <2>2, <2>3
  <1>2. CASE ~Stored(c)
    BY <1>2, Unchanged DEF Set
  <1> QED  BY <1>1, <1>2

LEMMA EnqueueKeeps ==
    ASSUME CopiesType, NEW c \in Copies, Enqueue(c)
    PROVE  CopiesType' /\ \A d \in Copies : Kept(d)
  <1>1. copies[c].status = "MISSING" /\ copies[c] \in Metadata
    <2>1. copies[c].status = "MISSING"
      BY DEF Enqueue, Missing
    <2>2. copies[c] \in Metadata
      BY DEF CopiesType
    <2> QED  BY <2>1, <2>2
  <1>2. CopiesType'
    BY <1>1 DEF Enqueue, CopiesType, Metadata, Statuses
  <1>3. \A d \in Copies : Kept(d)
    BY <1>1 DEF Enqueue, CopiesType, Metadata, Kept, Stored
  <1> QED  BY <1>2, <1>3

LEMMA IngestEndsKeeps ==
    ASSUME CopiesType, NEW c \in Copies, NEW status \in {"READY", "FAILED"}, IngestEnds(c, status)
    PROVE  CopiesType' /\ \A d \in Copies : Kept(d)
  BY DEF IngestEnds, CopiesType, Metadata, Statuses, Kept, Stored

LEMMA SyncEndsKeeps ==
    ASSUME CopiesType, NEW c \in Copies, SyncEnds(c)
    PROVE  CopiesType' /\ \A d \in Copies : Kept(d)
  BY DEF SyncEnds, CopiesType, Metadata, Statuses, Kept, Stored

LEMMA ReindexKeeps ==
    ASSUME CopiesType, RequestsType, NEW q \in Requests, Reindex(q)
    PROVE  CopiesType' /\ \A d \in Copies : Kept(d)
  <1> DEFINE c == requests[q].copy
  <1>1. c \in Copies /\ Set(c, [copies[c] EXCEPT !.status = "QUEUED"])
    BY DEF Reindex, RequestsType
  <1>2. copies[c] \in Metadata
    BY <1>1 DEF CopiesType
  <1>3. LET fields == [copies[c] EXCEPT !.status = "QUEUED"]
        IN  /\ fields \in Metadata /\ fields.status # "MISSING"
            /\ fields.installation = copies[c].installation
    BY <1>2 DEF Metadata, Statuses
  <1> QED  BY <1>1, <1>3, SetKeeps

LEMMA DeleteKeeps ==
    ASSUME CopiesType, RequestsType, NEW q \in Requests, Delete(q)
    PROVE  CopiesType' /\ \A d \in Copies : Kept(d)
  <1>1. requests[q].copy \in Copies /\ copies' = [copies EXCEPT ![requests[q].copy] = Deleted]
    BY DEF Delete, RequestsType
  <1>2. Deleted \in Metadata /\ Deleted.status = "DELETED"
    BY DEF Deleted, Metadata, Statuses
  <1>3. CopiesType'
    BY <1>1, <1>2 DEF CopiesType
  <1>4. \A d \in Copies : Kept(d)
    BY <1>1, <1>2 DEF CopiesType, Kept, Stored
  <1> QED  BY <1>3, <1>4

LEMMA ClaimKeeps ==
    ASSUME CopiesType, NEW h \in Handlers, HandlerInv(h), Claim(h)
    PROVE  CopiesType' /\ \A d \in Copies : Kept(d)
  <1> DEFINE c == handlers[h].copy
             fields == [copies[c] EXCEPT !.installation = InstallationAt(h)]
  <1>1. c \in Copies /\ InstallationAt(h) \in Installations
    BY InstallationOfType DEF Claim, At, HandlerInv, InstallationAt
  <1>2. CASE UNCHANGED copies
    BY <1>2, Unchanged
  <1>3. CASE Stored(c) /\ copies[c].installation = None /\ Set(c, fields)
    <2>1. fields \in Metadata /\ fields.status = copies[c].status
      BY <1>1 DEF CopiesType, Metadata
    <2>2. fields.status # "MISSING"
      BY <1>3, <2>1 DEF Stored
    <2> HIDE DEF fields
    <2> QED  BY <1>1, <1>3, <2>1, <2>2, SetKeeps
  <1> QED  BY <1>2, <1>3 DEF Claim

(* The status of the synchronization does not matter to the binding.       *)
LEMMA SyncKeeps ==
    ASSUME CopiesType, NEW c \in Copies, NEW syncing \in BOOLEAN,
           Set(c, [copies[c] EXCEPT !.syncing = syncing])
    PROVE  CopiesType' /\ \A d \in Copies : Kept(d)
  <1> DEFINE fields == [copies[c] EXCEPT !.syncing = syncing]
  <1>1. fields \in Metadata /\ fields.status = copies[c].status
            /\ fields.installation = copies[c].installation
    BY DEF CopiesType, Metadata
  <1>2. Stored(c) => fields.status # "MISSING"
    BY <1>1 DEF Stored
  <1> HIDE DEF fields
  <1>3. Set(c, fields)
    BY DEF fields
  <1> QED  BY <1>1, <1>2, <1>3, SetKeeps

LEMMA ReplyKeeps ==
    ASSUME CopiesType, NEW h \in Handlers, HandlerInv(h), Accept(h) \/ Refuse(h)
    PROVE  CopiesType' /\ \A d \in Copies : Kept(d)
  <1> DEFINE c == handlers[h].copy
             d == handlers[h].delivery
  <1>1. c \in Copies
    BY DEF Accept, Refuse, HandlerInv
  <1>2. copies[c].syncing \in BOOLEAN
    BY <1>1 DEF CopiesType, Metadata
  <1>3. PICK syncing \in BOOLEAN : Set(c, [copies[c] EXCEPT !.syncing = syncing])
    <2>1. CASE Accept(h)
      <3>1. Set(c, [copies[c] EXCEPT !.syncing = copies[c].syncing \/ d \in Pushes])
        BY <2>1 DEF Accept
      <3> QED  BY <3>1
    <2>2. CASE Refuse(h)
      <3>1. \E syncing \in BOOLEAN \union {copies[c].syncing, copies[c].syncing \/ d \in Pushes} :
                Set(c, [copies[c] EXCEPT !.syncing = syncing])
        BY <2>2 DEF Refuse
      <3>2. (copies[c].syncing \/ d \in Pushes) \in BOOLEAN
        OBVIOUS
      <3> QED  BY <1>2, <3>1, <3>2
    <2> QED  BY <2>1, <2>2
  <1> QED  BY <1>1, <1>3, SyncKeeps

LEMMA CopiesKept ==
    ASSUME TypeInv, \A h \in Handlers : HandlerInv(h), Step
    PROVE  CopiesType' /\ \A d \in Copies : Kept(d)
  <1> USE DEF TypeInv
  <1>1. CASE UNCHANGED copies
    BY <1>1, Unchanged
  <1>2. CASE \E c \in Copies : Enqueue(c) \/ SyncEnds(c) \/ \E status \in {"READY", "FAILED"} : IngestEnds(c, status)
    BY <1>2, EnqueueKeeps, SyncEndsKeeps, IngestEndsKeeps
  <1>3. CASE \E q \in Requests : Reindex(q) \/ Delete(q)
    BY <1>3, ReindexKeeps, DeleteKeeps
  <1>4. CASE \E h \in Handlers : Claim(h) \/ Accept(h) \/ Refuse(h)
    BY <1>4, ClaimKeeps, ReplyKeeps
  <1>5. CASE \E q \in Requests, c \in Copies, operation \in {"reindex", "delete"} : RequestChecked(q, c, operation)
    BY <1>1, <1>5 DEF RequestChecked
  <1>6. CASE \E h \in Handlers :
            \/ \E d \in Deliveries : Receive(h, d)
            \/ FindBound(h) \/ FindUnbound(h) \/ Rebind(h) \/ LookupFails(h) \/ Ignore(h)
    BY <1>1, <1>6 DEF Receive, FindBound, FindUnbound, Rebind, LookupFails, Ignore
  <1>7. CASE Restart
    BY <1>1, <1>7 DEF Restart
  <1> QED  BY <1>2, <1>3, <1>4, <1>5, <1>6, <1>7 DEF Step

-----------------------------------------------------------------------------
(* The handlers.                                                           *)

LEMMA BoundToKept ==
    ASSUME NEW c \in Copies, NEW i \in Installations, BoundTo(c, i), Kept(c)
    PROVE  BoundTo(c, i)'
  BY InstallationOfType DEF BoundTo, Kept

LEMMA HandlerKept ==
    ASSUME \A c \in Copies : Kept(c), NEW h \in Handlers, HandlerInv(h), handlers'[h] = handlers[h]
    PROVE  HandlerInv(h)'
  <1>1. At(h, "reply") /\ handlers[h].answer = "BOUND" =>
            handlers[h].copy \in Copies /\ BoundTo(handlers[h].copy, InstallationAt(h))'
    <2> SUFFICES ASSUME At(h, "reply"), handlers[h].answer = "BOUND"
                 PROVE  handlers[h].copy \in Copies /\ BoundTo(handlers[h].copy, InstallationAt(h))'
      OBVIOUS
    <2>1. handlers[h].copy \in Copies /\ BoundTo(handlers[h].copy, InstallationAt(h))
      BY DEF HandlerInv
    <2>2. handlers[h].delivery \in Deliveries
      BY DEF HandlerInv, At
    <2>3. InstallationAt(h) \in Installations
      BY <2>2, InstallationOfType DEF InstallationAt
    <2>4. handlers'[h].copy = handlers[h].copy /\ InstallationAt(h)' = InstallationAt(h)
      BY DEF InstallationAt
    <2> QED  BY <2>1, <2>3, <2>4, BoundToKept DEF BoundTo, Stored
  <1> QED  BY <1>1 DEF HandlerInv, At, Kept

(* What a handler goes on to: idle, or a place with what it has found.     *)
LEMMA IdleNext ==
    ASSUME HandlersType, NEW h \in Handlers, handlers' = [handlers EXCEPT ![h] = Idle]
    PROVE  /\ HandlersType' /\ HandlerInv(h)'
           /\ \A g \in Handlers \ {h} : handlers'[g] = handlers[g]
  <1>1. Idle \in [at : Places, delivery : Deliveries \union {None}, copy : Copies \union {None},
                  answer : Answers]
    BY DEF Idle, Places, Answers
  <1>2. HandlersType' /\ handlers'[h] = Idle /\ \A g \in Handlers \ {h} : handlers'[g] = handlers[g]
    BY <1>1 DEF HandlersType
  <1>3. Idle.at = "idle" /\ Idle.delivery = None
    BY DEF Idle
  <1> QED  BY <1>2, <1>3 DEF HandlerInv, At

LEMMA GoToNext ==
    ASSUME HandlersType, NEW h \in Handlers, NEW place \in Places, NEW copy \in Copies \union {None},
           NEW answer \in Answers, GoTo(h, place, copy, answer)
    PROVE  /\ HandlersType'
           /\ handlers'[h].at = place /\ handlers'[h].copy = copy /\ handlers'[h].answer = answer
           /\ handlers'[h].delivery = handlers[h].delivery
           /\ \A g \in Handlers \ {h} : handlers'[g] = handlers[g]
  BY DEF GoTo, HandlersType

(* An answer that binds no copy asks nothing of the copies.                *)
LEMMA AnsweredNext ==
    ASSUME HandlersType, NEW h \in Handlers, HandlerInv(h), ~At(h, "idle"),
           NEW place \in {"unbound", "reply"}, NEW copy \in Copies \union {None},
           NEW answer \in Answers, place = "reply" => answer # "BOUND", GoTo(h, place, copy, answer)
    PROVE  HandlerInv(h)'
  BY GoToNext DEF HandlerInv, At, Places

LEMMA BoundNext ==
    ASSUME HandlersType, NEW h \in Handlers, HandlerInv(h), ~At(h, "idle"),
           NEW c \in Copies, BoundTo(c, InstallationAt(h))', GoTo(h, "reply", c, "BOUND")
    PROVE  HandlerInv(h)'
  <1>1. "reply" \in Places /\ "BOUND" \in Answers
    BY DEF Places, Answers
  <1>2. handlers'[h].at = "reply" /\ handlers'[h].copy = c /\ handlers'[h].delivery = handlers[h].delivery
    BY <1>1, GoToNext
  <1>3. BoundTo(handlers[h].copy, InstallationAt(h))'
    BY <1>2 DEF BoundTo, Stored
  <1> QED  BY <1>2, <1>3 DEF HandlerInv, At

LEMMA FoundNext ==
    ASSUME HandlersType, NEW h \in Handlers, HandlerInv(h), ~At(h, "idle"),
           NEW place \in {"claim", "rebind"}, NEW c \in Copies, copies'[c].status # "MISSING",
           GoTo(h, place, c, None)
    PROVE  HandlerInv(h)'
  <1>1. place \in Places /\ None \in Answers
    BY DEF Places, Answers
  <1>2. handlers'[h].at = place /\ handlers'[h].copy = c /\ handlers'[h].delivery = handlers[h].delivery
    BY <1>1, GoToNext
  <1> QED  BY <1>2 DEF HandlerInv, At

(* The steps with which a handler ends, and what every step of one keeps.  *)
Ended(h) == LookupFails(h) \/ Ignore(h) \/ Accept(h) \/ Refuse(h)

Moved(h) ==
    /\ HandlersType' /\ HandlerInv(h)'
    /\ \A g \in Handlers \ {h} : handlers'[g] = handlers[g]

LEMMA ReceiveMoves ==
    ASSUME HandlersType, NEW h \in Handlers, NEW d \in Deliveries, Receive(h, d)
    PROVE  Moved(h)
  <1> DEFINE received == [at |-> "bound", delivery |-> d, copy |-> None, answer |-> None]
  <1>2. handlers' = [handlers EXCEPT ![h] = received]
    BY DEF Receive
  <1>3. received \in [at : Places, delivery : Deliveries \union {None}, copy : Copies \union {None},
                      answer : Answers]
    BY DEF Places, Answers
  <1>4. received.at = "bound" /\ received.delivery = d
    OBVIOUS
  <1> HIDE DEF received
  <1>5. HandlersType' /\ handlers'[h] = received /\ \A g \in Handlers \ {h} : handlers'[g] = handlers[g]
    BY <1>2, <1>3 DEF HandlersType
  <1> QED  BY <1>4, <1>5 DEF Moved, HandlerInv, At

LEMMA FindBoundMoves ==
    ASSUME HandlersType, NEW h \in Handlers, HandlerInv(h), FindBound(h)
    PROVE  Moved(h)
  <1> USE DEF Places, Answers
  <1>1. ~At(h, "idle")
    BY DEF FindBound, At
  <1>2. ASSUME NEW c \in Copies, Matching(copies, InstallationAt(h)) = {c}, GoTo(h, "reply", c, "BOUND")
        PROVE  Moved(h)
    <2>1. copies[c].status = "READY" /\ copies[c].installation = InstallationAt(h)
      BY <1>2 DEF Matching
    <2>2. copies' = copies /\ InstallationAt(h)' = InstallationAt(h)
      <3>1. handlers'[h].delivery = handlers[h].delivery
        BY <1>2, GoToNext
      <3> QED  BY <3>1 DEF FindBound, InstallationAt
    <2>3. copies'[c].status = "READY" /\ copies'[c].installation = InstallationAt(h)'
      BY <2>1, <2>2
    <2>4. BoundTo(c, InstallationAt(h))'
      BY <2>3 DEF BoundTo
    <2> QED  BY <1>1, <1>2, <2>4, GoToNext, BoundNext DEF Moved
  <1>3. CASE GoTo(h, "reply", None, "AMBIGUOUS")
    BY <1>1, <1>3, GoToNext, AnsweredNext DEF Moved
  <1>4. CASE GoTo(h, "unbound", None, None)
    BY <1>1, <1>4, GoToNext, AnsweredNext DEF Moved
  <1>5. \/ \E c \in Copies : Matching(copies, InstallationAt(h)) = {c} /\ GoTo(h, "reply", c, "BOUND")
        \/ GoTo(h, "reply", None, "AMBIGUOUS")
        \/ GoTo(h, "unbound", None, None)
    BY DEF FindBound
  <1> QED  BY <1>2, <1>3, <1>4, <1>5

LEMMA FindUnboundMoves ==
    ASSUME HandlersType, NEW h \in Handlers, HandlerInv(h), FindUnbound(h)
    PROVE  Moved(h)
  <1> USE DEF Places, Answers
  <1>1. ~At(h, "idle")
    BY DEF FindUnbound, At
  <1>2. ASSUME NEW c \in Copies, Matching(copies, None) = {c}, GoTo(h, "claim", c, None)
        PROVE  Moved(h)
    <2>1. copies'[c].status # "MISSING"
      BY <1>2 DEF Matching, FindUnbound
    <2> QED  BY <1>1, <1>2, <2>1, GoToNext, FoundNext DEF Moved
  <1>3. CASE GoTo(h, "reply", None, "NOT_FOUND")
    BY <1>1, <1>3, GoToNext, AnsweredNext DEF Moved
  <1>4. CASE GoTo(h, "reply", None, "AMBIGUOUS")
    BY <1>1, <1>4, GoToNext, AnsweredNext DEF Moved
  <1> QED  BY <1>2, <1>3, <1>4 DEF FindUnbound

LEMMA ClaimMoves ==
    ASSUME CopiesType, HandlersType, NEW h \in Handlers, HandlerInv(h), Claim(h)
    PROVE  Moved(h)
  <1> USE DEF Places, Answers
  <1>1. PICK c \in Copies : c = handlers[h].copy /\ copies[c].status # "MISSING" /\ ~At(h, "idle")
    BY DEF Claim, At, HandlerInv
  <1>2. CASE /\ Stored(c) /\ Set(c, [copies[c] EXCEPT !.installation = InstallationAt(h)])
             /\ GoTo(h, "reply", c, "BOUND")
    <2>1. copies' = [copies EXCEPT ![c] = [copies[c] EXCEPT !.installation = InstallationAt(h)]]
      BY <1>2 DEF Set
    <2>2. copies'[c].installation = InstallationAt(h) /\ copies'[c].status = copies[c].status
      BY <1>1, <2>1 DEF CopiesType, Metadata
    <2>3. InstallationAt(h)' = InstallationAt(h)
      <3>1. handlers'[h].delivery = handlers[h].delivery
        BY <1>1, <1>2, GoToNext
      <3> QED  BY <3>1 DEF InstallationAt
    <2>4. copies'[c].status # "MISSING"
      BY <1>1, <2>2
    <2>5. BoundTo(c, InstallationAt(h))'
      BY <2>2, <2>3, <2>4 DEF BoundTo
    <2> QED  BY <1>1, <1>2, <2>5, GoToNext, BoundNext DEF Moved
  <1>3. CASE GoTo(h, "rebind", c, None) /\ UNCHANGED copies
    BY <1>1, <1>3, GoToNext, FoundNext DEF Moved
  <1> QED  BY <1>1, <1>2, <1>3 DEF Claim

LEMMA RebindMoves ==
    ASSUME HandlersType, NEW h \in Handlers, HandlerInv(h), Rebind(h)
    PROVE  Moved(h)
  <1> USE DEF Places, Answers
  <1>1. PICK c \in Copies : c = handlers[h].copy /\ copies[c].status # "MISSING" /\ ~At(h, "idle")
    BY DEF Rebind, At, HandlerInv
  <1>2. CASE Stored(c) /\ copies[c].installation = InstallationAt(h) /\ GoTo(h, "reply", c, "BOUND")
    <2>1. copies' = copies /\ InstallationAt(h)' = InstallationAt(h)
      BY <1>1, <1>2, GoToNext DEF Rebind, InstallationAt
    <2>2. copies'[c].installation = InstallationAt(h) /\ copies'[c].status # "MISSING"
      BY <1>1, <1>2, <2>1
    <2> QED  BY <1>1, <1>2, <2>1, <2>2, GoToNext, BoundNext DEF Moved, BoundTo
  <1>3. CASE GoTo(h, "reply", c, "CONFLICT")
    BY <1>1, <1>3, GoToNext, AnsweredNext DEF Moved
  <1> QED  BY <1>1, <1>2, <1>3 DEF Rebind

LEMMA EndMoves ==
    ASSUME HandlersType, NEW h \in Handlers, Ended(h)
    PROVE  Moved(h)
  BY IdleNext DEF Ended, LookupFails, Ignore, Accept, Refuse, Moved

-----------------------------------------------------------------------------
(* Every step.                                                             *)

(* A step is one of a handler, or leaves the handlers and jobs alone, or   *)
(* is a restart.                                                           *)
LEMMA HandlersKept ==
    ASSUME BindingInv, Step
    PROVE  HandlersType' /\ \A h \in Handlers : HandlerInv(h)'
  <1> USE DEF BindingInv, TypeInv
  <1>1. CopiesType' /\ \A c \in Copies : Kept(c)
    BY CopiesKept
  <1>2. ASSUME NEW h \in Handlers, Moved(h)
        PROVE  HandlersType' /\ \A g \in Handlers : HandlerInv(g)'
    <2>1. ASSUME NEW g \in Handlers PROVE HandlerInv(g)'
      <3>1. CASE g = h
        BY <1>2, <3>1 DEF Moved
      <3>2. CASE g # h
        BY <1>1, <1>2, <3>2, HandlerKept DEF Moved
      <3> QED  BY <3>1, <3>2
    <2> QED  BY <1>2, <2>1 DEF Moved
  <1>3. CASE \E h \in Handlers :
            \/ \E d \in Deliveries : Receive(h, d)
            \/ FindBound(h) \/ FindUnbound(h) \/ Claim(h) \/ Rebind(h) \/ Ended(h)
    <2>1. PICK h \in Handlers : Moved(h)
      BY <1>3, ReceiveMoves, FindBoundMoves, FindUnboundMoves, ClaimMoves, RebindMoves, EndMoves
    <2> QED  BY <1>2, <2>1
  <1>4. CASE UNCHANGED handlers
    BY <1>1, <1>4, HandlerKept DEF HandlersType
  <1>5. CASE Restart
    <2>1. \A h \in Handlers : handlers'[h] = Idle
      BY <1>5 DEF Restart
    <2>2. /\ Idle.at = "idle" /\ Idle.delivery = None
          /\ Idle \in [at : Places, delivery : Deliveries \union {None},
                       copy : Copies \union {None}, answer : Answers]
      BY DEF Idle, Places, Answers
    <2>3. HandlersType'
      BY <1>5, <2>2 DEF Restart, HandlersType
    <2> QED  BY <2>1, <2>2, <2>3 DEF HandlerInv, At
  <1>6. CASE \E c \in Copies : Enqueue(c) \/ SyncEnds(c) \/ \E status \in {"READY", "FAILED"} : IngestEnds(c, status)
    BY <1>4, <1>6 DEF Enqueue, SyncEnds, IngestEnds
  <1>7. CASE \E q \in Requests :
            \/ \E c \in Copies, operation \in {"reindex", "delete"} : RequestChecked(q, c, operation)
            \/ Reindex(q) \/ Delete(q)
    BY <1>4, <1>7 DEF RequestChecked, Reindex, Delete
  <1> QED  BY <1>3, <1>5, <1>6, <1>7 DEF Step, Ended

LEMMA JobsKept ==
    ASSUME BindingInv, Step
    PROVE  JobsType' /\ \A job \in jobs' : JobInv(job)'
  <1> USE DEF BindingInv, TypeInv
  <1>1. \A c \in Copies : Kept(c)
    BY CopiesKept
  <1>2. \A job \in jobs : JobInv(job)'
    <2> TAKE job \in jobs
    <2>1. job.copy \in Copies /\ InstallationOf[job.delivery] \in Installations
      BY InstallationOfType DEF JobsType
    <2> QED  BY <1>1, <2>1, BoundToKept DEF JobInv
  <1>3. CASE UNCHANGED jobs
    BY <1>2, <1>3 DEF JobsType
  <1>4. ASSUME NEW h \in Handlers, Accept(h)
        PROVE  JobsType' /\ \A job \in jobs' : JobInv(job)'
    <2>1. PICK c \in Copies, d \in Deliveries :
                /\ c = handlers[h].copy /\ d = handlers[h].delivery
                /\ BoundTo(c, InstallationOf[d])
      BY <1>4 DEF Accept, HandlerInv, At, InstallationAt
    <2>2. jobs' = jobs \union {[delivery |-> d, copy |-> c]}
      BY <1>4, <2>1 DEF Accept
    <2>3. JobInv([delivery |-> d, copy |-> c])'
      BY <1>1, <2>1, BoundToKept, InstallationOfType DEF JobInv
    <2> QED  BY <1>2, <2>2, <2>3 DEF JobsType
  <1>5. CASE ~ \E h \in Handlers : Accept(h)
    BY <1>3, <1>5 DEF Step, Enqueue, SyncEnds, IngestEnds, RequestChecked, Reindex, Delete, Receive,
                      FindBound, FindUnbound, Claim, Rebind, LookupFails, Ignore, Refuse, Query, Restart
  <1> QED  BY <1>4, <1>5

LEMMA RequestsKept ==
    ASSUME RequestsType, Step
    PROVE  RequestsType'
  <1>1. ASSUME NEW q \in Requests, NEW c \in Copies, NEW operation \in {"reindex", "delete"},
               RequestChecked(q, c, operation)
        PROVE  RequestsType'
    BY <1>1 DEF RequestsType, RequestChecked
  <1>2. ASSUME NEW q \in Requests, Reindex(q) \/ Delete(q)
        PROVE  RequestsType'
    BY <1>2 DEF RequestsType, Reindex, Delete
  <1>3. CASE Restart
    BY <1>3 DEF RequestsType, Restart
  <1>4. CASE UNCHANGED requests
    BY <1>4 DEF RequestsType
  <1> QED  BY <1>1, <1>2, <1>3, <1>4 DEF Step, Enqueue, SyncEnds, IngestEnds, Receive, FindBound, FindUnbound,
                                         Claim, Rebind, LookupFails, Ignore, Accept, Refuse, Query

(* A handler that keeps the keys keeps its delivery, or has a job for it.  *)
LEMMA KeysKept ==
    ASSUME BindingInv, Step
    PROVE  (keys \subseteq Deliveries)' /\ TurnedAwayCanBeRedelivered'
  <1> USE DEF BindingInv, TypeInv, TurnedAwayCanBeRedelivered
  <1>1. ASSUME NEW h \in Handlers, NEW d \in Deliveries, Receive(h, d)
        PROVE  (keys \subseteq Deliveries)' /\ TurnedAwayCanBeRedelivered'
    <2>1. /\ keys' = keys \union {d} /\ jobs' = jobs /\ stuck' = stuck
          /\ handlers'[h].delivery = d
          /\ \A g \in Handlers \ {h} : handlers'[g] = handlers[g]
      BY <1>1 DEF Receive, HandlersType
    <2>2. handlers[h].delivery \notin keys
      BY <1>1, InstallationOfType DEF Receive, HandlerInv
    <2> QED  BY <2>1, <2>2
  <1>2. ASSUME NEW h \in Handlers, LookupFails(h) \/ Ignore(h) \/ Refuse(h)
        PROVE  (keys \subseteq Deliveries)' /\ TurnedAwayCanBeRedelivered'
    <2>1. /\ jobs' = jobs /\ RemoveKey(handlers[h].delivery)
          /\ handlers' = [handlers EXCEPT ![h] = Idle]
      BY <1>2 DEF LookupFails, Ignore, Refuse, RemoveKey
    <2>2. \A g \in Handlers \ {h} : handlers'[g] = handlers[g]
      BY <2>1, IdleNext
    <2>3. CASE KeyRemoved(handlers[h].delivery)
      BY <2>1, <2>2, <2>3 DEF KeyRemoved
    <2>4. CASE KeyKept(handlers[h].delivery)
      BY <2>1, <2>2, <2>4 DEF KeyKept
    <2> QED  BY <2>1, <2>3, <2>4 DEF RemoveKey
  <1>3. ASSUME NEW h \in Handlers, Accept(h)
        PROVE  (keys \subseteq Deliveries)' /\ TurnedAwayCanBeRedelivered'
    <2>1. /\ keys' = keys /\ stuck' = stuck
          /\ jobs' = jobs \union {[delivery |-> handlers[h].delivery, copy |-> handlers[h].copy]}
          /\ handlers' = [handlers EXCEPT ![h] = Idle]
      BY <1>3 DEF Accept
    <2>2. \A g \in Handlers \ {h} : handlers'[g] = handlers[g]
      BY <2>1, IdleNext
    <2>3. \E job \in jobs' : job.delivery = handlers[h].delivery
      <3>1. [delivery |-> handlers[h].delivery, copy |-> handlers[h].copy] \in jobs'
        BY <2>1
      <3> QED  BY <3>1
    <2>4. ASSUME NEW d \in keys, d \notin stuck
          PROVE  (\E g \in Handlers : handlers'[g].delivery = d) \/ (\E job \in jobs' : job.delivery = d)
      <3>1. CASE d = handlers[h].delivery
        BY <2>3, <3>1
      <3>2. CASE d # handlers[h].delivery
        BY <2>1, <2>2, <2>4, <3>2
      <3> QED  BY <3>1, <3>2
    <2> QED  BY <2>1, <2>4
  <1>4. CASE Restart
    <2>1. keys' = keys /\ jobs' = jobs
      BY <1>4 DEF Restart
    <2>2. ASSUME NEW d \in keys, NEW h \in Handlers, handlers[h].delivery = d
          PROVE  d \in stuck'
      BY <1>4, <2>2, InstallationOfType DEF Restart, HandlerInv
    <2>3. stuck \subseteq stuck'
      BY <1>4 DEF Restart
    <2> QED  BY <2>1, <2>2, <2>3
  <1>5. ASSUME NEW h \in Handlers, FindBound(h) \/ FindUnbound(h) \/ Claim(h) \/ Rebind(h)
        PROVE  (keys \subseteq Deliveries)' /\ TurnedAwayCanBeRedelivered'
    <2>1. PICK place, copy, answer : GoTo(h, place, copy, answer)
      BY <1>5 DEF FindBound, FindUnbound, Claim, Rebind
    <2>2. \A g \in Handlers : handlers'[g].delivery = handlers[g].delivery
      BY <2>1 DEF GoTo, HandlersType
    <2>3. UNCHANGED <<keys, jobs, stuck>>
      BY <1>5 DEF FindBound, FindUnbound, Claim, Rebind, Query
    <2> QED  BY <2>2, <2>3
  <1>6. CASE UNCHANGED <<keys, handlers, jobs, stuck>>
    BY <1>6
  <1> QED  BY <1>1, <1>2, <1>3, <1>4, <1>5, <1>6
           DEF Step, Enqueue, SyncEnds, IngestEnds, RequestChecked, Reindex, Delete

LEMMA BindingStutter == BindingInv /\ UNCHANGED vars => BindingInv'
  BY DEF vars, BindingInv, TypeInv, CopiesType, RequestsType, HandlersType, JobsType, HandlerInv, JobInv,
         BoundTo, Stored, At, InstallationAt, TurnedAwayCanBeRedelivered

LEMMA BindingNext == BindingInv /\ [Next]_vars => BindingInv'
  <1> SUFFICES ASSUME BindingInv, [Next]_vars PROVE BindingInv'
    OBVIOUS
  <1>1. CASE Next
    BY <1>1, CopiesKept, RequestsKept, HandlersKept, JobsKept, KeysKept DEF Next, BindingInv, TypeInv
  <1> QED  BY <1>1, BindingStutter

LEMMA BindingCorrect == Spec => []BindingInv
  BY BindingInit, BindingNext, PTL DEF Spec

-----------------------------------------------------------------------------
(* A job is for a copy bound to its installation until the copy is         *)
(* deleted: the webhook's jobs never work on a copy of another one.        *)
THEOREM JobsOfOwnInstallationHolds == Spec => []JobsOfOwnInstallation
  <1>1. BindingInv => JobsOfOwnInstallation
    BY DEF BindingInv, JobInv, BoundTo, JobsOfOwnInstallation
  <1> QED  BY <1>1, BindingCorrect, PTL

(* The key of a delivery that was turned away does not remain: it can be   *)
(* redelivered, unless Redis failed to delete that very key or a restart   *)
(* of the API left the delivery off.                                       *)
THEOREM RedeliveryHolds == Spec => []TurnedAwayCanBeRedelivered
  <1>1. BindingInv => TurnedAwayCanBeRedelivered
    BY DEF BindingInv
  <1> QED  BY <1>1, BindingCorrect, PTL

-----------------------------------------------------------------------------
(* The answers.                                                            *)

LEMMA AnswerIs ==
    ASSUME NEW table, NEW i, NEW c
    PROVE  /\ Matching(table, i) = {c} => Answer(table, i) = "BOUND"
           /\ Cardinality(Matching(table, i)) > 1 => Answer(table, i) = "AMBIGUOUS"
           /\ Matching(table, i) = {} /\ Matching(table, None) = {} => Answer(table, i) = "NOT_FOUND"
           /\ Matching(table, i) = {} /\ Cardinality(Matching(table, None)) > 1
                => Answer(table, i) = "AMBIGUOUS"
           /\ Matching(table, i) = {} /\ Matching(table, None) = {c} => Answer(table, i) = "BOUND"
  <1>1. Cardinality({c}) = 1 /\ Cardinality({}) = 0
    BY FS_Singleton, FS_EmptySet
  <1> QED  BY <1>1 DEF Answer

(* Each step changes one copy at most.                                     *)
OneChanges ==
    \A d, e \in Copies : copies'[d] # copies[d] /\ copies'[e] # copies[e] => d = e

LEMMA StepChangesOne ==
    ASSUME TypeInv, \A h \in Handlers : HandlerInv(h), Step
    PROVE  OneChanges
  <1>0. copies \in [Copies -> Metadata]
    BY DEF TypeInv, CopiesType
  <1>1. ASSUME NEW c, NEW fields, copies' = [copies EXCEPT ![c] = fields] PROVE OneChanges
    BY <1>0, <1>1 DEF OneChanges
  <1>2. CASE UNCHANGED copies
    BY <1>2 DEF OneChanges
  <1>3. ASSUME NEW c, NEW fields, Set(c, fields) PROVE OneChanges
    BY <1>1, <1>2, <1>3 DEF Set
  <1>4. CASE \E c \in Copies : Enqueue(c) \/ SyncEnds(c) \/ \E status \in {"READY", "FAILED"} : IngestEnds(c, status)
    <2>1. PICK c \in Copies : Enqueue(c) \/ SyncEnds(c) \/ \E status \in {"READY", "FAILED"} : IngestEnds(c, status)
      BY <1>4
    <2>2. \E fields : copies' = [copies EXCEPT ![c] = fields]
      BY <2>1 DEF Enqueue, SyncEnds, IngestEnds
    <2> QED  BY <1>1, <2>2
  <1>5. CASE \E q \in Requests : Reindex(q) \/ Delete(q)
    BY <1>1, <1>3, <1>5 DEF Reindex, Delete
  <1>6. CASE \E h \in Handlers : Claim(h) \/ Accept(h) \/ Refuse(h)
    BY <1>2, <1>3, <1>6 DEF Claim, Accept, Refuse
  <1>7. CASE \E q \in Requests, c \in Copies, operation \in {"reindex", "delete"} : RequestChecked(q, c, operation)
    BY <1>2, <1>7 DEF RequestChecked
  <1>8. CASE \E h \in Handlers :
            \/ \E d \in Deliveries : Receive(h, d)
            \/ FindBound(h) \/ FindUnbound(h) \/ Rebind(h) \/ LookupFails(h) \/ Ignore(h)
    BY <1>2, <1>8 DEF Receive, FindBound, FindUnbound, Rebind, LookupFails, Ignore
  <1>9. CASE Restart
    BY <1>2, <1>9 DEF Restart
  <1> QED  BY <1>4, <1>5, <1>6, <1>7, <1>8, <1>9 DEF Step

(* Where there was no copy of an installation and is one, there is one.    *)
LEMMA FirstMatchIsBound ==
    ASSUME OneChanges, NEW i, Matching(copies, i) = {}, Matching(copies', i) # {}
    PROVE  Answer(copies', i) = "BOUND"
  <1>1. PICK c \in Copies : c \in Matching(copies', i)
    BY DEF Matching
  <1>2. Matching(copies', i) = {c}
    BY <1>1 DEF Matching, OneChanges
  <1> QED  BY <1>2, AnswerIs

(* What a delivery's answer rests on while its queries are made.           *)
AnswerInv(h) ==
    /\ At(h, "unbound") =>
        \/ Matching(copies, InstallationAt(h)) = {}
        \/ "BOUND" \in seen[h].answers /\ seen[h].grown
    /\ handlers[h].at \in {"claim", "rebind"} => "BOUND" \in seen[h].answers
    /\ At(h, "rebind") /\ Stored(handlers[h].copy) => copies[handlers[h].copy].installation # None
    /\ At(h, "reply") =>
        \/ handlers[h].answer \in seen[h].answers
        \/ /\ handlers[h].answer = "CONFLICT"
           /\ handlers[h].copy \in Copies /\ copies[handlers[h].copy].status # "MISSING"
           /\ Stored(handlers[h].copy) =>
                copies[handlers[h].copy].installation \notin {None, InstallationAt(h)}
        \/ handlers[h].answer \in {"NOT_FOUND", "AMBIGUOUS"} /\ seen[h].grown

AnswersInv == \A h \in Handlers : AnswerInv(h)

(* What a step adds to the history of a delivery.                          *)
Observed(h, i) ==
    /\ seen'[h].answers = seen[h].answers \union {Answer(copies', i)}
    /\ seen'[h].grown = (seen[h].grown \/ ~(Matching(copies', i) \subseteq Matching(copies, i)))

LEMMA ObserveOne ==
    ASSUME Observe, NEW h \in Handlers, handlers'[h].at # "idle", NEW i,
           i = InstallationOf[handlers'[h].delivery]
    PROVE  Observed(h, i)
  BY DEF Observe, Observed

LEMMA AnswerKept ==
    ASSUME NEW h \in Handlers, HandlerInv(h), AnswerInv(h), handlers'[h] = handlers[h],
           \A c \in Copies : Kept(c), OneChanges, Observe
    PROVE  AnswerInv(h)'
  <1>1. CASE At(h, "idle")
    BY <1>1 DEF AnswerInv, At
  <1>2. CASE ~At(h, "idle")
    <2> DEFINE i == InstallationAt(h)
    <2>1. i = InstallationOf[handlers'[h].delivery] /\ InstallationAt(h)' = i /\ handlers'[h].at # "idle"
      BY <1>2 DEF InstallationAt, At
    <2>2. Observed(h, i)
      BY <2>1, ObserveOne
    <2> HIDE DEF i
    <2>3. CASE At(h, "unbound")
      <3>1. CASE Matching(copies', i) = {}
        BY <2>1, <2>3, <3>1 DEF AnswerInv, At
      <3>2. CASE Matching(copies', i) # {} /\ Matching(copies, i) = {}
        <4>1. Answer(copies', i) = "BOUND"
          BY <3>2, FirstMatchIsBound
        <4>2. "BOUND" \in seen'[h].answers /\ seen'[h].grown
          BY <2>2, <3>2, <4>1 DEF Observed
        <4> QED  BY <2>3, <4>2 DEF AnswerInv, At
      <3>3. CASE Matching(copies, i) # {}
        <4>1. "BOUND" \in seen[h].answers /\ seen[h].grown
          BY <2>3, <3>3 DEF AnswerInv, i
        <4>2. "BOUND" \in seen'[h].answers /\ seen'[h].grown
          BY <2>2, <4>1 DEF Observed
        <4> QED  BY <2>3, <4>2 DEF AnswerInv, At
      <3> QED  BY <3>1, <3>2, <3>3
    <2>4. CASE handlers[h].at \in {"claim", "rebind"}
      <3>1. "BOUND" \in seen'[h].answers
        BY <2>2, <2>4 DEF Observed, AnswerInv
      <3>2. handlers[h].copy \in Copies /\ copies[handlers[h].copy].status # "MISSING"
        BY <2>4 DEF HandlerInv
      <3>3. At(h, "rebind") /\ Stored(handlers[h].copy)' => copies'[handlers[h].copy].installation # None
        BY <3>2 DEF AnswerInv, Kept
      <3> QED  BY <2>4, <3>1, <3>3 DEF AnswerInv, At, Stored
    <2>5. CASE At(h, "reply")
      <3>1. CASE \/ handlers[h].answer \in seen[h].answers
                 \/ handlers[h].answer \in {"NOT_FOUND", "AMBIGUOUS"} /\ seen[h].grown
        <4>1. /\ handlers[h].answer \in seen[h].answers => handlers'[h].answer \in seen'[h].answers
              /\ seen[h].grown => seen'[h].grown
          BY <2>2 DEF Observed
        <4> QED  BY <2>5, <3>1, <4>1, <2>1 DEF AnswerInv, At
      <3>2. CASE ~(\/ handlers[h].answer \in seen[h].answers
                   \/ handlers[h].answer \in {"NOT_FOUND", "AMBIGUOUS"} /\ seen[h].grown)
        <4>1. /\ handlers[h].answer = "CONFLICT"
              /\ handlers[h].copy \in Copies /\ copies[handlers[h].copy].status # "MISSING"
              /\ Stored(handlers[h].copy) => copies[handlers[h].copy].installation \notin {None, i}
          BY <2>5, <3>2 DEF AnswerInv, i
        <4>2. /\ copies'[handlers[h].copy].status # "MISSING"
              /\ Stored(handlers[h].copy)' => copies'[handlers[h].copy].installation \notin {None, i}
          BY <4>1 DEF Kept
        <4> QED  BY <2>1, <2>5, <4>1, <4>2 DEF AnswerInv, At, Stored
      <3> QED  BY <3>1, <3>2
    <2>6. CASE At(h, "bound") \/ handlers[h].at \notin {"unbound", "claim", "rebind", "reply"}
      BY <2>6 DEF AnswerInv, At
    <2> QED  BY <2>3, <2>4, <2>5, <2>6 DEF At
  <1> QED  BY <1>1, <1>2

LEMMA FindBoundAnswers ==
    ASSUME HandlersType, NEW h \in Handlers, FindBound(h), Observe
    PROVE  AnswerInv(h)'
  <1> DEFINE i == InstallationAt(h)
  <1> USE DEF Places, Answers
  <1>1. copies' = copies
    BY DEF FindBound
  <1>2. ASSUME NEW place \in {"reply", "unbound"}, NEW copy \in Copies \union {None}, NEW answer \in Answers,
               GoTo(h, place, copy, answer)
        PROVE  /\ At(h, place)' /\ handlers'[h].answer = answer /\ InstallationAt(h)' = i
               /\ Answer(copies, i) \in seen'[h].answers
    <2>1. handlers'[h].at = place /\ handlers'[h].answer = answer /\ handlers'[h].delivery = handlers[h].delivery
      BY <1>2, GoToNext
    <2>2. i = InstallationOf[handlers'[h].delivery] /\ InstallationAt(h)' = i
      BY <2>1 DEF InstallationAt
    <2> HIDE DEF i
    <2>3. Observed(h, i)
      BY <2>1, <2>2, ObserveOne
    <2> QED  BY <1>1, <2>1, <2>2, <2>3 DEF Observed, At
  <1> HIDE DEF i
  <1>3. CASE \E c \in Copies : Matching(copies, i) = {c} /\ GoTo(h, "reply", c, "BOUND")
    <2>1. PICK c \in Copies : Matching(copies, i) = {c} /\ GoTo(h, "reply", c, "BOUND")
      BY <1>3
    <2>2. Answer(copies, i) = "BOUND"
      BY <2>1, AnswerIs
    <2> QED  BY <1>2, <2>1, <2>2 DEF AnswerInv, At
  <1>4. CASE Cardinality(Matching(copies, i)) > 1 /\ GoTo(h, "reply", None, "AMBIGUOUS")
    <2>1. Answer(copies, i) = "AMBIGUOUS"
      BY <1>4, AnswerIs
    <2> QED  BY <1>2, <1>4, <2>1 DEF AnswerInv, At
  <1>5. CASE Matching(copies, i) = {} /\ GoTo(h, "unbound", None, None)
    BY <1>1, <1>2, <1>5 DEF AnswerInv, At
  <1> QED  BY <1>3, <1>4, <1>5 DEF FindBound, i

LEMMA FindUnboundAnswers ==
    ASSUME HandlersType, NEW h \in Handlers, AnswerInv(h), FindUnbound(h), Observe
    PROVE  AnswerInv(h)'
  <1> DEFINE i == InstallationAt(h)
  <1> USE DEF Places, Answers
  <1>1. copies' = copies /\ At(h, "unbound")
    BY DEF FindUnbound
  <1>2. ASSUME NEW place \in {"reply", "claim"}, NEW copy \in Copies \union {None}, NEW answer \in Answers,
               GoTo(h, place, copy, answer)
        PROVE  /\ At(h, place)' /\ handlers'[h].answer = answer /\ InstallationAt(h)' = i
               /\ Answer(copies, i) \in seen'[h].answers
               /\ \/ Matching(copies, i) = {}
                  \/ "BOUND" \in seen'[h].answers /\ seen'[h].grown
    <2>1. handlers'[h].at = place /\ handlers'[h].answer = answer /\ handlers'[h].delivery = handlers[h].delivery
      BY <1>2, GoToNext
    <2>2. i = InstallationOf[handlers'[h].delivery] /\ InstallationAt(h)' = i
      BY <2>1 DEF InstallationAt
    <2>3. \/ Matching(copies, i) = {}
          \/ "BOUND" \in seen[h].answers /\ seen[h].grown
      BY <1>1 DEF AnswerInv
    <2> HIDE DEF i
    <2>4. Observed(h, i)
      BY <2>1, <2>2, ObserveOne
    <2> QED  BY <1>1, <2>1, <2>2, <2>3, <2>4 DEF Observed, At
  <1> HIDE DEF i
  <1>3. CASE Matching(copies, None) = {} /\ GoTo(h, "reply", None, "NOT_FOUND")
    <2>1. Matching(copies, i) = {} => Answer(copies, i) = "NOT_FOUND"
      BY <1>3, AnswerIs
    <2> QED  BY <1>2, <1>3, <2>1 DEF AnswerInv, At
  <1>4. CASE Cardinality(Matching(copies, None)) > 1 /\ GoTo(h, "reply", None, "AMBIGUOUS")
    <2>1. Matching(copies, i) = {} => Answer(copies, i) = "AMBIGUOUS"
      BY <1>4, AnswerIs
    <2> QED  BY <1>2, <1>4, <2>1 DEF AnswerInv, At
  <1>5. CASE \E c \in Copies : Matching(copies, None) = {c} /\ GoTo(h, "claim", c, None)
    <2>1. PICK c \in Copies : Matching(copies, None) = {c} /\ GoTo(h, "claim", c, None)
      BY <1>5
    <2>2. Matching(copies, i) = {} => Answer(copies, i) = "BOUND"
      BY <2>1, AnswerIs
    <2> QED  BY <1>2, <2>1, <2>2 DEF AnswerInv, At
  <1> QED  BY <1>3, <1>4, <1>5 DEF FindUnbound

LEMMA ClaimAnswers ==
    ASSUME HandlersType, NEW h \in Handlers, HandlerInv(h), AnswerInv(h), Claim(h) \/ Rebind(h), Observe
    PROVE  AnswerInv(h)'
  <1> DEFINE i == InstallationAt(h)
             c == handlers[h].copy
  <1> USE DEF Places, Answers
  <1>1. /\ c \in Copies /\ "BOUND" \in seen[h].answers /\ copies[c].status # "MISSING"
        /\ At(h, "rebind") /\ Stored(c) => copies[c].installation # None
    BY DEF Claim, Rebind, HandlerInv, AnswerInv, At
  <1>2. ASSUME NEW place \in {"reply", "rebind"}, NEW answer \in Answers, GoTo(h, place, c, answer)
        PROVE  /\ At(h, place)' /\ handlers'[h].answer = answer /\ InstallationAt(h)' = i
               /\ handlers'[h].copy = c /\ "BOUND" \in seen'[h].answers
    <2>1. /\ handlers'[h].at = place /\ handlers'[h].answer = answer /\ handlers'[h].copy = c
          /\ handlers'[h].delivery = handlers[h].delivery
      BY <1>1, <1>2, GoToNext
    <2>2. i = InstallationOf[handlers'[h].delivery] /\ InstallationAt(h)' = i
      BY <2>1 DEF InstallationAt
    <2> HIDE DEF i
    <2>3. Observed(h, i)
      BY <2>1, <2>2, ObserveOne
    <2> QED  BY <1>1, <2>1, <2>2, <2>3 DEF Observed, At
  <1>3. \/ GoTo(h, "reply", c, "BOUND")
        \/ /\ UNCHANGED copies /\ GoTo(h, "rebind", c, None)
           /\ Stored(c) => copies[c].installation # None
        \/ /\ UNCHANGED copies /\ At(h, "rebind") /\ GoTo(h, "reply", c, "CONFLICT")
           /\ Stored(c) => copies[c].installation # i
    BY DEF Claim, Rebind
  <1> HIDE DEF i, c
  <1>4. CASE GoTo(h, "reply", c, "BOUND")
    BY <1>2, <1>4 DEF AnswerInv, At
  <1>5. CASE /\ UNCHANGED copies /\ GoTo(h, "rebind", c, None)
             /\ Stored(c) => copies[c].installation # None
    BY <1>2, <1>5 DEF AnswerInv, At, Stored
  <1>6. CASE /\ UNCHANGED copies /\ At(h, "rebind") /\ GoTo(h, "reply", c, "CONFLICT")
             /\ Stored(c) => copies[c].installation # i
    <2>1. Stored(c) => copies[c].installation \notin {None, i}
      BY <1>1, <1>6
    <2> QED  BY <1>1, <1>2, <1>6, <2>1 DEF AnswerInv, At, Stored
  <1> QED  BY <1>3, <1>4, <1>5, <1>6

LEMMA AnswersNext ==
    BindingInv /\ AnswersInv /\ [Next]_vars => AnswersInv'
  <1> SUFFICES ASSUME BindingInv, AnswersInv, [Next]_vars, NEW g \in Handlers PROVE AnswerInv(g)'
    BY DEF AnswersInv
  <1>0. /\ TypeInv /\ HandlersType /\ \A h \in Handlers : HandlerInv(h) /\ AnswerInv(h)
    BY DEF BindingInv, TypeInv, AnswersInv
  <1>1. CASE UNCHANGED vars
    BY <1>0, <1>1 DEF vars, AnswerInv, At, InstallationAt, Stored
  <1>2. CASE Next
    <2>0. Step /\ Observe /\ OneChanges /\ \A c \in Copies : Kept(c)
      BY <1>0, <1>2, CopiesKept, StepChangesOne DEF Next
    <2>1. CASE handlers'[g] = handlers[g]
      BY <1>0, <2>0, <2>1, AnswerKept
    <2>2. ASSUME NEW h \in Handlers, Moved(h), AnswerInv(h)' PROVE AnswerInv(g)'
      BY <2>1, <2>2 DEF Moved
    <2>3. ASSUME NEW h \in Handlers, handlers'[h].at \in {"idle", "bound"} PROVE AnswerInv(h)'
      BY <2>3 DEF AnswerInv, At
    <2>4. CASE Restart
      <3>1. handlers'[g].at = "idle"
        BY <2>4 DEF Restart, Idle
      <3> QED  BY <2>3, <3>1
    <2>5. ASSUME NEW h \in Handlers, NEW d \in Deliveries, Receive(h, d) PROVE AnswerInv(g)'
      <3>1. Moved(h)
        BY <1>0, <2>5, ReceiveMoves
      <3>2. handlers'[h].at = "bound"
        BY <1>0, <2>5 DEF Receive, HandlersType
      <3> QED  BY <2>2, <2>3, <3>1, <3>2
    <2>6. ASSUME NEW h \in Handlers, FindBound(h) PROVE AnswerInv(g)'
      BY <1>0, <2>0, <2>2, <2>6, FindBoundMoves, FindBoundAnswers
    <2>7. ASSUME NEW h \in Handlers, FindUnbound(h) PROVE AnswerInv(g)'
      BY <1>0, <2>0, <2>2, <2>7, FindUnboundMoves, FindUnboundAnswers
    <2>8. ASSUME NEW h \in Handlers, Claim(h) \/ Rebind(h) PROVE AnswerInv(g)'
      <3>1. Moved(h)
        BY <1>0, <2>8, ClaimMoves, RebindMoves DEF TypeInv
      <3> QED  BY <1>0, <2>0, <2>2, <2>8, <3>1, ClaimAnswers
    <2>9. ASSUME NEW h \in Handlers, Ended(h) PROVE AnswerInv(g)'
      <3>1. Moved(h)
        BY <1>0, <2>9, EndMoves
      <3>2. handlers'[h].at = "idle"
        BY <1>0, <2>9 DEF Ended, LookupFails, Ignore, Accept, Refuse, HandlersType, Idle
      <3> QED  BY <2>2, <2>3, <3>1, <3>2
    <2>10. CASE UNCHANGED handlers
      BY <2>1, <2>10
    <2> QED
      BY <2>0, <2>4, <2>5, <2>6, <2>7, <2>8, <2>9, <2>10
      DEF Step, Ended, Enqueue, SyncEnds, IngestEnds, RequestChecked, Reindex, Delete
  <1> QED  BY <1>1, <1>2

(* The queries of a delivery answer as one would have at some moment       *)
(* meanwhile, or the copy was taken or deleted before it was claimed, or a *)
(* copy of the installation came up between the first two queries          *)
(* (graph/store.py, github_repository).  With three copies, the third       *)
(* exception is also seen as AMBIGUOUS.                                    *)
THEOREM AnsweredRightlyHolds == Spec => []AnsweredRightly
  <1>1. Init => AnswersInv
    BY DEF Init, AnswersInv, AnswerInv, At, Idle
  <1>2. AnswersInv => AnsweredRightly
    BY DEF AnswersInv, AnswerInv, AnsweredRightly, At
  <1> QED  BY <1>1, <1>2, AnswersNext, BindingCorrect, PTL DEF Spec
=============================================================================
