------------------------------ MODULE Binding ------------------------------
(***************************************************************************)
(* Binding: which indexed copy of a GitHub repository an event is for.     *)
(*                                                                         *)
(* Several owners may index one repository; each copy has its metadata.    *)
(* The first event of an installation of the GitHub App binds a copy to    *)
(* it.  github_repository does so in up to four queries, between which     *)
(* other events are handled, copies are reindexed, deleted and published.  *)
(*                                                                         *)
(* All copies are of one repository.  The shipped deployment handles its   *)
(* events one at a time, in one process; the queries are written for       *)
(* several, and so is this module.                                         *)
(***************************************************************************)
EXTENDS Naturals, FiniteSets

CONSTANTS
    None,
    Copies,
    Installations,
    Deliveries,
    InstallationOf,  \* the installation that a delivery names
    Pushes,          \* the deliveries that are pushes; others are reviews
    Handlers,        \* requests of GitHub handled at once
    Requests,        \* requests of owners handled at once
    MaxStuck         \* bound on the keys that Redis fails to delete

ASSUME InstallationOfType ==
    /\ InstallationOf \in [Deliveries -> Installations]
    /\ None \notin Installations \union Deliveries
    /\ MaxStuck \in Nat

VARIABLES
    copies,    \* RepositoryMeta of each copy
    requests,  \* reindex and delete requests whose check is done
    keys,      \* regora:github-delivery:<id> in Redis
    handlers,  \* what github_webhook has come to
    jobs,      \* queued jobs: for which copy, because of which delivery
    restarted, \* has the API been restarted?
    stuck,     \* history: whose key Redis did not delete, or a restart left
    seen       \* history: what one query would have answered meanwhile

vars == <<copies, requests, keys, handlers, jobs, restarted, stuck, seen>>

Missing == [status |-> "MISSING", installation |-> None, syncing |-> FALSE]

Deleted == [status |-> "DELETED", installation |-> None, syncing |-> FALSE]

Idle == [at |-> "idle", delivery |-> None, copy |-> None, answer |-> None]

Stored(c) == copies[c].status \in {"QUEUED", "READY", "FAILED"}

(* The copies that a query for an installation, or for None, matches.      *)
Matching(table, i) == {c \in Copies : table[c].status = "READY" /\ table[c].installation = i}

(* What github_repository answers if nothing happens during its queries.   *)
Answer(table, i) ==
    LET bound == Cardinality(Matching(table, i))
        unbound == Cardinality(Matching(table, None))
    IN  IF bound = 1 \/ (bound = 0 /\ unbound = 1) THEN "BOUND"
        ELSE IF bound = 0 /\ unbound = 0 THEN "NOT_FOUND" ELSE "AMBIGUOUS"

Unseen == [answers |-> {}, grown |-> FALSE]

(* History: the answers there were while a delivery is handled, and if a   *)
(* copy of its installation came up, bound or published meanwhile.         *)
Observe ==
    seen' = [h \in Handlers |->
        IF handlers'[h].at = "idle" THEN Unseen
        ELSE LET i == InstallationOf[handlers'[h].delivery]
             IN  [answers |-> seen[h].answers \union {Answer(copies', i)},
                  grown |-> seen[h].grown \/ ~(Matching(copies', i) \subseteq Matching(copies, i))]]

Init ==
    /\ copies = [c \in Copies |-> Missing]
    /\ requests = [q \in Requests |-> None]
    /\ keys = {}
    /\ handlers = [h \in Handlers |-> Idle]
    /\ jobs = {}
    /\ restarted = FALSE
    /\ stuck = {}
    /\ seen = [h \in Handlers |-> Unseen]

-----------------------------------------------------------------------------
(* Owners and workers.                                                     *)

Set(c, fields) == copies' = IF Stored(c) THEN [copies EXCEPT ![c] = fields] ELSE copies

Enqueue(c) ==
    /\ copies[c] = Missing
    /\ copies' = [copies EXCEPT ![c].status = "QUEUED"]
    /\ UNCHANGED <<requests, keys, handlers, jobs, restarted, stuck>>

(* An ingestion ends; the binding is not among the fields it publishes.    *)
IngestEnds(c, status) ==
    /\ copies[c].status = "QUEUED"
    /\ copies' = [copies EXCEPT ![c].status = status]
    /\ UNCHANGED <<requests, keys, handlers, jobs, restarted, stuck>>

SyncEnds(c) ==
    /\ copies[c].syncing
    /\ copies' = [copies EXCEPT ![c].syncing = FALSE]
    /\ UNCHANGED <<requests, keys, handlers, jobs, restarted, stuck>>

(* reindex and delete check that no operation is active and then act.      *)
RequestChecked(q, c, operation) ==
    /\ requests[q] = None
    /\ copies[c].status \in {"READY", "FAILED"} /\ ~copies[c].syncing
    /\ requests' = [requests EXCEPT ![q] = [operation |-> operation, copy |-> c]]
    /\ UNCHANGED <<copies, keys, handlers, jobs, restarted, stuck>>

Reindex(q) ==
    /\ requests[q] # None /\ requests[q].operation = "reindex"
    /\ Set(requests[q].copy, [copies[requests[q].copy] EXCEPT !.status = "QUEUED"])
    /\ requests' = [requests EXCEPT ![q] = None]
    /\ UNCHANGED <<keys, handlers, jobs, restarted, stuck>>

Delete(q) ==
    /\ requests[q] # None /\ requests[q].operation = "delete"
    /\ copies' = [copies EXCEPT ![requests[q].copy] = Deleted]
    /\ requests' = [requests EXCEPT ![q] = None]
    /\ UNCHANGED <<keys, handlers, jobs, restarted, stuck>>

-----------------------------------------------------------------------------
(* Deliveries.                                                             *)

At(h, place) == handlers[h].at = place

InstallationAt(h) == InstallationOf[handlers[h].delivery]

GoTo(h, place, copy, answer) ==
    handlers' = [handlers EXCEPT ![h] = [@ EXCEPT !.at = place, !.copy = copy, !.answer = answer]]

Query(h) == UNCHANGED <<requests, keys, jobs, restarted, stuck>>

(* A delivery whose key is there is answered as a duplicate.               *)
Receive(h, d) ==
    /\ At(h, "idle")
    /\ d \notin keys
    /\ keys' = keys \union {d}
    /\ handlers' = [handlers EXCEPT ![h] =
                        [at |-> "bound", delivery |-> d, copy |-> None, answer |-> None]]
    /\ UNCHANGED <<copies, requests, jobs, restarted, stuck>>

FindBound(h) ==
    LET bound == Matching(copies, InstallationAt(h))
    IN  /\ At(h, "bound")
        /\ \/ \E c \in Copies : bound = {c} /\ GoTo(h, "reply", c, "BOUND")
           \/ Cardinality(bound) > 1 /\ GoTo(h, "reply", None, "AMBIGUOUS")
           \/ bound = {} /\ GoTo(h, "unbound", None, None)
        /\ UNCHANGED copies /\ Query(h)

FindUnbound(h) ==
    LET unbound == Matching(copies, None)
    IN  /\ At(h, "unbound")
        /\ \/ unbound = {} /\ GoTo(h, "reply", None, "NOT_FOUND")
           \/ Cardinality(unbound) > 1 /\ GoTo(h, "reply", None, "AMBIGUOUS")
           \/ \E c \in Copies : unbound = {c} /\ GoTo(h, "claim", c, None)
        /\ UNCHANGED copies /\ Query(h)

(* Mutant: the copy is claimed whoever has claimed it meanwhile.           *)
ClaimUnguarded(h) ==
    /\ At(h, "claim")
    /\ Set(handlers[h].copy, [copies[handlers[h].copy] EXCEPT !.installation = InstallationAt(h)])
    /\ GoTo(h, "reply", handlers[h].copy, "BOUND")
    /\ Query(h)

(* The copy that was found may be bound, reindexed or deleted by now.      *)
Claim(h) ==
    LET c == handlers[h].copy
        free == Stored(c) /\ copies[c].installation = None
    IN  /\ At(h, "claim")
        /\ \/ /\ free
              /\ Set(c, [copies[c] EXCEPT !.installation = InstallationAt(h)])
              /\ GoTo(h, "reply", c, "BOUND")
           \/ /\ ~free
              /\ GoTo(h, "rebind", c, None)
              /\ UNCHANGED copies
        /\ Query(h)

(* Mutant: a copy that could not be claimed is not looked at again.        *)
RebindNever(h) ==
    /\ At(h, "rebind")
    /\ GoTo(h, "reply", handlers[h].copy, "CONFLICT")
    /\ UNCHANGED copies /\ Query(h)

Rebind(h) ==
    LET c == handlers[h].copy
        own == Stored(c) /\ copies[c].installation = InstallationAt(h)
    IN  /\ At(h, "rebind")
        /\ GoTo(h, "reply", c, IF own THEN "BOUND" ELSE "CONFLICT")
        /\ UNCHANGED copies /\ Query(h)

(* The key goes, for the redelivery of the event.  When Redis fails, the   *)
(* deletion raises and the key stays for a day.                            *)
KeyRemoved(d) == keys' = keys \ {d} /\ UNCHANGED stuck

KeyKept(d) == Cardinality(stuck) < MaxStuck /\ stuck' = stuck \union {d} /\ UNCHANGED keys

RemoveKey(d) == KeyRemoved(d) \/ KeyKept(d)

LookupFails(h) ==
    /\ handlers[h].at \in {"bound", "unbound", "claim", "rebind"}
    /\ RemoveKey(handlers[h].delivery)
    /\ handlers' = [handlers EXCEPT ![h] = Idle]
    /\ UNCHANGED <<copies, requests, jobs, restarted>>

(* Mutant: the key is kept, and GitHub's redelivery is a duplicate.        *)
IgnoreForADay(h) ==
    /\ At(h, "reply") /\ handlers[h].answer # "BOUND"
    /\ handlers' = [handlers EXCEPT ![h] = Idle]
    /\ UNCHANGED <<copies, requests, keys, jobs, restarted, stuck>>

Ignore(h) ==
    /\ At(h, "reply") /\ handlers[h].answer # "BOUND"
    /\ RemoveKey(handlers[h].delivery)
    /\ handlers' = [handlers EXCEPT ![h] = Idle]
    /\ UNCHANGED <<copies, requests, jobs, restarted>>

(* A push sets the status of the synchronization; a job is queued, which   *)
(* is for the copy and the installation.                                   *)
Accept(h) ==
    LET c == handlers[h].copy
        d == handlers[h].delivery
    IN  /\ At(h, "reply") /\ handlers[h].answer = "BOUND"
        /\ Set(c, [copies[c] EXCEPT !.syncing = @ \/ d \in Pushes])
        /\ jobs' = jobs \union {[delivery |-> d, copy |-> c]}
        /\ handlers' = [handlers EXCEPT ![h] = Idle]
        /\ UNCHANGED <<requests, keys, restarted, stuck>>

(* Queueing fails, or the write of the push's status before it: the key is *)
(* removed, and then the failure recorded, if the database takes it.  When *)
(* Redis does not delete the key either, nothing is recorded.              *)
Refuse(h) ==
    LET c == handlers[h].copy
        d == handlers[h].delivery
        left == copies[c].syncing
        Leave(syncing) == Set(c, [copies[c] EXCEPT !.syncing = syncing])
    IN  /\ At(h, "reply") /\ handlers[h].answer = "BOUND"
        /\ \/ \E syncing \in BOOLEAN :
                (d \in Pushes \/ syncing = left) /\ Leave(syncing) /\ KeyRemoved(d)
           \/ \E syncing \in {left, left \/ d \in Pushes} : Leave(syncing) /\ KeyKept(d)
        /\ handlers' = [handlers EXCEPT ![h] = Idle]
        /\ UNCHANGED <<requests, jobs, restarted>>

Restart ==
    /\ ~restarted
    /\ restarted' = TRUE
    /\ stuck' = stuck \union {handlers[h].delivery : h \in {g \in Handlers : ~At(g, "idle")}}
    /\ requests' = [q \in Requests |-> None]
    /\ handlers' = [h \in Handlers |-> Idle]
    /\ UNCHANGED <<copies, keys, jobs>>

Step ==
    \/ \E c \in Copies : Enqueue(c) \/ SyncEnds(c) \/ \E status \in {"READY", "FAILED"} : IngestEnds(c, status)
    \/ \E q \in Requests :
        \/ \E c \in Copies, operation \in {"reindex", "delete"} : RequestChecked(q, c, operation)
        \/ Reindex(q)
        \/ Delete(q)
    \/ \E h \in Handlers :
        \/ \E d \in Deliveries : Receive(h, d)
        \/ FindBound(h)
        \/ FindUnbound(h)
        \/ Claim(h)
        \/ Rebind(h)
        \/ LookupFails(h)
        \/ Ignore(h)
        \/ Accept(h)
        \/ Refuse(h)
    \/ Restart

Next == Step /\ Observe

Spec == Init /\ [][Next]_vars

-----------------------------------------------------------------------------
(* Properties.                                                             *)

(* A job is for a copy of its installation, from when it was accepted to   *)
(* when the copy is deleted: no other installation ever takes a copy over, *)
(* however the queries of several deliveries interleave.                   *)
JobsOfOwnInstallation ==
    \A job \in jobs : Stored(job.copy) => copies[job.copy].installation = InstallationOf[job.delivery]

(* The four queries answer as one would have at some moment meanwhile.     *)
(* The exceptions: a copy that was found may be deleted or taken before it *)
(* is claimed, and when a copy is bound or published between the first two *)
(* queries, neither of them finds it: the second may find none, or two     *)
(* others that were published since.                                       *)
AnsweredRightly ==
    \A h \in Handlers : At(h, "reply") =>
        \/ handlers[h].answer \in seen[h].answers
        \/ /\ handlers[h].answer = "CONFLICT"
           /\ Stored(handlers[h].copy) => copies[handlers[h].copy].installation # InstallationAt(h)
        \/ handlers[h].answer \in {"NOT_FOUND", "AMBIGUOUS"} /\ seen[h].grown

(* The key of a delivery that was not accepted does not outlive it, so     *)
(* that owners can correct what is wrong and redeliver the event.  The     *)
(* exceptions are the deliveries whose key Redis failed to delete, and     *)
(* those that a restart of the API left off.                               *)
TurnedAwayCanBeRedelivered ==
    \A d \in keys :
        \/ d \in stuck
        \/ \E h \in Handlers : handlers[h].delivery = d
        \/ \E job \in jobs : job.delivery = d
=============================================================================
