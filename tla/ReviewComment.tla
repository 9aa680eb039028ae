--------------------------- MODULE ReviewComment ---------------------------
(***************************************************************************)
(* publish_pull_request_comment: the one comment that each actor - the     *)
(* GitHub App for PR Guardian, a user for a review published from the      *)
(* workspace - keeps on a pull request.  The comments are listed page by   *)
(* page until one ends with the actor's marker; that one is edited, or a   *)
(* new one is added.  Each GitHub request is one step.                     *)
(*                                                                         *)
(* A comment is known by its marker, whoever wrote it: that of a person    *)
(* may end with a marker too, copied from a comment of Regora's.  People   *)
(* who edit comments are left out.                                         *)
(***************************************************************************)
EXTENDS Integers, Sequences, FiniteSets

CONSTANTS
    Actors,        \* whose markers there are
    Nobody,        \* the author of the other comments, and no marker
    Publishers,    \* the calls that may run at the same time
    ActorOf,       \* the actor each of them publishes for
    PageSize,      \* comments on a page of GitHub's list
    SearchLimit,   \* comments searched at most: 5 pages
    MaxComments,   \* bound on the comments ever written there
    MaxReviews,    \* bound on the reviews published
    MayDelete      \* whether people delete comments of the pull request

ASSUME CommentBounds ==
    /\ Nobody \notin Actors /\ ActorOf \in [Publishers -> Actors]
    /\ PageSize \in Nat \ {0} /\ SearchLimit \in Nat \ {0}
    /\ MaxComments \in Nat /\ MaxReviews \in Nat
    /\ MayDelete \in BOOLEAN

VARIABLES
    comments, \* the comments of the pull request, oldest first: [id, author, marker, text]
    nextId,   \* the id of the next comment
    reviews,  \* reviews published so far, the text of the last one
    calls,    \* each call: [pc, text, searched, found]
    shown     \* the last text each actor was told is published

vars == <<comments, nextId, reviews, calls, shown>>

IdleCall == [pc |-> "idle", text |-> 0, searched |-> 0, found |-> 0]

-----------------------------------------------------------------------------
(* People.                                                                 *)

Comment(author, marker, text) == [id |-> nextId, author |-> author, marker |-> marker, text |-> text]

OthersComment ==
    /\ nextId <= MaxComments
    /\ \E marker \in Actors \union {Nobody} :
          comments' = Append(comments, Comment(Nobody, marker, 0))
    /\ nextId' = nextId + 1
    /\ UNCHANGED <<reviews, calls, shown>>

(* The comments behind it move up, on their pages too.                     *)
DeleteComment ==
    /\ MayDelete
    /\ \E i \in DOMAIN comments :
          comments' = SubSeq(comments, 1, i - 1) \o SubSeq(comments, i + 1, Len(comments))
    /\ UNCHANGED <<nextId, reviews, calls, shown>>

-----------------------------------------------------------------------------
(* publish_pull_request_comment.                                           *)

Start(p) ==
    /\ calls[p].pc = "idle" /\ reviews < MaxReviews
    /\ reviews' = reviews + 1
    /\ calls' = [calls EXCEPT ![p] = [IdleCall EXCEPT !.pc = "list", !.text = reviews']]
    /\ UNCHANGED <<comments, nextId, shown>>

(* Mutant: a marker of any actor.                                          *)
AnyMarker(i, p) == comments[i].marker # Nobody

Marked(i, p) == comments[i].marker = ActorOf[p]

(* The numbers of the comments on the next page.                           *)
Page(p) == {i \in DOMAIN comments :
                calls[p].searched < i /\ i <= calls[p].searched + PageSize}

(* Mutant: one page.                                                       *)
OnePage(p) == TRUE

(* The page is not full, or the fifth.                                     *)
LastPage(p) ==
    \/ Len(comments) < calls[p].searched + PageSize
    \/ calls[p].searched + PageSize >= SearchLimit

Found(p) ==
    /\ calls[p].pc = "list"
    /\ \E i \in Page(p) :
        /\ Marked(i, p) /\ \A j \in Page(p) : Marked(j, p) => i <= j
        /\ calls' = [calls EXCEPT ![p].pc = "patch", ![p].found = comments[i].id]
    /\ UNCHANGED <<comments, nextId, reviews, shown>>

NotFound(p) ==
    /\ calls[p].pc = "list" /\ \A i \in Page(p) : ~Marked(i, p)
    /\ calls' = IF LastPage(p) THEN [calls EXCEPT ![p].pc = "post"]
                ELSE [calls EXCEPT ![p].searched = @ + PageSize]
    /\ UNCHANGED <<comments, nextId, reviews, shown>>

(* What is published ends with the actor's marker, and no other one.  The  *)
(* answer may be lost, or the call time out, after GitHub did what it      *)
(* was asked to.                                                           *)
Answer(p) ==
    /\ calls' = [calls EXCEPT ![p] = IdleCall]
    /\ \/ shown' = [shown EXCEPT ![ActorOf[p]] = calls[p].text]
       \/ UNCHANGED shown

Patch(p) ==
    /\ calls[p].pc = "patch"
    /\ \E i \in DOMAIN comments :
        /\ comments[i].id = calls[p].found
        /\ comments' = [comments EXCEPT ![i].text = calls[p].text]
    /\ Answer(p)
    /\ UNCHANGED <<nextId, reviews>>

Post(p) ==
    /\ calls[p].pc = "post" /\ nextId <= MaxComments
    /\ comments' = Append(comments, Comment(ActorOf[p], ActorOf[p], calls[p].text))
    /\ nextId' = nextId + 1
    /\ Answer(p)
    /\ UNCHANGED reviews

(* GitHub refuses, as it may when the comment is another's, or cannot be   *)
(* reached, or the comment is not there any more.                          *)
PublishFails(p) ==
    /\ calls[p].pc # "idle"
    /\ calls' = [calls EXCEPT ![p] = IdleCall]
    /\ UNCHANGED <<comments, nextId, reviews, shown>>

-----------------------------------------------------------------------------
Init ==
    /\ comments = <<>> /\ nextId = 1 /\ reviews = 0
    /\ calls = [p \in Publishers |-> IdleCall]
    /\ shown = [a \in Actors |-> 0]

PublishStep(p) == Start(p) \/ Found(p) \/ NotFound(p) \/ Patch(p) \/ Post(p) \/ PublishFails(p)

Next == OthersComment \/ DeleteComment \/ \E p \in Publishers : PublishStep(p)

Spec == Init /\ [][Next]_vars

-----------------------------------------------------------------------------
(* Properties.                                                             *)

NothingDeleted == Len(comments) = nextId - 1

(* "Repeated updates edit the same Regora comment instead of adding new    *)
(* comments" (docs/GITHUB_PR_GUARDIAN.md:60), also when GitHub's answer    *)
(* was lost and the review is published again.  A deletion moves comments  *)
(* to pages that were read already and excuses a second one.               *)
OneCommentPerActor ==
    NothingDeleted =>
        \A i, j \in DOMAIN comments :
            (comments[i].author # Nobody /\ comments[i].author = comments[j].author) => i = j

(* An actor that was told its review is published finds it, or a later     *)
(* one, on the pull request.                                               *)
PublishedIsShown ==
    NothingDeleted => \A a \in Actors : shown[a] # 0 =>
        \E i \in DOMAIN comments : comments[i].marker = a /\ comments[i].text >= shown[a]

(* A publication changes no comment of another actor, and none of a person *)
(* that does not end with the actor's own marker, however the list moved   *)
(* while it was searched.                                                  *)
OthersUntouched ==
    [][\A i \in DOMAIN comments, j \in DOMAIN comments' :
          (comments[i].id = comments'[j].id /\ comments[i].text # comments'[j].text)
             => \E p \in Publishers :
                    /\ calls[p] # calls'[p] /\ comments[i].marker = ActorOf[p]
                    /\ comments[i].author \in {ActorOf[p], Nobody}]_vars
=============================================================================
