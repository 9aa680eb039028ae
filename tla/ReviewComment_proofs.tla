------------------------ MODULE ReviewComment_proofs ------------------------
(***************************************************************************)
(* Theorems about ReviewComment, for any number of actors, comments,       *)
(* reviews and deletions, any page size and any limit of the search.       *)
(***************************************************************************)
EXTENDS ReviewComment, SequenceTheorems, TLAPS

-----------------------------------------------------------------------------
(* The invariants.                                                         *)

CommentType == [id : Nat, author : Actors \union {Nobody}, marker : Actors \union {Nobody}, text : Nat]
CallType == [pc : {"idle", "list", "patch", "post"}, text : Nat, searched : Nat, found : Nat]

CommentTypes ==
    /\ comments \in Seq(CommentType)
    /\ nextId \in Nat /\ reviews \in Nat
    /\ calls \in [Publishers -> CallType]
    /\ shown \in [Actors -> Nat]

(* Ids are used once, a comment of an actor ends with its marker, and a    *)
(* comment that was found with the actor's.                                *)
IdInv ==
    /\ \A i \in DOMAIN comments : comments[i].author # Nobody => comments[i].marker = comments[i].author
    /\ Len(comments) < nextId
    /\ \A i \in DOMAIN comments : comments[i].id < nextId
    /\ \A i, j \in DOMAIN comments : comments[i].id = comments[j].id => i = j
    /\ \A p \in Publishers : calls[p].pc = "patch" =>
        /\ calls[p].found < nextId
        /\ \A i \in DOMAIN comments : comments[i].id = calls[p].found => comments[i].marker = ActorOf[p]

(* Each actor publishes one review at a time: the App in the one           *)
(* `pull-request-worker`, a user in one request.                           *)
OneCallEach == \A p, q \in Publishers : ActorOf[p] = ActorOf[q] => p = q

(* The texts are numbered as they were reviewed.                           *)
TextInv ==
    /\ \A p \in Publishers : calls[p].text <= reviews
    /\ \A a \in Actors : shown[a] <= reviews
    /\ OneCallEach =>
        \A p \in Publishers : calls[p].pc # "idle" => shown[ActorOf[p]] <= calls[p].text

(* As long as no comment was deleted, and no more were written than are    *)
(* searched: what was searched is not the actor's.                         *)
AllSearched == NothingDeleted /\ nextId <= SearchLimit + 1

SearchInv ==
    /\ \A p \in Publishers, i \in DOMAIN comments :
        (\/ calls[p].pc = "list" /\ i <= calls[p].searched
         \/ calls[p].pc = "post") => comments[i].author # ActorOf[p]
    /\ \A i, j \in DOMAIN comments :
        (comments[i].author # Nobody /\ comments[i].author = comments[j].author) => i = j

ShownInv ==
    \A a \in Actors : shown[a] # 0 =>
        \E i \in DOMAIN comments : comments[i].marker = a /\ comments[i].text >= shown[a]

SearchedInv == AllSearched => SearchInv
KeptInv == NothingDeleted => ShownInv

-----------------------------------------------------------------------------
(* The list of comments.                                                   *)

LEMMA Added ==
    ASSUME comments \in Seq(CommentType), NEW c \in CommentType, comments' = Append(comments, c)
    PROVE  /\ comments' \in Seq(CommentType)
           /\ Len(comments') = Len(comments) + 1
           /\ Len(comments) + 1 \notin DOMAIN comments
           /\ DOMAIN comments' = DOMAIN comments \union {Len(comments) + 1}
           /\ comments'[Len(comments) + 1] = c
           /\ \A i \in DOMAIN comments : comments'[i] = comments[i]
  OBVIOUS

(* A deletion moves the comments behind up by one.                         *)
LEMMA Removed ==
    ASSUME comments \in Seq(CommentType), NEW k \in DOMAIN comments,
           comments' = SubSeq(comments, 1, k - 1) \o SubSeq(comments, k + 1, Len(comments))
    PROVE  /\ comments' \in Seq(CommentType)
           /\ Len(comments') = Len(comments) - 1
           /\ \A j \in DOMAIN comments' :
                \/ j < k /\ j \in DOMAIN comments /\ comments'[j] = comments[j]
                \/ j >= k /\ j + 1 \in DOMAIN comments /\ comments'[j] = comments[j + 1]
  <1> DEFINE left == SubSeq(comments, 1, k - 1)
             right == SubSeq(comments, k + 1, Len(comments))
  <1>1. k \in 1..Len(comments) /\ Len(comments) \in Nat /\ k \in Int
    OBVIOUS
  <1>2. /\ left \in Seq(CommentType) /\ Len(left) = k - 1
        /\ \A j \in 1..(k - 1) : left[j] = comments[j]
    <2>1. \A j \in 1..(k - 1) : comments[j] \in CommentType
      BY <1>1
    <2>2. k - 1 \in Int /\ 1 \in Int
      BY <1>1
    <2> QED  BY <1>1, <2>1, <2>2, SubSeqProperties
  <1>3. /\ right \in Seq(CommentType) /\ Len(right) = Len(comments) - k
        /\ \A j \in 1..(Len(comments) - k) : right[j] = comments[k + j]
    <2>1. \A j \in (k + 1)..Len(comments) : comments[j] \in CommentType
      BY <1>1
    <2>2. k + 1 \in Int /\ Len(comments) \in Int
      BY <1>1
    <2> QED  BY <1>1, <2>1, <2>2, SubSeqProperties
  <1> HIDE DEF left, right
  <1>4. /\ left \o right \in Seq(CommentType) /\ Len(left \o right) = Len(comments) - 1
        /\ \A j \in 1..(Len(comments) - 1) :
              (left \o right)[j] = IF j <= k - 1 THEN left[j] ELSE right[j - (k - 1)]
    <2>1. /\ left \o right \in Seq(CommentType)
          /\ Len(left \o right) = Len(left) + Len(right)
          /\ \A j \in 1..(Len(left) + Len(right)) :
                (left \o right)[j] = IF j <= Len(left) THEN left[j] ELSE right[j - Len(left)]
      BY <1>2, <1>3, ConcatProperties
    <2>2. Len(left) + Len(right) = Len(comments) - 1
      BY <1>1, <1>2, <1>3
    <2> QED  BY <1>2, <2>1, <2>2
  <1>5. comments' = left \o right
    BY DEF left, right
  <1>6. DOMAIN comments' = 1..(Len(comments) - 1)
    BY <1>4, <1>5
  <1>7. ASSUME NEW j \in 1..(Len(comments) - 1)
        PROVE  \/ j < k /\ j \in DOMAIN comments /\ comments'[j] = comments[j]
               \/ j >= k /\ j + 1 \in DOMAIN comments /\ comments'[j] = comments[j + 1]
    <2>1. CASE j < k
      BY <1>1, <1>2, <1>4, <1>5, <2>1
    <2>2. CASE ~(j < k)
      <3>1. j - (k - 1) \in 1..(Len(comments) - k) /\ ~(j <= k - 1) /\ k + (j - (k - 1)) = j + 1
        BY <1>1, <2>2
      <3>2. comments'[j] = right[j - (k - 1)]
        BY <1>4, <1>5, <3>1
      <3>3. right[j - (k - 1)] = comments[j + 1]
        BY <1>3, <3>1
      <3>4. j >= k /\ j + 1 \in 1..Len(comments) /\ 1..Len(comments) = DOMAIN comments
        BY <1>1, <2>2
      <3> QED  BY <3>2, <3>3, <3>4
    <2> QED  BY <2>1, <2>2
  <1> QED  BY <1>4, <1>5, <1>6, <1>7

-----------------------------------------------------------------------------
(* Types, ids and texts.                                                   *)

LEMMA CallsType ==
    ASSUME CommentTypes, NEW p \in Publishers, NEW call \in CallType, calls' = [calls EXCEPT ![p] = call]
    PROVE  /\ calls' \in [Publishers -> CallType] /\ calls'[p] = call
           /\ \A q \in Publishers : q # p => calls'[q] = calls[q]
  BY DEF CommentTypes

LEMMA IdleType == IdleCall \in CallType /\ IdleCall.pc = "idle" /\ IdleCall.text = 0
  BY DEF IdleCall, CallType

(* What each step of a call does to it.                                    *)
LEMMA CallSteps ==
    ASSUME CommentTypes, NEW p \in Publishers, PublishStep(p)
    PROVE  /\ calls' \in [Publishers -> CallType]
           /\ \A q \in Publishers : q # p => calls'[q] = calls[q]
           /\ Start(p) => /\ calls[p].pc = "idle" /\ calls'[p].pc = "list"
                          /\ calls'[p].text = reviews' /\ calls'[p].searched = 0
           /\ Found(p) \/ NotFound(p) => /\ calls[p].pc = "list" /\ calls'[p].text = calls[p].text
                                         /\ calls'[p].pc # "idle"
           /\ Patch(p) \/ Post(p) \/ PublishFails(p) => calls[p].pc # "idle" /\ calls'[p] = IdleCall
  <1>0. calls[p] \in CallType /\ calls \in [Publishers -> CallType] /\ reviews \in Nat
    BY DEF CommentTypes
  <1>1. CASE Start(p)
    <2> DEFINE call == [IdleCall EXCEPT !.pc = "list", !.text = reviews']
    <2>1. reviews' \in Nat
      BY <1>0, <1>1 DEF Start
    <2>2. call \in CallType /\ call.pc = "list" /\ call.text = reviews' /\ call.searched = 0
      BY <2>1 DEF IdleCall, CallType
    <2>3. calls' = [calls EXCEPT ![p] = call] /\ calls[p].pc = "idle"
      BY <1>1 DEF Start
    <2> HIDE DEF call
    <2> QED  BY <1>1, <2>2, <2>3, CallsType DEF Start, Found, NotFound, Patch, Post, PublishFails
  <1>2. CASE Found(p)
    <2>1. PICK i \in DOMAIN comments :
            calls' = [calls EXCEPT ![p].pc = "patch", ![p].found = comments[i].id]
      BY <1>2 DEF Found, Page
    <2>2. comments[i].id \in Nat
      <3>1. comments[i] \in CommentType
        BY DEF CommentTypes
      <3> QED  BY <3>1 DEF CommentType
    <2> QED  BY <1>0, <1>2, <2>1, <2>2 DEF CallType, Start, Found, Patch, Post, PublishFails
  <1>3. CASE NotFound(p)
    <2>1. calls[p].searched + PageSize \in Nat
      BY <1>0, CommentBounds DEF CallType
    <2>2. \/ calls' = [calls EXCEPT ![p].pc = "post"]
          \/ calls' = [calls EXCEPT ![p].searched = calls[p].searched + PageSize]
      BY <1>3 DEF NotFound
    <2> QED  BY <1>0, <1>3, <2>1, <2>2 DEF CallType, Start, NotFound, Patch, Post, PublishFails
  <1>4. CASE Patch(p) \/ Post(p) \/ PublishFails(p)
    <2>1. calls' = [calls EXCEPT ![p] = IdleCall] /\ calls[p].pc \notin {"idle"}
      BY <1>4 DEF Patch, Post, PublishFails, Answer
    <2>2. calls' \in [Publishers -> CallType] /\ calls'[p] = IdleCall
          /\ \A q \in Publishers : q # p => calls'[q] = calls[q]
      BY <2>1, CallsType, IdleType
    <2>3. ~Start(p) /\ ~Found(p) /\ ~NotFound(p)
      <3>1. calls'[p].pc = "idle"
        BY <2>2, IdleType
      <3>2. Found(p) => calls'[p].pc = "patch"
        BY <1>0 DEF Found, CallType
      <3>3. NotFound(p) => calls'[p].pc \in {"post", "list"}
        BY <1>0 DEF NotFound, CallType
      <3> QED  BY <2>1, <3>1, <3>2, <3>3 DEF Start
    <2> QED  BY <2>1, <2>2, <2>3
  <1> QED  BY <1>1, <1>2, <1>3, <1>4 DEF PublishStep

LEMMA CommentInit == Init => CommentTypes /\ IdInv /\ TextInv /\ SearchedInv /\ KeptInv
  <1> SUFFICES ASSUME Init PROVE CommentTypes /\ IdInv /\ TextInv /\ SearchedInv /\ KeptInv
    OBVIOUS
  <1>1. comments \in Seq(CommentType) /\ DOMAIN comments = {} /\ Len(comments) = 0
    BY DEF Init
  <1>2. \A p \in Publishers : calls[p] = IdleCall
    BY DEF Init
  <1>3. CommentTypes
    BY <1>1, IdleType DEF Init, CommentTypes
  <1>4. IdInv
    BY <1>1, <1>2, IdleType DEF Init, IdInv
  <1>5. TextInv
    BY <1>2, IdleType DEF Init, TextInv
  <1>6. SearchedInv
    BY <1>1, IdleType DEF SearchedInv, SearchInv
  <1>7. KeptInv
    BY DEF Init, KeptInv, ShownInv
  <1> QED  BY <1>3, <1>4, <1>5, <1>6, <1>7

(* The ids of the list, and where its comments come from.                  *)
ListInv ==
    /\ \A i \in DOMAIN comments : comments[i].author # Nobody => comments[i].marker = comments[i].author
    /\ Len(comments) < nextId
    /\ \A i \in DOMAIN comments : comments[i].id < nextId
    /\ \A i, j \in DOMAIN comments : comments[i].id = comments[j].id => i = j

Origin ==
    \A j \in DOMAIN comments' :
        \/ comments'[j].id = nextId
        \/ \E i \in DOMAIN comments : comments'[j].id = comments[i].id /\ comments'[j].marker = comments[i].marker

LEMMA ListAdded ==
    ASSUME CommentTypes, ListInv, NEW a \in Actors \union {Nobody}, NEW marker \in Actors \union {Nobody},
           NEW text \in Nat, a # Nobody => marker = a,
           comments' = Append(comments, Comment(a, marker, text)), nextId' = nextId + 1
    PROVE  comments' \in Seq(CommentType) /\ nextId' \in Nat /\ ListInv' /\ Origin
  <1> DEFINE c == Comment(a, marker, text)
  <1>1. /\ c \in CommentType /\ c.id = nextId /\ c.author = a /\ c.marker = marker
        /\ nextId \in Nat /\ comments \in Seq(CommentType)
    BY DEF CommentTypes, CommentType, Comment
  <1>2. comments' = Append(comments, c)
    OBVIOUS
  <1> HIDE DEF c
  <1>3. /\ comments' \in Seq(CommentType)
        /\ Len(comments') = Len(comments) + 1
        /\ Len(comments) + 1 \notin DOMAIN comments
        /\ DOMAIN comments' = DOMAIN comments \union {Len(comments) + 1}
        /\ comments'[Len(comments) + 1] = c
        /\ \A i \in DOMAIN comments : comments'[i] = comments[i]
    BY <1>1, <1>2, Added
  <1>4. Len(comments) \in Nat /\ \A i \in DOMAIN comments : comments[i].id \in Nat
    <2>1. Len(comments) \in Nat /\ \A i \in DOMAIN comments : comments[i] \in CommentType
      BY <1>1
    <2> QED  BY <2>1 DEF CommentType
  <1>5. ListInv'
    BY <1>1, <1>3, <1>4 DEF ListInv
  <1>6. Origin
    BY <1>1, <1>3 DEF Origin
  <1> QED  BY <1>1, <1>3, <1>5, <1>6

LEMMA ListRemoved ==
    ASSUME CommentTypes, ListInv, DeleteComment
    PROVE  comments' \in Seq(CommentType) /\ nextId' \in Nat /\ ListInv' /\ Origin /\ ~NothingDeleted'
  <1>1. PICK k \in DOMAIN comments :
            comments' = SubSeq(comments, 1, k - 1) \o SubSeq(comments, k + 1, Len(comments))
    BY DEF DeleteComment
  <1>2. comments \in Seq(CommentType) /\ nextId \in Nat /\ nextId' = nextId /\ Len(comments) \in Nat /\ k \in Int
    BY DEF CommentTypes, DeleteComment
  <1>3. /\ comments' \in Seq(CommentType)
        /\ Len(comments') = Len(comments) - 1
        /\ \A j \in DOMAIN comments' :
             \/ j < k /\ j \in DOMAIN comments /\ comments'[j] = comments[j]
             \/ j >= k /\ j + 1 \in DOMAIN comments /\ comments'[j] = comments[j + 1]
    BY <1>1, <1>2, Removed
  <1>4. \A j \in DOMAIN comments' : j \in Int
    BY <1>3
  <1>5. ListInv'
    <2>1. \A i, j \in DOMAIN comments' : comments'[i].id = comments'[j].id => i = j
      BY <1>2, <1>3, <1>4 DEF ListInv
    <2>2. Len(comments') < nextId' /\ \A i \in DOMAIN comments' : comments'[i].id < nextId'
      BY <1>2, <1>3 DEF ListInv
    <2>3. \A i \in DOMAIN comments' : comments'[i].author # Nobody => comments'[i].marker = comments'[i].author
      BY <1>3 DEF ListInv
    <2> QED  BY <2>1, <2>2, <2>3 DEF ListInv
  <1>6. Origin
    BY <1>3 DEF Origin
  <1>7. ~NothingDeleted'
    BY <1>2, <1>3 DEF ListInv, NothingDeleted
  <1> QED  BY <1>2, <1>3, <1>5, <1>6, <1>7

LEMMA ListPatched ==
    ASSUME CommentTypes, ListInv, NEW k \in DOMAIN comments, NEW text \in Nat,
           comments' = [comments EXCEPT ![k].text = text], nextId' = nextId
    PROVE  /\ comments' \in Seq(CommentType) /\ nextId' \in Nat /\ ListInv' /\ Origin
           /\ DOMAIN comments' = DOMAIN comments /\ comments'[k].text = text
           /\ \A i \in DOMAIN comments :
                /\ comments'[i].id = comments[i].id /\ comments'[i].author = comments[i].author
                /\ comments'[i].marker = comments[i].marker
           /\ \A i \in DOMAIN comments : i # k => comments'[i] = comments[i]
  <1>1. comments \in Seq(CommentType) /\ comments[k] \in CommentType /\ nextId \in Nat
    BY DEF CommentTypes
  <1> DEFINE c == [comments[k] EXCEPT !.text = text]
  <1>2. /\ c \in CommentType /\ c.id = comments[k].id /\ c.text = text
        /\ c.author = comments[k].author /\ c.marker = comments[k].marker
    BY <1>1 DEF CommentType
  <1>3. comments' = [comments EXCEPT ![k] = c]
    BY <1>1
  <1> HIDE DEF c
  <1>4. /\ comments' \in Seq(CommentType) /\ Len(comments') = Len(comments)
        /\ DOMAIN comments' = DOMAIN comments /\ comments'[k] = c
        /\ \A i \in DOMAIN comments : i # k => comments'[i] = comments[i]
    BY <1>1, <1>2, <1>3
  <1>5. \A i \in DOMAIN comments :
            /\ comments'[i].id = comments[i].id /\ comments'[i].author = comments[i].author
            /\ comments'[i].marker = comments[i].marker
    BY <1>2, <1>4
  <1>6. ListInv' /\ Origin
    BY <1>4, <1>5 DEF ListInv, Origin
  <1> QED  BY <1>1, <1>2, <1>4, <1>5, <1>6

LEMMA FoundKept ==
    ASSUME IdInv, Origin, nextId' \in {nextId, nextId + 1}, nextId \in Nat, NEW p \in Publishers,
           calls[p].found \in Nat, calls'[p] = calls[p], calls'[p].pc = "patch"
    PROVE  /\ calls'[p].found < nextId'
           /\ \A i \in DOMAIN comments' : comments'[i].id = calls'[p].found => comments'[i].marker = ActorOf[p]
  BY DEF IdInv, Origin

LEMMA IdNext ==
    CommentTypes /\ IdInv /\ TextInv /\ [Next]_vars => CommentTypes' /\ IdInv' /\ TextInv'
  <1> SUFFICES ASSUME CommentTypes, IdInv, TextInv, [Next]_vars
               PROVE  CommentTypes' /\ IdInv' /\ TextInv'
    OBVIOUS
  <1>0. /\ comments \in Seq(CommentType) /\ nextId \in Nat /\ reviews \in Nat
        /\ calls \in [Publishers -> CallType] /\ shown \in [Actors -> Nat]
        /\ \A p \in Publishers : calls[p].found \in Nat /\ calls[p].text \in Nat /\ ActorOf[p] \in Actors
        /\ ListInv /\ 0 \in Nat
    BY CommentBounds DEF CommentTypes, CallType, IdInv, ListInv
  <1>1. CASE UNCHANGED vars
    BY <1>1 DEF vars, CommentTypes, IdInv, TextInv
  <1>2. ASSUME comments' \in Seq(CommentType), nextId' \in {nextId, nextId + 1}, ListInv', Origin,
               UNCHANGED <<reviews, calls, shown>>
        PROVE  CommentTypes' /\ IdInv' /\ TextInv'
    <2>1. CommentTypes' /\ TextInv'
      BY <1>0, <1>2 DEF CommentTypes, TextInv
    <2>2. IdInv'
      BY <1>0, <1>2, FoundKept DEF IdInv, ListInv
    <2> QED  BY <2>1, <2>2
  <1>3. CASE OthersComment
    <2>1. PICK marker \in Actors \union {Nobody} : comments' = Append(comments, Comment(Nobody, marker, 0))
      BY <1>3 DEF OthersComment
    <2>2. Nobody \in Actors \union {Nobody} /\ nextId' = nextId + 1
      BY <1>3 DEF OthersComment
    <2>3. comments' \in Seq(CommentType) /\ nextId' \in Nat /\ ListInv' /\ Origin
      BY <1>0, <2>1, <2>2, ListAdded
    <2> QED  BY <1>2, <1>3, <2>2, <2>3 DEF OthersComment
  <1>4. CASE DeleteComment
    BY <1>0, <1>2, <1>4, ListRemoved DEF DeleteComment
  <1>5. ASSUME NEW p \in Publishers, PublishStep(p)
        PROVE  CommentTypes' /\ IdInv' /\ TextInv'
    <2>0. /\ calls' \in [Publishers -> CallType]
          /\ \A q \in Publishers : q # p => calls'[q] = calls[q]
      BY <1>5, CallSteps
    <2>1. ASSUME comments' \in Seq(CommentType), nextId' \in {nextId, nextId + 1}, ListInv', Origin,
                 UNCHANGED reviews, calls'[p] = IdleCall,
                 \/ shown' = [shown EXCEPT ![ActorOf[p]] = calls[p].text]
                 \/ UNCHANGED shown
          PROVE  CommentTypes' /\ IdInv' /\ TextInv'
      <3>1. CommentTypes'
        BY <1>0, <2>0, <2>1 DEF CommentTypes
      <3>2. IdInv'
        BY <1>0, <2>0, <2>1, FoundKept, IdleType DEF IdInv, ListInv
      <3>3. TextInv'
        <4>1. \A q \in Publishers : calls'[q].text <= reviews'
          BY <1>0, <2>0, <2>1, IdleType DEF TextInv
        <4>2. \A a \in Actors : shown'[a] <= reviews'
          BY <1>0, <2>1 DEF TextInv
        <4>3. OneCallEach =>
                \A q \in Publishers : calls'[q].pc # "idle" => shown'[ActorOf[q]] <= calls'[q].text
          <5> SUFFICES ASSUME OneCallEach, NEW q \in Publishers, calls'[q].pc # "idle"
                       PROVE  shown'[ActorOf[q]] <= calls'[q].text
            OBVIOUS
          <5>1. q # p /\ calls'[q] = calls[q]
            BY <2>0, <2>1, IdleType
          <5>2. ActorOf[q] # ActorOf[p]
            BY <5>1 DEF OneCallEach
          <5>3. shown'[ActorOf[q]] = shown[ActorOf[q]]
            BY <1>0, <2>1, <5>2
          <5> QED  BY <5>1, <5>3 DEF TextInv
        <4> QED  BY <4>1, <4>2, <4>3 DEF TextInv
      <3> QED  BY <3>1, <3>2, <3>3
    <2>2. CASE Start(p)
      <3>1. /\ UNCHANGED <<comments, nextId, shown>> /\ reviews' = reviews + 1
            /\ calls'[p].pc = "list" /\ calls'[p].text = reviews'
        BY <1>5, <2>2, CallSteps DEF Start
      <3>2. CommentTypes'
        BY <1>0, <2>0, <3>1 DEF CommentTypes
      <3>3. IdInv'
        BY <2>0, <3>1 DEF IdInv
      <3>4. TextInv'
        <4>1. \A q \in Publishers : calls'[q].text <= reviews'
          BY <1>0, <2>0, <3>1 DEF TextInv
        <4>2. \A a \in Actors : shown'[a] <= reviews'
          BY <1>0, <3>1 DEF TextInv
        <4>3. OneCallEach =>
                \A q \in Publishers : calls'[q].pc # "idle" => shown'[ActorOf[q]] <= calls'[q].text
          BY <1>0, <2>0, <3>1 DEF TextInv
        <4> QED  BY <4>1, <4>2, <4>3 DEF TextInv
      <3> QED  BY <3>2, <3>3, <3>4
    <2>3. CASE Found(p) \/ NotFound(p)
      <3>1. /\ UNCHANGED <<comments, nextId, reviews, shown>>
            /\ calls[p].pc = "list" /\ calls'[p].text = calls[p].text
        BY <1>5, <2>3, CallSteps DEF Found, NotFound
      <3>2. CommentTypes'
        BY <1>0, <2>0, <3>1 DEF CommentTypes
      <3>3. TextInv'
        BY <2>0, <3>1 DEF TextInv
      <3>4. calls'[p].pc = "patch" => \E i \in DOMAIN comments : Marked(i, p) /\ calls'[p].found = comments[i].id
        <4>1. CASE Found(p)
          BY <1>0, <4>1 DEF Found, Page, CallType
        <4>2. CASE NotFound(p)
          BY <1>0, <4>2 DEF NotFound, CallType
        <4> QED  BY <2>3, <4>1, <4>2
      <3>5. IdInv'
        BY <2>0, <3>1, <3>4 DEF IdInv, Marked
      <3> QED  BY <3>2, <3>3, <3>5
    <2>4. CASE PublishFails(p)
      <3>1. UNCHANGED <<comments, nextId, reviews, shown>> /\ calls'[p] = IdleCall
        BY <1>5, <2>4, CallSteps DEF PublishFails
      <3>2. ListInv' /\ Origin
        BY <1>0, <3>1 DEF ListInv, Origin
      <3> QED  BY <1>0, <2>1, <3>1, <3>2
    <2>5. CASE Patch(p)
      <3>1. PICK i \in DOMAIN comments : comments' = [comments EXCEPT ![i].text = calls[p].text]
        BY <2>5 DEF Patch
      <3>2. comments' \in Seq(CommentType) /\ ListInv' /\ Origin
        BY <1>0, <2>5, <3>1, ListPatched DEF Patch
      <3>3. CommentTypes' /\ IdInv' /\ TextInv'
        BY <1>5, <2>1, <2>5, <3>2, CallSteps DEF Patch, Answer
      <3> QED  BY <3>3
    <2>6. CASE Post(p)
      <3>1. comments' \in Seq(CommentType) /\ ListInv' /\ Origin
        BY <1>0, <2>6, ListAdded DEF Post
      <3>2. CommentTypes' /\ IdInv' /\ TextInv'
        BY <1>5, <2>1, <2>6, <3>1, CallSteps DEF Post, Answer
      <3> QED  BY <3>2
    <2> QED  BY <1>5, <2>2, <2>3, <2>4, <2>5, <2>6 DEF PublishStep
  <1> QED  BY <1>1, <1>3, <1>4, <1>5 DEF Next

LEMMA CommentInvariants == Spec => [](CommentTypes /\ IdInv /\ TextInv)
  <1>1. Init => CommentTypes /\ IdInv /\ TextInv
    BY CommentInit
  <1> QED  BY <1>1, IdNext, PTL DEF Spec

(* The comments of the two lists with the same id have the same text.      *)
SameTexts ==
    \A i \in DOMAIN comments, j \in DOMAIN comments' :
        comments[i].id = comments'[j].id => comments[i].text = comments'[j].text

LEMMA AppendKeepsTexts ==
    ASSUME CommentTypes, IdInv, NEW a \in Actors \union {Nobody}, NEW marker \in Actors \union {Nobody},
           NEW text \in Nat, comments' = Append(comments, Comment(a, marker, text))
    PROVE  SameTexts
  <1> DEFINE c == Comment(a, marker, text)
  <1>1. /\ c \in CommentType /\ c.id = nextId /\ c.author = a /\ c.marker = marker
        /\ nextId \in Nat /\ comments \in Seq(CommentType)
    BY DEF CommentTypes, CommentType, Comment
  <1>2. comments' = Append(comments, c)
    OBVIOUS
  <1> HIDE DEF c
  <1>3. /\ DOMAIN comments' = DOMAIN comments \union {Len(comments) + 1}
        /\ comments'[Len(comments) + 1].id = nextId
        /\ \A i \in DOMAIN comments : comments'[i] = comments[i]
    BY <1>1, <1>2, Added
  <1>4. \A i \in DOMAIN comments : comments[i].id \in Nat
    <2>1. \A i \in DOMAIN comments : comments[i] \in CommentType
      BY <1>1
    <2> QED  BY <2>1 DEF CommentType
  <1> QED  BY <1>1, <1>3, <1>4 DEF IdInv, SameTexts

LEMMA DeleteKeepsTexts ==
    ASSUME CommentTypes, IdInv, DeleteComment
    PROVE  SameTexts
  <1>1. PICK k \in DOMAIN comments :
            comments' = SubSeq(comments, 1, k - 1) \o SubSeq(comments, k + 1, Len(comments))
    BY DEF DeleteComment
  <1>2. \A j \in DOMAIN comments' :
             \/ j < k /\ j \in DOMAIN comments /\ comments'[j] = comments[j]
             \/ j >= k /\ j + 1 \in DOMAIN comments /\ comments'[j] = comments[j + 1]
    BY <1>1, Removed DEF CommentTypes
  <1> QED  BY <1>2 DEF IdInv, SameTexts

(* The comment that is edited is the one with the id that was found, and   *)
(* ids are not used again: it has the actor's marker, wherever it moved.   *)
LEMMA PatchTouchesOwn ==
    ASSUME CommentTypes, IdInv, NEW p \in Publishers, Patch(p)
    PROVE  /\ calls[p] # calls'[p]
           /\ \A i \in DOMAIN comments, j \in DOMAIN comments' :
                (comments[i].id = comments'[j].id /\ comments[i].text # comments'[j].text)
                    => comments[i].marker = ActorOf[p] /\ comments[i].author \in {ActorOf[p], Nobody}
  <1>1. calls'[p] = IdleCall /\ calls[p].pc # "idle"
    BY CallSteps DEF PublishStep
  <1>2. calls[p].pc = "patch" /\ calls[p].text \in Nat /\ nextId' = nextId
    BY DEF Patch, CommentTypes, CallType
  <1>3. PICK k \in DOMAIN comments : /\ comments[k].id = calls[p].found
                                     /\ comments' = [comments EXCEPT ![k].text = calls[p].text]
    BY DEF Patch
  <1>4. /\ DOMAIN comments' = DOMAIN comments
        /\ \A i \in DOMAIN comments : comments'[i].id = comments[i].id
        /\ \A i \in DOMAIN comments : i # k => comments'[i] = comments[i]
    BY <1>2, <1>3, ListPatched DEF IdInv, ListInv
  <1>5. comments[k].marker = ActorOf[p] /\ comments[k].author \in {ActorOf[p], Nobody}
    BY <1>2, <1>3 DEF IdInv
  <1> QED  BY <1>1, <1>4, <1>5, IdleType DEF IdInv

(* A publication changes no comment of another actor, and no comment of a  *)
(* person but one that ends with the publishing actor's marker, also when  *)
(* comments are added and deleted while it searches and when several       *)
(* publications of the same actor run at once                              *)
(* (publish_pull_request_comment).                                         *)
THEOREM OthersUntouchedHolds == Spec => OthersUntouched
  <1> DEFINE Untouched ==
        \A i \in DOMAIN comments, j \in DOMAIN comments' :
          (comments[i].id = comments'[j].id /\ comments[i].text # comments'[j].text)
             => \E p \in Publishers :
                    /\ calls[p] # calls'[p] /\ comments[i].marker = ActorOf[p]
                    /\ comments[i].author \in {ActorOf[p], Nobody}
  <1>1. ASSUME CommentTypes, IdInv, [Next]_vars PROVE [Untouched]_vars
    <2>0. SameTexts => Untouched
      BY DEF SameTexts
    <2>1. CASE UNCHANGED vars
      BY <2>1 DEF vars
    <2>2. CASE OthersComment
      <3>1. Nobody \in Actors \union {Nobody} /\ 0 \in Nat
        OBVIOUS
      <3>2. PICK marker \in Actors \union {Nobody} : comments' = Append(comments, Comment(Nobody, marker, 0))
        BY <2>2 DEF OthersComment
      <3> QED  BY <1>1, <2>0, <3>1, <3>2, AppendKeepsTexts
    <2>3. CASE DeleteComment
      BY <1>1, <2>0, <2>3, DeleteKeepsTexts
    <2>4. ASSUME NEW p \in Publishers, PublishStep(p) PROVE Untouched
      <3>1. CASE UNCHANGED comments
        BY <1>1, <2>0, <3>1 DEF IdInv, SameTexts
      <3>2. CASE Patch(p)
        <4>1. /\ calls[p] # calls'[p]
              /\ \A i \in DOMAIN comments, j \in DOMAIN comments' :
                    (comments[i].id = comments'[j].id /\ comments[i].text # comments'[j].text)
                        => comments[i].marker = ActorOf[p] /\ comments[i].author \in {ActorOf[p], Nobody}
          BY <1>1, <3>2, PatchTouchesOwn
        <4> QED  BY <4>1
      <3>3. CASE Post(p)
        <4>1. ActorOf[p] \in Actors \union {Nobody} /\ calls[p].text \in Nat
          BY <1>1, CommentBounds DEF CommentTypes, CallType
        <4>2. comments' = Append(comments, Comment(ActorOf[p], ActorOf[p], calls[p].text))
          BY <3>3 DEF Post
        <4> QED  BY <1>1, <2>0, <4>1, <4>2, AppendKeepsTexts
      <3> QED  BY <2>4, <3>1, <3>2, <3>3 DEF PublishStep, Start, Found, NotFound, PublishFails
    <2> QED  BY <1>1, <2>1, <2>2, <2>3, <2>4 DEF Next
  <1>2. [](CommentTypes /\ IdInv) /\ [][Next]_vars => [][Untouched]_vars
    BY <1>1, PTL
  <1>3. Spec => [][Untouched]_vars
    BY <1>2, CommentInvariants, PTL DEF Spec
  <1> QED  BY <1>3 DEF OthersUntouched

-----------------------------------------------------------------------------
(* One comment of each actor, with the last review that was announced.     *)

(* What a step that deletes nothing does to the list: each comment keeps   *)
(* its place, author and marker, and one may be new.                       *)
Kept ==
    /\ NothingDeleted' => NothingDeleted
    /\ nextId <= nextId' /\ nextId \in Nat /\ nextId' \in Nat /\ Len(comments) \in Nat
    /\ DOMAIN comments = 1..Len(comments)
    /\ NothingDeleted' =>
        \A i \in DOMAIN comments :
            /\ i \in DOMAIN comments'
            /\ comments'[i].author = comments[i].author /\ comments'[i].marker = comments[i].marker

Grown(a, marker, text) ==
    /\ Kept
    /\ DOMAIN comments' = DOMAIN comments \union {Len(comments) + 1}
    /\ comments'[Len(comments) + 1].author = a /\ comments'[Len(comments) + 1].marker = marker
    /\ comments'[Len(comments) + 1].text = text
    /\ \A i \in DOMAIN comments : comments'[i] = comments[i]

LEMMA ListGrown ==
    ASSUME CommentTypes, NEW a \in Actors \union {Nobody}, NEW marker \in Actors \union {Nobody},
           NEW text \in Nat, comments' = Append(comments, Comment(a, marker, text)), nextId' = nextId + 1
    PROVE  Grown(a, marker, text)
  <1> DEFINE c == Comment(a, marker, text)
  <1>1. /\ c \in CommentType /\ c.author = a /\ c.marker = marker /\ c.text = text
        /\ nextId \in Nat /\ comments \in Seq(CommentType)
    BY DEF CommentTypes, CommentType, Comment
  <1>2. comments' = Append(comments, c)
    OBVIOUS
  <1> HIDE DEF c
  <1>3. /\ Len(comments') = Len(comments) + 1
        /\ DOMAIN comments' = DOMAIN comments \union {Len(comments) + 1}
        /\ comments'[Len(comments) + 1] = c
        /\ \A i \in DOMAIN comments : comments'[i] = comments[i]
    BY <1>1, <1>2, Added
  <1>4. Len(comments) \in Nat /\ DOMAIN comments = 1..Len(comments)
    BY <1>1
  <1> QED  BY <1>1, <1>3, <1>4 DEF Grown, Kept, NothingDeleted

LEMMA ListSame ==
    ASSUME CommentTypes, UNCHANGED <<comments, nextId>>
    PROVE  Kept
  BY DEF CommentTypes, Kept, NothingDeleted

LEMMA SearchedNext ==
    ASSUME OneCallEach
    PROVE  CommentTypes /\ IdInv /\ SearchedInv /\ [Next]_vars => SearchedInv'
  <1> SUFFICES ASSUME CommentTypes, IdInv, SearchedInv, [Next]_vars, AllSearched'
               PROVE  SearchInv'
    BY DEF SearchedInv
  <1>0. /\ \A q \in Publishers : ActorOf[q] \in Actors /\ calls[q].searched \in Nat /\ calls[q].text \in Nat
        /\ Nobody \notin Actors /\ PageSize \in Nat /\ SearchLimit \in Nat
    BY CommentBounds DEF CommentTypes, CallType
  <1>k. ASSUME Kept PROVE SearchInv /\ NothingDeleted /\ Len(comments) <= SearchLimit
    BY <1>0, <1>k DEF Kept, AllSearched, SearchedInv, NothingDeleted
  <1>1. CASE UNCHANGED vars
    <2>1. Kept
      BY <1>1, ListSame DEF vars
    <2> QED  BY <1>1, <1>k, <2>1 DEF vars, SearchInv, Marked
  <1>2. CASE OthersComment
    <2>1. PICK marker \in Actors \union {Nobody} : Grown(Nobody, marker, 0)
      <3>1. Nobody \in Actors \union {Nobody} /\ 0 \in Nat /\ nextId' = nextId + 1
        BY <1>2 DEF OthersComment
      <3>2. PICK m \in Actors \union {Nobody} : comments' = Append(comments, Comment(Nobody, m, 0))
        BY <1>2 DEF OthersComment
      <3> QED  BY <3>1, <3>2, ListGrown
    <2>2. SearchInv /\ UNCHANGED calls
      BY <1>2, <1>k, <2>1 DEF Grown, OthersComment
    <2> QED  BY <1>0, <2>1, <2>2 DEF Grown, SearchInv, Marked
  <1>3. CASE DeleteComment
    BY <1>3, ListRemoved DEF IdInv, ListInv, AllSearched
  <1>4. ASSUME NEW p \in Publishers, PublishStep(p) PROVE SearchInv'
    <2>0. \A q \in Publishers : q # p => calls'[q] = calls[q]
      BY <1>4, CallSteps
    <2>1. ASSUME UNCHANGED <<comments, nextId>>,
                 \A i \in DOMAIN comments :
                    (\/ calls'[p].pc = "list" /\ i <= calls'[p].searched
                     \/ calls'[p].pc = "post") => comments[i].author # ActorOf[p]
          PROVE  SearchInv'
      <3>1. SearchInv
        BY <1>k, <2>1, ListSame
      <3>2. ASSUME NEW q \in Publishers, NEW i \in DOMAIN comments',
                   \/ calls'[q].pc = "list" /\ i <= calls'[q].searched
                   \/ calls'[q].pc = "post"
            PROVE  comments'[i].author # ActorOf[q]
        BY <2>0, <2>1, <3>1, <3>2 DEF SearchInv
      <3>3. \A i, j \in DOMAIN comments' :
              (comments'[i].author # Nobody /\ comments'[i].author = comments'[j].author) => i = j
        BY <2>1, <3>1 DEF SearchInv
      <3> QED  BY <3>2, <3>3 DEF SearchInv
    <2>2. CASE Start(p)
      <3>1. calls'[p].pc = "list" /\ calls'[p].searched = 0 /\ UNCHANGED <<comments, nextId>>
        BY <1>4, <2>2, CallSteps DEF Start
      <3>2. \A i \in DOMAIN comments : ~(i <= 0)
        BY DEF CommentTypes
      <3> QED  BY <2>1, <3>1, <3>2
    <2>3. CASE Found(p)
      <3>1. calls'[p].pc = "patch" /\ UNCHANGED <<comments, nextId>>
        BY <2>3 DEF Found, CommentTypes, CallType
      <3> QED  BY <2>1, <3>1
    <2>4. CASE NotFound(p)
      <3>1. /\ UNCHANGED <<comments, nextId>> /\ calls[p].pc = "list"
            /\ \A i \in Page(p) : ~Marked(i, p)
        BY <2>4 DEF NotFound
      <3>2. SearchInv /\ Len(comments) <= SearchLimit
        BY <1>k, <3>1, ListSame
      <3>3. \A i \in DOMAIN comments :
                i <= calls[p].searched + PageSize => comments[i].author # ActorOf[p]
        BY <1>0, <3>1, <3>2 DEF SearchInv, Page, CommentTypes, Marked, IdInv
      <3>4. CASE LastPage(p)
        <4>1. calls'[p].pc = "post"
          BY <2>4, <3>4 DEF NotFound, CommentTypes, CallType
        <4>2. \A i \in DOMAIN comments : i <= calls[p].searched + PageSize
          BY <1>0, <3>2, <3>4 DEF LastPage, CommentTypes
        <4> QED  BY <2>1, <3>1, <3>3, <4>1, <4>2
      <3>5. CASE ~LastPage(p)
        <4>1. calls'[p].pc = "list" /\ calls'[p].searched = calls[p].searched + PageSize
          BY <2>4, <3>1, <3>5 DEF NotFound, CommentTypes, CallType
        <4> QED  BY <2>1, <3>1, <3>3, <4>1
      <3> QED  BY <3>4, <3>5
    <2>5. CASE PublishFails(p)
      <3>1. calls'[p].pc = "idle" /\ UNCHANGED <<comments, nextId>>
        BY <1>4, <2>5, CallSteps, IdleType DEF PublishFails
      <3> QED  BY <2>1, <3>1
    <2>6. CASE Patch(p)
      <3>1. calls'[p].pc = "idle" /\ nextId' = nextId
        BY <1>4, <2>6, CallSteps, IdleType DEF Patch
      <3>2. PICK k \in DOMAIN comments : comments' = [comments EXCEPT ![k].text = calls[p].text]
        BY <2>6 DEF Patch
      <3>3. /\ DOMAIN comments' = DOMAIN comments
            /\ \A i \in DOMAIN comments : comments'[i].author = comments[i].author
        BY <1>0, <3>1, <3>2, ListPatched DEF IdInv, ListInv
      <3>4. Len(comments') = Len(comments)
        BY <3>2 DEF CommentTypes
      <3>5. SearchInv
        BY <3>1, <3>4 DEF SearchedInv, AllSearched, NothingDeleted
      <3> QED  BY <2>0, <3>1, <3>3, <3>5 DEF SearchInv
    <2>7. CASE Post(p)
      <3>1. calls'[p].pc = "idle" /\ calls[p].pc = "post"
        BY <1>4, <2>7, CallSteps, IdleType DEF Post
      <3>2. Grown(ActorOf[p], ActorOf[p], calls[p].text)
        BY <1>0, <2>7, ListGrown DEF Post
      <3>3. SearchInv
        BY <1>k, <3>2 DEF Grown
      <3>4. \A i \in DOMAIN comments : comments[i].author # ActorOf[p]
        BY <3>1, <3>3 DEF SearchInv
      <3>5. ASSUME NEW q \in Publishers, NEW i \in DOMAIN comments',
                   \/ calls'[q].pc = "list" /\ i <= calls'[q].searched
                   \/ calls'[q].pc = "post"
            PROVE  comments'[i].author # ActorOf[q]
        <4>1. q # p /\ calls'[q] = calls[q]
          BY <2>0, <3>1, <3>5
        <4>2. ActorOf[q] # ActorOf[p]
          BY <4>1 DEF OneCallEach
        <4>3. CASE i \in DOMAIN comments
          BY <3>2, <3>3, <3>5, <4>1, <4>3 DEF Grown, SearchInv, Marked
        <4>4. CASE i \notin DOMAIN comments
          BY <3>2, <4>2, <4>4 DEF Grown
        <4> QED  BY <4>3, <4>4
      <3>6. \A i, j \in DOMAIN comments' :
              (comments'[i].author # Nobody /\ comments'[i].author = comments'[j].author) => i = j
        BY <3>2, <3>3, <3>4 DEF Grown, SearchInv
      <3> QED  BY <3>5, <3>6 DEF SearchInv
    <2> QED  BY <1>4, <2>2, <2>3, <2>4, <2>5, <2>6, <2>7 DEF PublishStep
  <1> QED  BY <1>1, <1>2, <1>3, <1>4 DEF Next

(* "Repeated updates edit the same Regora comment instead of adding new    *)
(* comments" (docs/GITHUB_PR_GUARDIAN.md:60), also when the answers of     *)
(* GitHub are lost: if an actor publishes one review at a time and there   *)
(* are no more comments than the search reads.  With more, the marker may  *)
(* be beyond the fifth page and a second comment is added.                 *)
THEOREM OneCommentPerActorHolds ==
    ASSUME OneCallEach
    PROVE  Spec => [](nextId <= SearchLimit + 1 => OneCommentPerActor)
  <1>1. Init => SearchedInv
    BY CommentInit
  <1>2. SearchedInv => (nextId <= SearchLimit + 1 => OneCommentPerActor)
    BY DEF SearchedInv, AllSearched, SearchInv, OneCommentPerActor
  <1>3. CommentTypes /\ IdInv /\ SearchedInv /\ [Next]_vars => SearchedInv'
    BY SearchedNext
  <1> QED  BY <1>1, <1>2, <1>3, CommentInvariants, PTL DEF Spec

LEMMA KeptNext ==
    ASSUME OneCallEach
    PROVE  CommentTypes /\ IdInv /\ TextInv /\ KeptInv /\ [Next]_vars => KeptInv'
  <1> SUFFICES ASSUME CommentTypes, IdInv, TextInv, KeptInv, [Next]_vars, NothingDeleted'
               PROVE  ShownInv'
    BY DEF KeptInv
  <1>0. /\ \A q \in Publishers : ActorOf[q] \in Actors /\ calls[q].text \in Nat
        /\ \A a \in Actors : shown[a] \in Nat
        /\ shown \in [Actors -> Nat]
    BY CommentBounds DEF CommentTypes, CallType
  <1>1. ASSUME UNCHANGED <<comments, nextId, shown>> PROVE ShownInv'
    BY <1>1 DEF KeptInv, NothingDeleted, ShownInv
  <1>2. CASE OthersComment
    <2>1. PICK marker \in Actors \union {Nobody} : Grown(Nobody, marker, 0)
      <3>1. Nobody \in Actors \union {Nobody} /\ 0 \in Nat /\ nextId' = nextId + 1
        BY <1>2 DEF OthersComment
      <3>2. PICK m \in Actors \union {Nobody} : comments' = Append(comments, Comment(Nobody, m, 0))
        BY <1>2 DEF OthersComment
      <3> QED  BY <3>1, <3>2, ListGrown
    <2>2. ShownInv /\ UNCHANGED shown
      BY <1>2, <2>1 DEF Grown, Kept, OthersComment, KeptInv
    <2> QED  BY <2>1, <2>2 DEF Grown, ShownInv
  <1>3. CASE DeleteComment
    BY <1>3, ListRemoved DEF IdInv, ListInv
  <1>4. ASSUME NEW p \in Publishers, PublishStep(p) PROVE ShownInv'
    <2>1. ASSUME NEW k \in DOMAIN comments',
                 ShownInv, calls[p].pc # "idle",
                 \/ shown' = [shown EXCEPT ![ActorOf[p]] = calls[p].text]
                 \/ UNCHANGED shown,
                 comments'[k].marker = ActorOf[p], comments'[k].text = calls[p].text,
                 \A i \in DOMAIN comments : i # k => i \in DOMAIN comments' /\ comments'[i] = comments[i],
                 k \in DOMAIN comments => comments[k].marker = ActorOf[p]
          PROVE  ShownInv'
      <3> SUFFICES ASSUME NEW a \in Actors, shown'[a] # 0
                   PROVE  \E i \in DOMAIN comments' : comments'[i].marker = a /\ comments'[i].text >= shown'[a]
        BY DEF ShownInv
      <3>1. CASE a = ActorOf[p]
        <4>1. shown[a] <= calls[p].text
          BY <2>1, <3>1 DEF TextInv
        <4>2. shown'[a] \in {shown[a], calls[p].text}
          BY <1>0, <2>1
        <4>3. comments'[k].text >= shown'[a]
          BY <1>0, <2>1, <4>1, <4>2
        <4> QED  BY <2>1, <3>1, <4>3
      <3>2. CASE a # ActorOf[p]
        <4>1. shown'[a] = shown[a]
          BY <1>0, <2>1, <3>2
        <4>2. PICK i \in DOMAIN comments : comments[i].marker = a /\ comments[i].text >= shown[a]
          BY <2>1, <4>1 DEF ShownInv
        <4>3. i # k
          BY <2>1, <3>2, <4>2
        <4> QED  BY <2>1, <4>1, <4>2, <4>3
      <3> QED  BY <3>1, <3>2
    <2>2. CASE Patch(p)
      <3>1. PICK k \in DOMAIN comments : /\ comments[k].id = calls[p].found
                                         /\ comments' = [comments EXCEPT ![k].text = calls[p].text]
        BY <2>2 DEF Patch
      <3>2. calls[p].pc = "patch" /\ nextId' = nextId
        BY <2>2 DEF Patch
      <3>3. /\ DOMAIN comments' = DOMAIN comments /\ comments'[k].text = calls[p].text
            /\ \A i \in DOMAIN comments : comments'[i].marker = comments[i].marker
            /\ \A i \in DOMAIN comments : i # k => comments'[i] = comments[i]
        <4>1. ListInv
          BY DEF IdInv, ListInv
        <4>2. PICK text \in Nat : text = calls[p].text
          BY <1>0
        <4> QED  BY <3>1, <3>2, <4>1, <4>2, ListPatched
      <3>4. comments[k].marker = ActorOf[p]
        BY <3>1, <3>2 DEF IdInv
      <3>5. Len(comments') = Len(comments)
        BY <3>1 DEF CommentTypes
      <3>6. ShownInv
        BY <3>2, <3>5 DEF KeptInv, NothingDeleted
      <3> QED  BY <2>1, <2>2, <3>2, <3>3, <3>4, <3>6 DEF Patch, Answer
    <2>3. CASE Post(p)
      <3>1. Grown(ActorOf[p], ActorOf[p], calls[p].text) /\ calls[p].pc = "post"
        BY <1>0, <2>3, ListGrown DEF Post
      <3>2. ShownInv
        BY <3>1 DEF Grown, Kept, KeptInv
      <3>3. Len(comments) + 1 \in DOMAIN comments' /\ Len(comments) + 1 \notin DOMAIN comments
        BY <3>1 DEF Grown, CommentTypes
      <3> QED  BY <2>1, <2>3, <3>1, <3>2, <3>3 DEF Post, Answer, Grown
    <2> QED  BY <1>1, <1>4, <2>2, <2>3 DEF PublishStep, Start, Found, NotFound, PublishFails
  <1> QED  BY <1>1, <1>2, <1>3, <1>4 DEF Next, vars

(* An actor that was told its review is published finds it, or a later     *)
(* one: no later call of its own overwrites it with an older text, and     *)
(* those of others go elsewhere, if it publishes one review at a time.     *)
THEOREM PublishedIsShownHolds ==
    ASSUME OneCallEach
    PROVE  Spec => []PublishedIsShown
  <1>1. Init => KeptInv
    BY CommentInit
  <1>2. KeptInv => PublishedIsShown
    BY DEF KeptInv, ShownInv, PublishedIsShown
  <1>3. CommentTypes /\ IdInv /\ TextInv /\ KeptInv /\ [Next]_vars => KeptInv'
    BY KeptNext
  <1> QED  BY <1>1, <1>2, <1>3, CommentInvariants, PTL DEF Spec
=============================================================================
