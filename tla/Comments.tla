------------------------------ MODULE Comments ------------------------------
(***************************************************************************)
(* The comments of one article: backend/src/comments.  Readers post, edit  *)
(* and remove theirs; moderators decide on them, alone or in bulk, purge a *)
(* banned reader's, and erase for good what was already removed.  The      *)
(* article carries the number of approved ones.                            *)
(*                                                                         *)
(* A request reads, writes, counts the approved comments and stores the    *)
(* count: four moments.  Reports (a counter only the queue's order uses)   *)
(* are left out.                                                           *)
(***************************************************************************)
EXTENDS Integers, FiniteSets

CONSTANTS
  Comment,     \* bound: the comments there can be
  Reader,      \* bound: the readers who post (their e-mails confirmed)
  Status,      \* bound: the statuses in use
  Request,     \* bound: requests under way at a time
  MaxRewrites, \* bound: edits of a comment
  MaxRequests  \* bound: requests in all

NoComment == "no comment"
ASSUME CommentsAssumption ==
  /\ NoComment \notin Comment
  /\ {"PENDENTE", "APROVADO", "ELIMINADO"} \subseteq Status
  /\ Status \subseteq {"PENDENTE", "APROVADO", "REJEITADO", "SPAM", "ELIMINADO"}
  /\ MaxRewrites \in Nat /\ MaxRequests \in Nat
  /\ IsFiniteSet(Comment)

VARIABLES
  comment,      \* the Comment rows
  published,    \* the article's status is PUBLICADO
  commentCount, \* Article.commentCount
  request,      \* the requests under way
  begun,        \* bound: requests so far
  crossed,      \* history: a request wrote a row that had changed, or got a
                \* reply, since it read it
  together,     \* history: two requests were under way at one time
  cut           \* history: a request stopped after its write

cvars == <<comment, published, commentCount, request, begun, crossed, together, cut>>

Unposted == [there |-> "not yet", reader |-> "nobody", parent |-> NoComment,
          status |-> "PENDENTE", body |-> 0, approved |-> 0, young |-> FALSE]
Answered == [pc |-> "idle", op |-> "create", ids |-> {}, reader |-> "nobody",
         parent |-> NoComment, status |-> "PENDENTE", body |-> [c \in Comment |-> 0],
         recount |-> FALSE, late |-> FALSE, total |-> 0]

CommentsInit ==
  /\ comment = [c \in Comment |-> Unposted]
  /\ published = TRUE
  /\ commentCount = 0
  /\ request = [q \in Request |-> Answered]
  /\ begun = 0
  /\ crossed = FALSE /\ together = FALSE /\ cut = FALSE

Posted == {c \in Comment : comment[c].there = "yes"}
Replies(c) == {d \in Posted : comment[d].parent = c}
Approved == {c \in Posted : comment[c].status = "APROVADO"}

-----------------------------------------------------------------------------
(* What a request reads, and what it may refuse.                           *)

Begins(q, r) ==
  /\ request[q].pc = "idle"
  /\ begun < MaxRequests /\ begun' = begun + 1
  /\ together' = (together \/ \E p \in Request : request[p].pc # "idle")
  /\ request' = [request EXCEPT ![q] = r]
  /\ UNCHANGED <<comment, published, commentCount, crossed, cut>>

Reads(q, op, ids) ==
  [Answered EXCEPT !.pc = "write", !.op = op, !.ids = ids,
               !.body = [c \in Comment |-> IF c \in ids THEN comment[c].body ELSE 0],
               !.recount = TRUE]

(* create.  (Mutant: a reply to a reply hangs where it was put.)           *)
ParentAsGiven(p) == p
ParentOf(p) ==
  IF p = NoComment \/ comment[p].parent = NoComment THEN p ELSE comment[p].parent

StartPost(q, reader, p) ==
  /\ published
  /\ p = NoComment \/ p \in Posted
  /\ Begins(q, [Answered EXCEPT !.pc = "insert", !.reader = reader, !.parent = ParentOf(p)])

StartUpdate(q, reader, c) ==
  /\ c \in Posted
  /\ comment[c].status # "ELIMINADO" /\ comment[c].reader = reader /\ comment[c].young
  /\ comment[c].body \in 1..MaxRewrites
  /\ Begins(q, [Reads(q, "update", {c}) EXCEPT !.recount = (comment[c].status = "APROVADO")])

StartRemove(q, reader, c) ==
  /\ c \in Posted
  /\ comment[c].status # "ELIMINADO" /\ comment[c].reader = reader
  /\ Begins(q, Reads(q, "remove", {c}))

(* moderate, of one, and bulkModerate, of any number and to any status.    *)
StartModerate(q, ids, status) ==
  /\ ids # {} /\ ids \subseteq Posted
  /\ Begins(q, [Reads(q, "moderate", ids) EXCEPT !.status = status])

StartPurge(q, reader) ==
  LET ids == {c \in Posted : comment[c].reader = reader /\ comment[c].status # "ELIMINADO"} IN
  /\ ids # {}
  /\ Begins(q, Reads(q, "purge", ids))

(* hardDelete.  (Mutant: the replies are not looked at.)                   *)
RemovedAlready(c) == comment[c].status = "ELIMINADO"
MayErase(c) == comment[c].status = "ELIMINADO" /\ Replies(c) = {}

StartHardDelete(q, c) ==
  /\ c \in Posted
  /\ MayErase(c)
  /\ Begins(q, Reads(q, "hardDelete", {c}))

-----------------------------------------------------------------------------
(* What it writes.                                                         *)

(* The other requests that have read one of these rows are behind now.     *)
After(q, touched, next) ==
  request' = [p \in Request |->
    IF p = q THEN next
    ELSE [request[p] EXCEPT !.late = @ \/ request[p].ids \cap touched # {}]]
(* Mutant: only decisions are followed by a recount.                       *)
CountsDecisions(q) ==
  [Answered EXCEPT !.pc = IF request[q].op = "moderate" THEN "count" ELSE "idle",
               !.op = request[q].op, !.ids = request[q].ids]
Counts(q) == [Answered EXCEPT !.pc = IF request[q].recount THEN "count" ELSE "idle",
                          !.op = request[q].op, !.ids = request[q].ids]

InsertComment(q, c) ==
  LET r == request[q] IN
  /\ r.pc = "insert"
  /\ comment[c] = Unposted
  /\ r.parent = NoComment \/ r.parent \in Posted
  /\ comment' = [comment EXCEPT ![c] =
       [Unposted EXCEPT !.there = "yes", !.reader = r.reader, !.parent = r.parent,
                     !.body = 1, !.young = TRUE]]
  /\ After(q, {r.parent}, Answered)
  /\ UNCHANGED <<published, commentCount, begun, crossed, together, cut>>

(* Mutant: an edit leaves the decision as it was.                          *)
EditedAsDecided(row) == [row EXCEPT !.body = row.body + 1]
Edited(row) == [row EXCEPT !.body = row.body + 1, !.status = "PENDENTE"]
Removed(row) == [row EXCEPT !.body = 0, !.status = "ELIMINADO"]
Purged(row) == [row EXCEPT !.status = "ELIMINADO"]
Moderated(row, status, seen) == [row EXCEPT !.status = status, !.approved = seen]

Written(r, c) ==
  CASE r.op = "update"   -> Edited(comment[c])
    [] r.op = "remove"   -> Removed(comment[c])
    [] r.op = "purge"    -> Purged(comment[c])
    [] r.op = "moderate" -> Moderated(comment[c], r.status, r.body[c])

WriteRows(q) ==
  LET r == request[q]
      left == r.ids \cap Posted IN
  /\ r.pc = "write" /\ r.op # "hardDelete"
  /\ left # {}
  /\ comment' = [c \in Comment |-> IF c \in left THEN Written(r, c) ELSE comment[c]]
  /\ crossed' = (crossed \/ r.late)
  /\ After(q, left, Counts(q))
  /\ UNCHANGED <<published, commentCount, begun, together, cut>>

(* The delete takes the replies with it.                                   *)
Erase(q) ==
  LET r == request[q]
      gone == (r.ids \cap Posted) \cup UNION {Replies(c) : c \in r.ids} IN
  /\ r.pc = "write" /\ r.op = "hardDelete"
  /\ r.ids \subseteq Posted
  /\ comment' = [c \in Comment |->
                   IF c \in gone THEN [Unposted EXCEPT !.there = "no more"] ELSE comment[c]]
  /\ crossed' = (crossed \/ r.late)
  /\ After(q, gone, Counts(q))
  /\ UNCHANGED <<published, commentCount, begun, together, cut>>

(* recount; and syncCount, which finds the article by the comment.         *)
CountApproved(q) ==
  LET r == request[q] IN
  /\ r.pc = "count"
  /\ request' = [request EXCEPT ![q] =
       IF r.op \in {"update", "remove"} /\ r.ids \cap Posted = {} THEN Answered
       ELSE [Answered EXCEPT !.pc = "store", !.op = r.op, !.total = Cardinality(Approved)]]
  /\ UNCHANGED <<comment, published, commentCount, begun, crossed, together, cut>>

(* Mutant: a removal takes one off, whether or not it was counted.         *)
TotalOrOneLess(q) == IF request[q].op = "remove" THEN commentCount - 1 ELSE request[q].total
Total(q) == request[q].total

StoreCount(q) ==
  /\ request[q].pc = "store"
  /\ commentCount' = Total(q)
  /\ request' = [request EXCEPT ![q] = Answered]
  /\ UNCHANGED <<comment, published, begun, crossed, together, cut>>

(* The row is gone, the database refuses, or the process stops.            *)
Stops(q) ==
  /\ request[q].pc # "idle"
  /\ request' = [request EXCEPT ![q] = Answered]
  /\ cut' = (cut \/ request[q].pc \in {"count", "store"})
  /\ UNCHANGED <<comment, published, commentCount, begun, crossed, together>>

(* The fifteen minutes pass; the article leaves the site.                  *)
Ages(c) ==
  /\ c \in Posted /\ comment[c].young
  /\ comment' = [comment EXCEPT ![c].young = FALSE]
  /\ UNCHANGED <<published, commentCount, request, begun, crossed, together, cut>>

ArticleGoes ==
  /\ published
  /\ published' = FALSE
  /\ UNCHANGED <<comment, commentCount, request, begun, crossed, together, cut>>

-----------------------------------------------------------------------------
CommentsNext ==
  \/ \E q \in Request :
       \/ \E r \in Reader, c \in Comment : StartUpdate(q, r, c) \/ StartRemove(q, r, c)
       \/ \E r \in Reader, p \in Comment \cup {NoComment} : StartPost(q, r, p)
       \/ \E r \in Reader : StartPurge(q, r)
       \/ \E ids \in SUBSET Comment, s \in Status : StartModerate(q, ids, s)
       \/ \E c \in Comment : StartHardDelete(q, c) \/ InsertComment(q, c)
       \/ WriteRows(q) \/ Erase(q) \/ CountApproved(q) \/ StoreCount(q) \/ Stops(q)
  \/ \E c \in Comment : Ages(c)
  \/ ArticleGoes

CommentsSpec == CommentsInit /\ [][CommentsNext]_cvars

-----------------------------------------------------------------------------
PostType == [there : {"not yet", "yes", "no more"}, reader : Reader \cup {"nobody"},
             parent : Comment \cup {NoComment}, status : Status,
             body : Nat, approved : Nat, young : BOOLEAN]
RequestType == [pc : {"idle", "insert", "write", "count", "store"},
                op : {"create", "update", "remove", "moderate", "purge", "hardDelete"},
                ids : SUBSET Comment, reader : Reader \cup {"nobody"},
                parent : Comment \cup {NoComment}, status : Status,
                body : [Comment -> Nat],
                recount : BOOLEAN, late : BOOLEAN, total : 0..Cardinality(Comment)]

(* The types.                                                              *)
CommentsTypeOK ==
  /\ comment \in [Comment -> PostType]
  /\ published \in BOOLEAN
  /\ commentCount \in 0..Cardinality(Comment)
  /\ request \in [Request -> RequestType]
  /\ begun \in 0..MaxRequests
  /\ crossed \in BOOLEAN /\ together \in BOOLEAN /\ cut \in BOOLEAN

(* A thread has two levels, and a reply is under a comment that is there.  *)
ThreadsHaveTwoLevels ==
  \A c \in Posted :
    comment[c].parent # NoComment =>
      comment[c].parent \in Posted /\ comment[comment[c].parent].parent = NoComment

(* What readers are shown was approved as it now reads; unless a moderator *)
(* decided on a comment while it was being changed.                        *)
ShownAsApproved ==
  ~crossed => \A c \in Approved : comment[c].approved = comment[c].body

(* Once every request has ended, the article's number is that of its       *)
(* approved comments; if none overlapped another or was cut short.         *)
CountIsRight ==
  ~together /\ ~cut /\ (\A q \in Request : request[q].pc = "idle") =>
    commentCount = Cardinality(Approved)

(* While its article is there, a comment leaves the database only as one   *)
(* that was removed before: an erasure takes no reply with it that was     *)
(* there when it was checked.  (The cascade of a deleted article, which    *)
(* takes every comment it has, is outside this module.)                    *)
ErasedWasRemoved ==
  [][\A c \in Comment :
       comment[c].there = "yes" /\ comment'[c].there # "yes" =>
         comment[c].status = "ELIMINADO" \/ crossed']_cvars
=============================================================================
