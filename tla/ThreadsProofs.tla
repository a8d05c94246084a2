---------------------------- MODULE ThreadsProofs ----------------------------
(***************************************************************************)
(* What Comments and CategoryTree promise: for any number of comments,     *)
(* readers and requests that overlap, stop halfway or come too late; and   *)
(* for any sections, depths and editors at work on them.                   *)
(***************************************************************************)
EXTENDS Comments, CategoryTree, FiniteSetTheorems, TLAPS

LEMMA StatusFacts ==
  /\ "PENDENTE" \in Status /\ "APROVADO" \in Status /\ "ELIMINADO" \in Status
  /\ NoComment \notin Comment
  BY CommentsAssumption

LEMMA CountFacts ==
  ASSUME NEW S \in SUBSET Comment
  PROVE  Cardinality(S) \in 0..Cardinality(Comment)
  <1>1. IsFiniteSet(Comment)
    BY CommentsAssumption
  <1>2. Cardinality(S) <= Cardinality(Comment) /\ IsFiniteSet(S)
    BY <1>1, FS_Subset
  <1>3. Cardinality(S) \in Nat /\ Cardinality(Comment) \in Nat
    BY <1>1, <1>2, FS_CardinalityType
  <1>. QED  BY <1>2, <1>3

-----------------------------------------------------------------------------
(* Types.                                                                  *)

LEMMA UnpostedTypes ==
  /\ Unposted \in PostType
  /\ Unposted.there = "not yet" /\ Unposted.parent = NoComment
  /\ [Unposted EXCEPT !.there = "no more"] \in PostType
  BY StatusFacts DEF Unposted, PostType

LEMMA AnsweredTypes ==
  /\ Answered \in RequestType
  /\ Answered.pc = "idle" /\ Answered.ids = {} /\ ~Answered.late
  <1>1. {} \in SUBSET Comment /\ 0 \in 0..Cardinality(Comment)
    BY CountFacts, FS_EmptySet
  <1>2. [c \in Comment |-> 0] \in [Comment -> Nat]
    OBVIOUS
  <1>3. Answered.total = 0 /\ Answered.body = [c \in Comment |-> 0]
    BY DEF Answered
  <1>. QED  BY <1>1, <1>2, StatusFacts DEF Answered, RequestType

LEMMA ReadsTypes ==
  ASSUME CommentsTypeOK, NEW q \in Request, NEW ids \in SUBSET Comment,
         NEW op \in {"create", "update", "remove", "moderate", "purge", "hardDelete"}
  PROVE  /\ Reads(q, op, ids) \in RequestType
         /\ Reads(q, op, ids).pc = "write" /\ Reads(q, op, ids).op = op
         /\ Reads(q, op, ids).ids = ids /\ ~Reads(q, op, ids).late
         /\ Reads(q, op, ids).recount
  <1>. DEFINE body == [c \in Comment |-> IF c \in ids THEN comment[c].body ELSE 0]
  <1>1. body \in [Comment -> Nat]
    BY DEF CommentsTypeOK, PostType
  <1>2. Reads(q, op, ids) = [Answered EXCEPT !.pc = "write", !.op = op, !.ids = ids,
                               !.body = body, !.recount = TRUE]
    BY DEF Reads
  <1>. HIDE DEF body
  <1>3. /\ Reads(q, op, ids) \in RequestType
        /\ Reads(q, op, ids).pc = "write" /\ Reads(q, op, ids).op = op
        /\ Reads(q, op, ids).ids = ids /\ ~Reads(q, op, ids).late
        /\ Reads(q, op, ids).recount
    BY <1>1, <1>2, AnsweredTypes DEF RequestType
  <1>. QED  BY <1>3

LEMMA ReadsBodies ==
  ASSUME CommentsTypeOK, NEW q \in Request, NEW ids \in SUBSET Comment, NEW c \in ids,
         NEW op \in {"create", "update", "remove", "moderate", "purge", "hardDelete"}
  PROVE  Reads(q, op, ids).body[c] = comment[c].body
  <1>. DEFINE body == [x \in Comment |-> IF x \in ids THEN comment[x].body ELSE 0]
  <1>1. Reads(q, op, ids) = [Answered EXCEPT !.pc = "write", !.op = op, !.ids = ids,
                               !.body = body, !.recount = TRUE]
    BY DEF Reads
  <1>2. body[c] = comment[c].body
    OBVIOUS
  <1>. HIDE DEF body
  <1>3. Reads(q, op, ids).body = body
    BY <1>1, AnsweredTypes DEF RequestType
  <1>. QED  BY <1>2, <1>3

LEMMA BeginsTypes ==
  ASSUME CommentsTypeOK, NEW q \in Request, NEW r \in RequestType, Begins(q, r)
  PROVE  CommentsTypeOK'
  <1>1. begun' \in 0..MaxRequests
    <2>1. MaxRequests \in Nat
      BY CommentsAssumption
    <2>. QED  BY <2>1 DEF Begins, CommentsTypeOK
  <1>2. together' \in BOOLEAN
    BY DEF Begins, CommentsTypeOK
  <1>3. request' \in [Request -> RequestType]
    BY DEF Begins, CommentsTypeOK
  <1>. QED  BY <1>1, <1>2, <1>3 DEF Begins, CommentsTypeOK

(* What the others keep when one has written.                              *)
LEMMA AfterIs ==
  ASSUME CommentsTypeOK, NEW q \in Request, NEW touched, NEW next, After(q, touched, next)
  PROVE  /\ request'[q] = next
         /\ \A p \in Request \ {q} :
              /\ request'[p] \in RequestType
              /\ request'[p].pc = request[p].pc /\ request'[p].op = request[p].op
              /\ request'[p].ids = request[p].ids /\ request'[p].parent = request[p].parent
              /\ request'[p].body = request[p].body /\ request'[p].total = request[p].total
              /\ request'[p].status = request[p].status
              /\ request'[p].recount = request[p].recount
              /\ ~request'[p].late => ~request[p].late /\ request[p].ids \cap touched = {}
              /\ request[p].ids \cap touched = {} => request'[p].late = request[p].late
         /\ request' = [p \in Request |-> request'[p]]
  <1>1. request'[q] = next /\ request' = [p \in Request |-> request'[p]]
    BY DEF After
  <1>2. ASSUME NEW p \in Request \ {q}
        PROVE  /\ request'[p] \in RequestType
               /\ request'[p].pc = request[p].pc /\ request'[p].op = request[p].op
               /\ request'[p].ids = request[p].ids /\ request'[p].parent = request[p].parent
               /\ request'[p].body = request[p].body /\ request'[p].total = request[p].total
               /\ request'[p].status = request[p].status
               /\ request'[p].recount = request[p].recount
               /\ ~request'[p].late => ~request[p].late /\ request[p].ids \cap touched = {}
               /\ request[p].ids \cap touched = {} => request'[p].late = request[p].late
    <2>. DEFINE late == request[p].late \/ request[p].ids \cap touched # {}
    <2>1. request'[p] = [request[p] EXCEPT !.late = late]
      BY <1>2 DEF After
    <2>2. request[p] \in RequestType /\ request[p].late \in BOOLEAN /\ late \in BOOLEAN
      BY DEF CommentsTypeOK, RequestType
    <2>3. /\ ~late => ~request[p].late /\ request[p].ids \cap touched = {}
          /\ request[p].ids \cap touched = {} => late = request[p].late
      BY <2>2
    <2>. HIDE DEF late
    <2>4. /\ request'[p] \in RequestType /\ request'[p].late = late
          /\ request'[p].pc = request[p].pc /\ request'[p].op = request[p].op
          /\ request'[p].ids = request[p].ids /\ request'[p].parent = request[p].parent
          /\ request'[p].body = request[p].body /\ request'[p].total = request[p].total
          /\ request'[p].status = request[p].status
          /\ request'[p].recount = request[p].recount
      BY <2>1, <2>2 DEF RequestType
    <2>. QED  BY <2>3, <2>4
  <1>. QED  BY <1>1, <1>2

LEMMA CountsTypes ==
  ASSUME CommentsTypeOK, NEW q \in Request
  PROVE  /\ Counts(q) \in RequestType
         /\ Counts(q).pc = (IF request[q].recount THEN "count" ELSE "idle")
         /\ Counts(q).op = request[q].op /\ Counts(q).ids = request[q].ids
         /\ ~Counts(q).late
  <1>1. request[q] \in RequestType
    BY DEF CommentsTypeOK
  <1>2. request[q].op \in {"create", "update", "remove", "moderate", "purge", "hardDelete"}
        /\ request[q].ids \in SUBSET Comment
    BY <1>1 DEF RequestType
  <1>. QED  BY <1>2, AnsweredTypes DEF Counts, RequestType

-----------------------------------------------------------------------------
(* The invariant.                                                          *)

(* What a request read, as long as nothing it read was changed.            *)
Stands(r) ==
  \A c \in r.ids :
    /\ comment[c].there = "yes"
    /\ comment[c].body = r.body[c]
    /\ r.op = "update" /\ ~r.recount => comment[c].status # "APROVADO"
    /\ r.op = "hardDelete" => MayErase(c)
Steady ==
  \A q \in Request : request[q].pc = "write" /\ ~request[q].late => Stands(request[q])

Writing(r) == r.op # "create" /\ (r.op # "update" => r.recount)
WritesAre == \A q \in Request : request[q].pc = "write" => Writing(request[q])

(* A comment about to be inserted hangs under one that hangs under none.   *)
TopParent(p) ==
  p = NoComment \/ (comment[p].there # "not yet" /\ comment[p].parent = NoComment)
ParentsAreTop ==
  \A q \in Request : request[q].pc = "insert" => TopParent(request[q].parent)

(* As long as no two requests are under way at a time, the one that is has *)
(* nobody before it, and the number it stores is right.                    *)
Alone ==
  ~together =>
    \A q \in Request :
      request[q].pc # "idle" =>
        /\ \A p \in Request \ {q} : request[p].pc = "idle"
        /\ ~request[q].late
        /\ request[q].pc = "count" /\ request[q].op \in {"update", "remove"} =>
             request[q].ids \cap Posted # {}
Counting ==
  ~together /\ ~cut =>
    /\ (\A q \in Request : request[q].pc \in {"idle", "insert", "write"}) =>
         commentCount = Cardinality(Approved)
    /\ \A q \in Request :
         request[q].pc = "store" => request[q].total = Cardinality(Approved)

CommentsInv ==
  /\ Steady /\ WritesAre /\ ParentsAreTop /\ Alone /\ Counting
  /\ ThreadsHaveTwoLevels /\ ShownAsApproved

LEMMA CommentsBegin == CommentsInit => CommentsTypeOK /\ CommentsInv
  <1>. SUFFICES ASSUME CommentsInit PROVE CommentsTypeOK /\ CommentsInv
    OBVIOUS
  <1>1. \A c \in Comment : comment[c] = Unposted
    BY DEF CommentsInit
  <1>2. \A q \in Request : request[q] = Answered /\ request[q].pc = "idle"
    BY AnsweredTypes DEF CommentsInit
  <1>3. Posted = {} /\ Approved = {}
    BY <1>1, UnpostedTypes DEF Posted, Approved
  <1>4. commentCount = 0 /\ Cardinality(Approved) = 0
    BY <1>3, FS_EmptySet DEF CommentsInit
  <1>5. 0 \in 0..Cardinality(Comment) /\ 0 \in 0..MaxRequests
    <2>1. 0 \in 0..Cardinality(Comment)
      BY CountFacts, FS_EmptySet
    <2>2. MaxRequests \in Nat
      BY CommentsAssumption
    <2>. QED  BY <2>1, <2>2
  <1>6. CommentsTypeOK
    BY <1>5, UnpostedTypes, AnsweredTypes DEF CommentsInit, CommentsTypeOK
  <1>7. Steady /\ WritesAre /\ ParentsAreTop /\ Alone
    BY <1>2 DEF Steady, WritesAre, ParentsAreTop, Alone
  <1>8. Counting
    BY <1>2, <1>4 DEF Counting
  <1>9. ThreadsHaveTwoLevels /\ ShownAsApproved
    BY <1>3 DEF ThreadsHaveTwoLevels, ShownAsApproved
  <1>. QED  BY <1>6, <1>7, <1>8, <1>9 DEF CommentsInv

-----------------------------------------------------------------------------
(* Requests begin with what they read.                                     *)

Begun(r) ==
  \/ r.pc = "insert" /\ TopParent(r.parent) /\ ~r.late
  \/ r.pc = "write" /\ Writing(r) /\ Stands(r) /\ ~r.late

StartOf(q) ==
  \/ \E r \in Reader, c \in Comment : StartUpdate(q, r, c) \/ StartRemove(q, r, c)
  \/ \E r \in Reader, p \in Comment \cup {NoComment} : StartPost(q, r, p)
  \/ \E r \in Reader : StartPurge(q, r)
  \/ \E ids \in SUBSET Comment, s \in Status : StartModerate(q, ids, s)
  \/ \E c \in Comment : StartHardDelete(q, c)

LEMMA ReadsStand ==
  ASSUME CommentsTypeOK, NEW q \in Request, NEW ids \in SUBSET Comment, ids \subseteq Posted,
         NEW op \in {"remove", "moderate", "purge", "hardDelete"},
         op = "hardDelete" => \A c \in ids : MayErase(c)
  PROVE  Begun(Reads(q, op, ids))
  <1>1. Writing(Reads(q, op, ids))
    BY ReadsTypes DEF Writing
  <1>2. Stands(Reads(q, op, ids))
    BY ReadsTypes, ReadsBodies DEF Stands, Posted
  <1>. QED  BY <1>1, <1>2, ReadsTypes DEF Begun

LEMMA StartsBegin ==
  ASSUME CommentsTypeOK, CommentsInv, NEW q \in Request, StartOf(q)
  PROVE  \E r \in RequestType : Begins(q, r) /\ Begun(r)
  <1>1. ASSUME NEW reader \in Reader, NEW c \in Comment, StartUpdate(q, reader, c)
        PROVE  \E r \in RequestType : Begins(q, r) /\ Begun(r)
    <2>. DEFINE base == Reads(q, "update", {c})
                recount == (comment[c].status = "APROVADO")
                r == [base EXCEPT !.recount = recount]
    <2>1. /\ base \in RequestType /\ base.pc = "write" /\ base.op = "update"
          /\ base.ids = {c} /\ ~base.late
          /\ base.body[c] = comment[c].body
      BY ReadsTypes, ReadsBodies
    <2>2. recount \in BOOLEAN
      OBVIOUS
    <2>3. c \in Posted
      BY <1>1 DEF StartUpdate
    <2>4. Begins(q, r)
      BY <1>1 DEF StartUpdate
    <2>5. r \in RequestType /\ r.pc = "write" /\ r.op = "update" /\ r.ids = {c}
          /\ ~r.late /\ r.recount = recount /\ r.body = base.body
      <3>. HIDE DEF base, recount
      <3>. QED  BY <2>1, <2>2 DEF RequestType
    <2>6. Writing(r)
      BY <2>5 DEF Writing
    <2>7. Stands(r)
      <3>1. r.body[c] = comment[c].body
        BY <2>1, <2>5
      <3>2. ~r.recount => comment[c].status # "APROVADO"
        BY <2>5
      <3>3. comment[c].there = "yes"
        BY <2>3 DEF Posted
      <3>. HIDE DEF r
      <3>. QED  BY <2>5, <3>1, <3>2, <3>3 DEF Stands
    <2>8. Begun(r)
      <3>. HIDE DEF r
      <3>. QED  BY <2>5, <2>6, <2>7 DEF Begun
    <2>. QED  BY <2>4, <2>5, <2>8
  <1>2. ASSUME NEW reader \in Reader, NEW c \in Comment, StartRemove(q, reader, c)
        PROVE  \E r \in RequestType : Begins(q, r) /\ Begun(r)
    BY <1>2, ReadsTypes, ReadsStand DEF StartRemove
  <1>3. ASSUME NEW reader \in Reader, NEW p \in Comment \cup {NoComment},
               StartPost(q, reader, p)
        PROVE  \E r \in RequestType : Begins(q, r) /\ Begun(r)
    <2>. DEFINE r == [Answered EXCEPT !.pc = "insert", !.reader = reader,
                                      !.parent = ParentOf(p)]
    <2>1. Begins(q, r) /\ (p = NoComment \/ p \in Posted)
      BY <1>3 DEF StartPost
    <2>2. ParentOf(p) \in Comment \cup {NoComment} /\ TopParent(ParentOf(p))
      <3>1. CASE p = NoComment
        BY <3>1 DEF ParentOf, TopParent
      <3>2. CASE p # NoComment /\ comment[p].parent = NoComment
        BY <2>1, <3>2 DEF ParentOf, TopParent, Posted
      <3>3. CASE p # NoComment /\ comment[p].parent # NoComment
        <4>1. p \in Posted /\ ParentOf(p) = comment[p].parent
          BY <2>1, <3>3 DEF ParentOf
        <4>2. comment[p].parent \in Posted /\ comment[comment[p].parent].parent = NoComment
          BY <3>3, <4>1 DEF CommentsInv, ThreadsHaveTwoLevels
        <4>. QED  BY <4>1, <4>2 DEF TopParent, Posted
      <3>. QED  BY <3>1, <3>2, <3>3
    <2>3. r \in RequestType /\ r.pc = "insert" /\ r.parent = ParentOf(p) /\ ~r.late
      BY <2>2, AnsweredTypes DEF RequestType
    <2>4. Begun(r)
      <3>. HIDE DEF r
      <3>. QED  BY <2>2, <2>3 DEF Begun
    <2>. QED  BY <2>1, <2>3, <2>4
  <1>4. ASSUME NEW reader \in Reader, StartPurge(q, reader)
        PROVE  \E r \in RequestType : Begins(q, r) /\ Begun(r)
    <2>. DEFINE ids == {c \in Posted : comment[c].reader = reader
                                       /\ comment[c].status # "ELIMINADO"}
    <2>1. ids \in SUBSET Comment /\ ids \subseteq Posted
      BY DEF Posted
    <2>2. Begins(q, Reads(q, "purge", ids))
      BY <1>4 DEF StartPurge
    <2>. HIDE DEF ids
    <2>. QED  BY <2>1, <2>2, ReadsTypes, ReadsStand
  <1>5. ASSUME NEW ids \in SUBSET Comment, NEW status \in Status, StartModerate(q, ids, status)
        PROVE  \E r \in RequestType : Begins(q, r) /\ Begun(r)
    <2>. DEFINE base == Reads(q, "moderate", ids)
                r == [base EXCEPT !.status = status]
    <2>1. Begins(q, r) /\ ids \subseteq Posted
      BY <1>5 DEF StartModerate
    <2>2. /\ base \in RequestType /\ base.pc = "write" /\ base.op = "moderate"
          /\ base.ids = ids /\ ~base.late /\ base.recount
          /\ Stands(base)
      BY <2>1, ReadsTypes, ReadsStand DEF Begun
    <2>3. /\ r \in RequestType /\ r.pc = "write" /\ r.op = "moderate"
          /\ r.ids = ids /\ ~r.late /\ r.recount /\ r.body = base.body
      <3>. HIDE DEF base
      <3>. QED  BY <2>2 DEF RequestType
    <2>4. Begun(r)
      <3>. HIDE DEF r, base
      <3>. QED  BY <2>2, <2>3 DEF Begun, Writing, Stands
    <2>. QED  BY <2>1, <2>3, <2>4
  <1>6. ASSUME NEW c \in Comment, StartHardDelete(q, c)
        PROVE  \E r \in RequestType : Begins(q, r) /\ Begun(r)
    BY <1>6, ReadsTypes, ReadsStand DEF StartHardDelete
  <1>. QED  BY <1>1, <1>2, <1>3, <1>4, <1>5, <1>6 DEF StartOf

-----------------------------------------------------------------------------
(* Steps that leave the rows as they are, but for their age.               *)

SameRows ==
  \A c \in Comment :
    /\ comment'[c].there = comment[c].there /\ comment'[c].parent = comment[c].parent
    /\ comment'[c].status = comment[c].status /\ comment'[c].body = comment[c].body
    /\ comment'[c].approved = comment[c].approved

LEMMA Alike ==
  ASSUME CommentsTypeOK, SameRows
  PROVE  /\ Posted' = Posted /\ Approved' = Approved
         /\ \A c \in Comment : MayErase(c) => MayErase(c)'
         /\ \A c \in Comment \cup {NoComment} : TopParent(c) => TopParent(c)'
         /\ ThreadsHaveTwoLevels => ThreadsHaveTwoLevels'
         /\ ShownAsApproved /\ crossed' = crossed => ShownAsApproved'
  <1>1. Posted' = Posted
    BY DEF SameRows, Posted
  <1>2. Approved' = Approved
    BY <1>1 DEF SameRows, Approved, Posted
  <1>3. \A c \in Comment : Replies(c)' = Replies(c)
    BY <1>1 DEF SameRows, Replies, Posted
  <1>4. \A c \in Comment : MayErase(c) => MayErase(c)'
    BY <1>3 DEF SameRows, MayErase
  <1>5. \A c \in Comment \cup {NoComment} : TopParent(c) => TopParent(c)'
    BY DEF SameRows, TopParent
  <1>6. ThreadsHaveTwoLevels => ThreadsHaveTwoLevels'
    BY <1>1 DEF SameRows, ThreadsHaveTwoLevels, Posted
  <1>7. ShownAsApproved /\ crossed' = crossed => ShownAsApproved'
    BY <1>2 DEF SameRows, ShownAsApproved, Approved, Posted
  <1>. QED  BY <1>1, <1>2, <1>4, <1>5, <1>6, <1>7

LEMMA AlikeStands ==
  ASSUME CommentsTypeOK, SameRows, NEW r, r.ids \subseteq Comment, Stands(r)
  PROVE  \A c \in r.ids :
           /\ comment'[c].there = "yes"
           /\ comment'[c].body = r.body[c]
           /\ r.op = "update" /\ ~r.recount => comment'[c].status # "APROVADO"
           /\ r.op = "hardDelete" => MayErase(c)'
  BY Alike DEF SameRows, Stands

LEMMA OneMoves ==
  ASSUME CommentsTypeOK, CommentsInv, NEW q \in Request, NEW n \in RequestType,
         SameRows, crossed' = crossed, request' = [request EXCEPT ![q] = n],
         Begun(n) \/ n.pc \notin {"insert", "write"}
  PROVE  /\ Steady' /\ WritesAre' /\ ParentsAreTop'
         /\ ThreadsHaveTwoLevels' /\ ShownAsApproved'
  <1>1. /\ request'[q] = n
        /\ \A p \in Request \ {q} : request'[p] = request[p]
        /\ \A p \in Request : request'[p] \in RequestType
    BY DEF CommentsTypeOK
  <1>2. ThreadsHaveTwoLevels' /\ ShownAsApproved'
    BY Alike DEF CommentsInv
  <1>3. WritesAre'
    BY <1>1 DEF WritesAre, CommentsInv, Begun
  <1>4. ParentsAreTop'
    <2>1. ASSUME NEW p \in Request, request'[p].pc = "insert"
          PROVE  TopParent(request'[p].parent) /\ request'[p].parent \in Comment \cup {NoComment}
      <3>1. request'[p].parent \in Comment \cup {NoComment}
        BY <1>1 DEF RequestType
      <3>2. CASE p = q
        BY <1>1, <2>1, <3>1, <3>2 DEF Begun
      <3>3. CASE p # q
        BY <1>1, <2>1, <3>1, <3>3 DEF ParentsAreTop, CommentsInv
      <3>. QED  BY <3>2, <3>3
    <2>2. \A c \in Comment \cup {NoComment} :
            TopParent(c) => c = NoComment
                \/ (comment'[c].there # "not yet" /\ comment'[c].parent = NoComment)
      BY DEF SameRows, TopParent
    <2>. QED  BY <2>1, <2>2 DEF ParentsAreTop, TopParent
  <1>5. Steady'
    <2>1. ASSUME NEW p \in Request, request'[p].pc = "write", ~request'[p].late
          PROVE  Stands(request'[p]) /\ request'[p].ids \subseteq Comment
      <3>1. request'[p].ids \subseteq Comment
        BY <1>1 DEF RequestType
      <3>2. CASE p = q
        BY <1>1, <2>1, <3>1, <3>2 DEF Begun
      <3>3. CASE p # q
        BY <1>1, <2>1, <3>1, <3>3 DEF Steady, CommentsInv
      <3>. QED  BY <3>2, <3>3
    <2>2. ASSUME NEW p \in Request, request'[p].pc = "write", ~request'[p].late
          PROVE  Stands(request[p])'
      <3>. DEFINE r == request'[p]
      <3>1. Stands(r) /\ r.ids \subseteq Comment
        BY <2>1, <2>2
      <3>2. \A c \in r.ids :
              /\ comment'[c].there = "yes"
              /\ comment'[c].body = r.body[c]
              /\ r.op = "update" /\ ~r.recount => comment'[c].status # "APROVADO"
              /\ r.op = "hardDelete" => MayErase(c)'
        <4>. HIDE DEF r
        <4>. QED  BY <3>1, AlikeStands
      <3>. QED  BY <3>2 DEF Stands
    <2>. QED  BY <2>2 DEF Steady
  <1>. QED  BY <1>2, <1>3, <1>4, <1>5

LEMMA BeginKeeps ==
  ASSUME CommentsTypeOK, CommentsInv, NEW q \in Request, NEW r \in RequestType,
         Begins(q, r), Begun(r)
  PROVE  CommentsTypeOK' /\ CommentsInv'
  <1>1. CommentsTypeOK'
    BY BeginsTypes
  <1>2. /\ SameRows /\ crossed' = crossed /\ cut' = cut /\ commentCount' = commentCount
        /\ request' = [request EXCEPT ![q] = r]
        /\ ~together' => ~together /\ \A p \in Request : request[p].pc = "idle"
    BY DEF Begins, SameRows
  <1>3. Steady' /\ WritesAre' /\ ParentsAreTop' /\ ThreadsHaveTwoLevels' /\ ShownAsApproved'
    BY <1>2, OneMoves
  <1>4. /\ request'[q] = r /\ \A p \in Request \ {q} : request'[p] = request[p]
        /\ r.pc \in {"insert", "write"} /\ ~r.late
    BY <1>2 DEF CommentsTypeOK, Begun
  <1>5. Alone'
    BY <1>2, <1>4 DEF Alone
  <1>6. Counting'
    BY <1>2, <1>4, Alike DEF Counting, CommentsInv
  <1>. QED  BY <1>1, <1>3, <1>5, <1>6 DEF CommentsInv

LEMMA CountKeeps ==
  ASSUME CommentsTypeOK, CommentsInv, NEW q \in Request, CountApproved(q)
  PROVE  CommentsTypeOK' /\ CommentsInv'
  <1>. DEFINE r == request[q]
              lost == r.op \in {"update", "remove"} /\ r.ids \cap Posted = {}
              found == [Answered EXCEPT !.pc = "store", !.op = r.op,
                                        !.total = Cardinality(Approved)]
              n == IF lost THEN Answered ELSE found
  <1>1. /\ SameRows /\ crossed' = crossed /\ cut' = cut /\ commentCount' = commentCount
        /\ request' = [request EXCEPT ![q] = n] /\ together' = together /\ r.pc = "count"
    BY DEF CountApproved, SameRows
  <1>2. r.op \in {"create", "update", "remove", "moderate", "purge", "hardDelete"}
    BY DEF CommentsTypeOK, RequestType
  <1>3. Cardinality(Approved) \in 0..Cardinality(Comment)
    BY CountFacts DEF Approved, Posted
  <1>4. found \in RequestType /\ found.pc = "store" /\ found.total = Cardinality(Approved)
        /\ ~found.late
    <2>. HIDE DEF r
    <2>. QED  BY <1>2, <1>3, AnsweredTypes DEF RequestType
  <1>5. /\ n \in RequestType /\ n.pc \in {"idle", "store"} /\ ~n.late
        /\ ~lost => n.pc = "store" /\ n.total = Cardinality(Approved)
        /\ n.pc = "store" => n.total = Cardinality(Approved)
    <2>. HIDE DEF found, lost
    <2>. QED  BY <1>4, AnsweredTypes
  <1>6. ~together => ~lost /\ \A p \in Request \ {q} : request[p].pc = "idle"
    BY <1>1 DEF Alone, CommentsInv
  <1>. HIDE DEF n, lost, found
  <1>7. /\ request'[q] = n /\ \A p \in Request \ {q} : request'[p] = request[p]
    BY <1>1 DEF CommentsTypeOK
  <1>8. CommentsTypeOK'
    <2>1. request' \in [Request -> RequestType]
      BY <1>1, <1>5 DEF CommentsTypeOK
    <2>. QED  BY <2>1 DEF CommentsTypeOK, CountApproved
  <1>9. Steady' /\ WritesAre' /\ ParentsAreTop' /\ ThreadsHaveTwoLevels' /\ ShownAsApproved'
    BY <1>1, <1>5, OneMoves
  <1>10. Alone'
    BY <1>1, <1>5, <1>6, <1>7 DEF Alone
  <1>11. Counting'
    BY <1>1, <1>5, <1>6, <1>7, Alike DEF Counting, CommentsInv
  <1>. QED  BY <1>8, <1>9, <1>10, <1>11 DEF CommentsInv

LEMMA StoreKeeps ==
  ASSUME CommentsTypeOK, CommentsInv, NEW q \in Request, StoreCount(q)
  PROVE  CommentsTypeOK' /\ CommentsInv'
  <1>1. /\ SameRows /\ crossed' = crossed /\ cut' = cut /\ together' = together
        /\ request' = [request EXCEPT ![q] = Answered]
        /\ commentCount' = request[q].total /\ request[q].pc = "store"
    BY DEF StoreCount, SameRows, Total
  <1>2. /\ request'[q] = Answered /\ \A p \in Request \ {q} : request'[p] = request[p]
    BY <1>1 DEF CommentsTypeOK
  <1>3. CommentsTypeOK'
    <2>1. request' \in [Request -> RequestType]
      BY <1>1, AnsweredTypes DEF CommentsTypeOK
    <2>2. commentCount' \in 0..Cardinality(Comment)
      BY <1>1 DEF CommentsTypeOK, RequestType
    <2>. QED  BY <2>1, <2>2 DEF CommentsTypeOK, StoreCount
  <1>4. Steady' /\ WritesAre' /\ ParentsAreTop' /\ ThreadsHaveTwoLevels' /\ ShownAsApproved'
    BY <1>1, AnsweredTypes, OneMoves
  <1>5. Alone'
    BY <1>1, <1>2, AnsweredTypes DEF Alone, CommentsInv
  <1>6. Counting'
    <2>1. ~together /\ ~cut =>
            request[q].total = Cardinality(Approved)
            /\ \A p \in Request \ {q} : request[p].pc = "idle"
      BY <1>1 DEF Counting, Alone, CommentsInv
    <2>. QED  BY <1>1, <1>2, <2>1, AnsweredTypes, Alike DEF Counting
  <1>. QED  BY <1>3, <1>4, <1>5, <1>6 DEF CommentsInv

LEMMA StopKeeps ==
  ASSUME CommentsTypeOK, CommentsInv, NEW q \in Request, Stops(q)
  PROVE  CommentsTypeOK' /\ CommentsInv'
  <1>1. /\ SameRows /\ crossed' = crossed /\ together' = together
        /\ request' = [request EXCEPT ![q] = Answered] /\ commentCount' = commentCount
        /\ request[q].pc # "idle"
        /\ cut' = (cut \/ request[q].pc \in {"count", "store"})
    BY DEF Stops, SameRows
  <1>2. /\ request'[q] = Answered /\ \A p \in Request \ {q} : request'[p] = request[p]
    BY <1>1 DEF CommentsTypeOK
  <1>3. CommentsTypeOK'
    <2>1. request' \in [Request -> RequestType]
      BY <1>1, AnsweredTypes DEF CommentsTypeOK
    <2>2. cut' \in BOOLEAN
      BY <1>1 DEF CommentsTypeOK
    <2>. QED  BY <2>1, <2>2 DEF CommentsTypeOK, Stops
  <1>4. Steady' /\ WritesAre' /\ ParentsAreTop' /\ ThreadsHaveTwoLevels' /\ ShownAsApproved'
    BY <1>1, AnsweredTypes, OneMoves
  <1>5. Alone'
    BY <1>1, <1>2, AnsweredTypes DEF Alone, CommentsInv
  <1>6. Counting'
    <2>1. request[q].pc \in {"insert", "write", "count", "store"}
      BY <1>1 DEF CommentsTypeOK, RequestType
    <2>2. ~together' /\ ~cut' =>
            commentCount = Cardinality(Approved)
            /\ \A p \in Request \ {q} : request[p].pc = "idle"
      BY <1>1, <2>1 DEF Counting, Alone, CommentsInv
    <2>. QED  BY <1>1, <1>2, <2>2, AnsweredTypes, Alike DEF Counting
  <1>. QED  BY <1>3, <1>4, <1>5, <1>6 DEF CommentsInv

(* A comment ages, the article goes, or nothing happens.                   *)
LEMMA RestKeeps ==
  ASSUME CommentsTypeOK, CommentsInv, SameRows, comment' \in [Comment -> PostType],
         published' \in BOOLEAN,
         UNCHANGED <<commentCount, request, begun, crossed, together, cut>>
  PROVE  CommentsTypeOK' /\ CommentsInv'
  <1>1. CommentsTypeOK'
    BY DEF CommentsTypeOK
  <1>2. Posted' = Posted /\ Approved' = Approved /\ ThreadsHaveTwoLevels' /\ ShownAsApproved'
    BY Alike DEF CommentsInv
  <1>3. WritesAre' /\ Alone' /\ Counting'
    BY <1>2 DEF WritesAre, Alone, Counting, CommentsInv
  <1>4. \A q \in Request : request[q] \in RequestType
    BY DEF CommentsTypeOK
  <1>5. Steady'
    <2>1. ASSUME NEW q \in Request, request[q].pc = "write", ~request[q].late
          PROVE  \A c \in request[q].ids :
                   /\ comment'[c].there = "yes"
                   /\ comment'[c].body = request[q].body[c]
                   /\ request[q].op = "update" /\ ~request[q].recount =>
                        comment'[c].status # "APROVADO"
                   /\ request[q].op = "hardDelete" => MayErase(c)'
      <3>. DEFINE r == request[q]
      <3>1. Stands(r) /\ r.ids \subseteq Comment
        BY <1>4, <2>1 DEF Steady, CommentsInv, RequestType
      <3>. HIDE DEF r
      <3>2. \A c \in r.ids :
                   /\ comment'[c].there = "yes"
                   /\ comment'[c].body = r.body[c]
                   /\ r.op = "update" /\ ~r.recount => comment'[c].status # "APROVADO"
                   /\ r.op = "hardDelete" => MayErase(c)'
        BY <3>1, AlikeStands
      <3>. QED  BY <3>2 DEF r
    <2>. QED  BY <2>1 DEF Steady, Stands
  <1>6. ParentsAreTop'
    <2>1. \A c \in Comment \cup {NoComment} :
            TopParent(c) => c = NoComment
                \/ (comment'[c].there # "not yet" /\ comment'[c].parent = NoComment)
      BY DEF SameRows, TopParent
    <2>2. \A q \in Request : request[q].parent \in Comment \cup {NoComment}
      BY <1>4 DEF RequestType
    <2>. QED  BY <2>1, <2>2 DEF ParentsAreTop, TopParent, CommentsInv
  <1>. QED  BY <1>1, <1>2, <1>3, <1>5, <1>6 DEF CommentsInv

LEMMA AgesKeeps ==
  ASSUME CommentsTypeOK, CommentsInv, NEW c \in Comment, Ages(c)
  PROVE  CommentsTypeOK' /\ CommentsInv'
  <1>. DEFINE row == [comment[c] EXCEPT !.young = FALSE]
  <1>1. comment[c] \in PostType /\ comment' = [comment EXCEPT ![c] = row]
    BY DEF Ages, CommentsTypeOK
  <1>2. /\ row \in PostType
        /\ row.there = comment[c].there /\ row.parent = comment[c].parent
        /\ row.status = comment[c].status /\ row.body = comment[c].body
        /\ row.approved = comment[c].approved
    BY <1>1 DEF PostType
  <1>. HIDE DEF row
  <1>3. SameRows /\ comment' \in [Comment -> PostType]
    BY <1>1, <1>2 DEF SameRows, CommentsTypeOK
  <1>. QED  BY <1>3, RestKeeps DEF Ages, CommentsTypeOK

-----------------------------------------------------------------------------
(* Steps that write rows.                                                  *)

(* The requests another one's write leaves standing read none of its rows. *)
LEMMA OthersAfter ==
  ASSUME CommentsTypeOK, CommentsInv, NEW q \in Request, NEW touched, NEW n \in RequestType,
         After(q, touched, n), n.pc \notin {"insert", "write"}
  PROVE  /\ \A p \in Request : request'[p] \in RequestType
         /\ \A p \in Request : request'[p].pc = "write" =>
              p # q /\ Writing(request'[p])
         /\ \A p \in Request : request'[p].pc = "write" /\ ~request'[p].late =>
              Stands(request'[p]) /\ request'[p].ids \cap touched = {}
         /\ \A p \in Request : request'[p].pc = "insert" => TopParent(request'[p].parent)
  <1>1. /\ request'[q] = n
        /\ \A p \in Request \ {q} :
              /\ request'[p] \in RequestType
              /\ request'[p].pc = request[p].pc /\ request'[p].op = request[p].op
              /\ request'[p].ids = request[p].ids /\ request'[p].parent = request[p].parent
              /\ request'[p].body = request[p].body
              /\ request'[p].recount = request[p].recount
              /\ ~request'[p].late => ~request[p].late /\ request[p].ids \cap touched = {}
    BY AfterIs
  <1>2. \A p \in Request : request'[p] \in RequestType
    BY <1>1
  <1>3. \A p \in Request : request'[p].pc = "write" => p # q /\ Writing(request'[p])
    BY <1>1 DEF CommentsInv, WritesAre, Writing
  <1>4. \A p \in Request : request'[p].pc = "insert" => TopParent(request'[p].parent)
    BY <1>1 DEF CommentsInv, ParentsAreTop
  <1>5. ASSUME NEW p \in Request, request'[p].pc = "write", ~request'[p].late
        PROVE  Stands(request'[p]) /\ request'[p].ids \cap touched = {}
    <2>1. p # q
      BY <1>1, <1>5
    <2>2. Stands(request[p]) /\ request[p].ids \cap touched = {}
      BY <1>1, <1>5, <2>1 DEF CommentsInv, Steady
    <2>. QED  BY <1>1, <2>1, <2>2 DEF Stands
  <1>. QED  BY <1>2, <1>3, <1>4, <1>5

(* So it is enough that the rows not written stay as they are.             *)
LEMMA OthersKeep ==
  ASSUME CommentsTypeOK, CommentsInv, NEW q \in Request, NEW touched, NEW n \in RequestType,
         After(q, touched, n), n.pc \notin {"insert", "write"},
         \A c \in Comment : comment[c].there = "yes" /\ c \notin touched =>
            /\ comment'[c].there = "yes" /\ comment'[c].body = comment[c].body
            /\ comment'[c].status = comment[c].status
            /\ Replies(c) = {} => Replies(c)' = {},
         \A c \in Comment : TopParent(c) => TopParent(c)'
  PROVE  Steady' /\ WritesAre' /\ ParentsAreTop'
  <1>1. WritesAre'
    BY OthersAfter DEF WritesAre
  <1>2. ParentsAreTop'
    <2>1. \A p \in Request : request'[p].parent \in Comment \cup {NoComment}
      BY OthersAfter DEF RequestType
    <2>2. \A c \in Comment : TopParent(c) =>
             comment'[c].there # "not yet" /\ comment'[c].parent = NoComment
      BY StatusFacts DEF TopParent
    <2>. QED  BY <2>1, <2>2, OthersAfter DEF ParentsAreTop, TopParent
  <1>3. Steady'
    <2>1. ASSUME NEW p \in Request, request'[p].pc = "write", ~request'[p].late,
                 NEW c \in request'[p].ids
          PROVE  /\ comment'[c].there = "yes"
                 /\ comment'[c].body = request'[p].body[c]
                 /\ request'[p].op = "update" /\ ~request'[p].recount =>
                      comment'[c].status # "APROVADO"
                 /\ request'[p].op = "hardDelete" => MayErase(c)'
      <3>1. c \in Comment
        BY <2>1, OthersAfter DEF RequestType
      <3>2. c \notin touched /\ Stands(request'[p])
        BY <2>1, OthersAfter
      <3>3. /\ comment'[c].there = "yes" /\ comment'[c].body = comment[c].body
            /\ comment'[c].status = comment[c].status
            /\ Replies(c) = {} => Replies(c)' = {}
        BY <2>1, <3>1, <3>2 DEF Stands
      <3>. QED  BY <2>1, <3>2, <3>3 DEF Stands, MayErase
    <2>. QED  BY <2>1 DEF Steady, Stands
  <1>. QED  BY <1>1, <1>2, <1>3

LEMMA InsertKeeps ==
  ASSUME CommentsTypeOK, CommentsInv, NEW q \in Request, NEW c \in Comment, InsertComment(q, c)
  PROVE  CommentsTypeOK' /\ CommentsInv'
  <1>. DEFINE r == request[q]
              row == [Unposted EXCEPT !.there = "yes", !.reader = r.reader,
                                      !.parent = r.parent, !.body = 1, !.young = TRUE]
  <1>1. /\ r.pc = "insert" /\ comment[c] = Unposted
        /\ r.parent = NoComment \/ r.parent \in Posted
        /\ comment' = [comment EXCEPT ![c] = row]
        /\ After(q, {r.parent}, Answered)
        /\ UNCHANGED <<published, commentCount, begun, crossed, together, cut>>
    BY DEF InsertComment
  <1>2. r.reader \in Reader \cup {"nobody"} /\ r.parent \in Comment \cup {NoComment}
    BY DEF CommentsTypeOK, RequestType
  <1>3. /\ row \in PostType /\ row.there = "yes" /\ row.parent = r.parent
        /\ row.status = "PENDENTE"
    <2>. HIDE DEF r
    <2>. QED  BY <1>2, StatusFacts DEF PostType, Unposted
  <1>4. TopParent(r.parent)
    BY <1>1 DEF CommentsInv, ParentsAreTop
  <1>. HIDE DEF row
  <1>5. comment'[c] = row /\ \A d \in Comment \ {c} : comment'[d] = comment[d]
    BY <1>1 DEF CommentsTypeOK
  <1>6. CommentsTypeOK'
    <2>1. comment' \in [Comment -> PostType]
      BY <1>1, <1>3 DEF CommentsTypeOK
    <2>2. request' \in [Request -> RequestType]
      BY <1>1, AfterIs, AnsweredTypes
    <2>. QED  BY <1>1, <2>1, <2>2 DEF CommentsTypeOK
  <1>7. c \notin Posted /\ Posted' = Posted \cup {c}
    BY <1>1, <1>3, <1>5, UnpostedTypes DEF Posted
  <1>8. Approved' = Approved
    BY <1>3, <1>5, <1>7 DEF Approved, Posted
  <1>9. ThreadsHaveTwoLevels'
    <2>1. ASSUME NEW d \in Posted', comment'[d].parent # NoComment
          PROVE  comment'[d].parent \in Posted'
                 /\ comment'[comment'[d].parent].parent = NoComment
      <3>1. CASE d = c
        <4>1. r.parent \in Posted /\ comment[r.parent].parent = NoComment
          BY <1>1, <1>3, <1>4, <1>5, <2>1, <3>1 DEF TopParent
        <4>. QED  BY <1>3, <1>5, <1>7, <3>1, <4>1 DEF Posted
      <3>2. CASE d # c
        <4>1. d \in Posted /\ comment'[d] = comment[d]
          BY <1>5, <1>7, <3>2 DEF Posted
        <4>2. comment[d].parent \in Posted /\ comment[comment[d].parent].parent = NoComment
          BY <2>1, <4>1 DEF CommentsInv, ThreadsHaveTwoLevels
        <4>. QED  BY <1>5, <1>7, <4>1, <4>2 DEF Posted
      <3>. QED  BY <3>1, <3>2
    <2>. QED  BY <2>1 DEF ThreadsHaveTwoLevels
  <1>10. ShownAsApproved'
    BY <1>1, <1>5, <1>7, <1>8 DEF ShownAsApproved, CommentsInv, Approved, Posted
  <1>11. Steady' /\ WritesAre' /\ ParentsAreTop'
    <2>1. \A d \in Comment : TopParent(d) => TopParent(d)'
      BY <1>1, <1>5, UnpostedTypes, StatusFacts DEF TopParent
    <2>2. ASSUME NEW d \in Comment, comment[d].there = "yes", d \notin {r.parent}
          PROVE  /\ comment'[d].there = "yes" /\ comment'[d].body = comment[d].body
                 /\ comment'[d].status = comment[d].status
                 /\ Replies(d) = {} => Replies(d)' = {}
      <3>1. d # c
        BY <1>1, <2>2, UnpostedTypes
      <3>2. Replies(d)' = Replies(d)
        BY <1>3, <1>5, <1>7, <2>2 DEF Replies, Posted
      <3>. QED  BY <1>5, <2>2, <3>1, <3>2
    <2>. HIDE DEF r
    <2>. QED  BY <1>1, <2>1, <2>2, AnsweredTypes, OthersKeep
  <1>12. /\ request'[q].pc = "idle"
         /\ \A p \in Request \ {q} : request'[p].pc = request[p].pc
    BY <1>1, AfterIs, AnsweredTypes
  <1>13. ~together => \A p \in Request : request'[p].pc = "idle"
    BY <1>1, <1>12 DEF Alone, CommentsInv
  <1>14. Alone'
    BY <1>1, <1>13 DEF Alone
  <1>15. Counting'
    <2>1. ~together /\ ~cut => commentCount = Cardinality(Approved)
      BY <1>1 DEF Counting, Alone, CommentsInv
    <2>. QED  BY <1>1, <1>8, <1>13, <2>1 DEF Counting
  <1>. QED  BY <1>6, <1>9, <1>10, <1>11, <1>14, <1>15 DEF CommentsInv

LEMMA WrittenIs ==
  ASSUME CommentsTypeOK, NEW r \in RequestType, NEW c \in Comment,
         Writing(r), r.op # "hardDelete"
  PROVE  /\ Written(r, c) \in PostType
         /\ Written(r, c).there = comment[c].there
         /\ Written(r, c).parent = comment[c].parent
         /\ Written(r, c).status = "APROVADO" =>
              r.op = "moderate" /\ Written(r, c).body = comment[c].body
              /\ Written(r, c).approved = r.body[c]
  <1>. DEFINE row == comment[c]
  <1>1. row \in PostType /\ r.body[c] \in Nat /\ r.status \in Status
    BY DEF CommentsTypeOK, RequestType
  <1>2. r.op \in {"update", "remove", "moderate", "purge"}
    BY DEF RequestType, Writing
  <1>3. row.body \in Nat
    BY <1>1 DEF PostType
  <1>4. row.body + 1 \in Nat
    BY <1>3
  <1>. DEFINE next == row.body + 1
              seen == r.body[c]
              status == r.status
  <1>5. CASE r.op = "update"
    <2>1. Written(r, c) = [row EXCEPT !.body = next, !.status = "PENDENTE"]
      BY <1>5 DEF Written, Edited
    <2>2. next \in Nat
      BY <1>4
    <2>. HIDE DEF row, next
    <2>3. /\ Written(r, c) \in PostType /\ Written(r, c).status = "PENDENTE"
          /\ Written(r, c).there = row.there /\ Written(r, c).parent = row.parent
      BY <1>1, <2>1, <2>2, StatusFacts DEF PostType
    <2>. QED  BY <2>3 DEF row
  <1>6. CASE r.op = "remove"
    <2>. DEFINE blank == 0
    <2>1. Written(r, c) = [row EXCEPT !.body = blank, !.status = "ELIMINADO"]
      BY <1>6 DEF Written, Removed
    <2>2. row \in PostType /\ blank \in Nat
      BY <1>1
    <2>. HIDE DEF row, blank
    <2>3. /\ Written(r, c) \in PostType /\ Written(r, c).status = "ELIMINADO"
          /\ Written(r, c).there = row.there /\ Written(r, c).parent = row.parent
      BY <2>1, <2>2, StatusFacts DEF PostType
    <2>. QED  BY <2>3 DEF row
  <1>7. CASE r.op = "purge"
    <2>1. Written(r, c) = [row EXCEPT !.status = "ELIMINADO"]
      BY <1>7 DEF Written, Purged
    <2>2. row \in PostType
      BY <1>1
    <2>. HIDE DEF row
    <2>3. /\ Written(r, c) \in PostType /\ Written(r, c).status = "ELIMINADO"
          /\ Written(r, c).there = row.there /\ Written(r, c).parent = row.parent
      BY <2>1, <2>2, StatusFacts DEF PostType
    <2>. QED  BY <2>3 DEF row
  <1>8. CASE r.op = "moderate"
    <2>1. Written(r, c) = [row EXCEPT !.status = status, !.approved = seen]
      BY <1>8 DEF Written, Moderated
    <2>2. seen \in Nat /\ status \in Status
      BY <1>1
    <2>. HIDE DEF row, seen, status
    <2>3. /\ Written(r, c) \in PostType
          /\ Written(r, c).there = row.there /\ Written(r, c).parent = row.parent
          /\ Written(r, c).body = row.body /\ Written(r, c).approved = seen
      BY <1>1, <2>1, <2>2 DEF PostType
    <2>. QED  BY <1>8, <2>3 DEF row, seen
  <1>. QED  BY <1>2, <1>5, <1>6, <1>7, <1>8

LEMMA EditedWaits ==
  ASSUME CommentsTypeOK, NEW r \in RequestType, NEW c \in Comment, r.op = "update"
  PROVE  Written(r, c).status = "PENDENTE"
  <1>. DEFINE row == comment[c]
              next == row.body + 1
  <1>1. row \in PostType
    BY DEF CommentsTypeOK
  <1>2. Written(r, c) = [row EXCEPT !.body = next, !.status = "PENDENTE"]
    BY DEF Written, Edited
  <1>. HIDE DEF row, next
  <1>. QED  BY <1>1, <1>2 DEF PostType

LEMMA WriteKeeps ==
  ASSUME CommentsTypeOK, CommentsInv, NEW q \in Request, WriteRows(q)
  PROVE  CommentsTypeOK' /\ CommentsInv'
  <1>. DEFINE r == request[q]
              left == r.ids \cap Posted
  <1>1. /\ r.pc = "write" /\ r.op # "hardDelete" /\ left # {}
        /\ comment' = [c \in Comment |-> IF c \in left THEN Written(r, c) ELSE comment[c]]
        /\ crossed' = (crossed \/ r.late)
        /\ After(q, left, Counts(q))
        /\ UNCHANGED <<published, commentCount, begun, together, cut>>
    BY DEF WriteRows
  <1>2. r \in RequestType /\ Writing(r) /\ r.ids \subseteq Comment /\ r.late \in BOOLEAN
    BY <1>1 DEF CommentsTypeOK, RequestType, CommentsInv, WritesAre
  <1>3. ~r.late => Stands(r)
    BY <1>1 DEF CommentsInv, Steady
  <1>4. \A c \in left : c \in Comment /\ comment'[c] = Written(r, c)
    BY <1>1, <1>2
  <1>5. \A c \in Comment \ left : comment'[c] = comment[c]
    BY <1>1
  <1>6. \A c \in Comment :
          /\ comment'[c] \in PostType
          /\ comment'[c].there = comment[c].there /\ comment'[c].parent = comment[c].parent
    <2>. HIDE DEF r, left
    <2>. QED  BY <1>1, <1>2, <1>4, <1>5, WrittenIs DEF CommentsTypeOK
  <1>7. /\ Counts(q) \in RequestType /\ ~Counts(q).late
        /\ Counts(q).pc = (IF r.recount THEN "count" ELSE "idle")
        /\ Counts(q).op = r.op /\ Counts(q).ids = r.ids
    BY CountsTypes
  <1>8. Posted' = Posted /\ \A c \in Comment : Replies(c)' = Replies(c)
    <2>1. Posted' = Posted
      BY <1>6 DEF Posted
    <2>. QED  BY <1>6, <2>1 DEF Replies, Posted
  <1>9. CommentsTypeOK'
    <2>1. comment' \in [Comment -> PostType]
      BY <1>1, <1>6
    <2>2. request' \in [Request -> RequestType]
      BY <1>1, <1>7, AfterIs
    <2>3. crossed' \in BOOLEAN
      BY <1>1
    <2>. HIDE DEF r, left
    <2>. QED  BY <1>1, <2>1, <2>2, <2>3 DEF CommentsTypeOK
  <1>10. ThreadsHaveTwoLevels'
    BY <1>6, <1>8 DEF ThreadsHaveTwoLevels, CommentsInv, Posted
  <1>11. ShownAsApproved'
    <2>1. ASSUME ~crossed', NEW c \in Approved'
          PROVE  comment'[c].approved = comment'[c].body
      <3>1. c \in Comment /\ c \in Posted /\ comment'[c].status = "APROVADO"
        BY <1>8, <2>1 DEF Approved, Posted
      <3>2. ~crossed /\ Stands(r)
        BY <1>1, <1>3, <2>1
      <3>3. CASE c \in left
        <4>1. comment[c].body = r.body[c]
          BY <3>2, <3>3 DEF Stands
        <4>2. Written(r, c).body = comment[c].body /\ Written(r, c).approved = r.body[c]
          BY <1>1, <1>2, <1>4, <3>1, <3>3, WrittenIs
        <4>. QED  BY <1>4, <3>3, <4>1, <4>2
      <3>4. CASE c \notin left
        BY <1>5, <3>1, <3>2, <3>4 DEF ShownAsApproved, CommentsInv, Approved
      <3>. QED  BY <3>3, <3>4
    <2>. QED  BY <2>1 DEF ShownAsApproved
  <1>12. Steady' /\ WritesAre' /\ ParentsAreTop'
    <2>1. \A c \in Comment : TopParent(c) => TopParent(c)'
      BY <1>6, StatusFacts DEF TopParent
    <2>2. ASSUME NEW c \in Comment, comment[c].there = "yes", c \notin left
          PROVE  /\ comment'[c].there = "yes" /\ comment'[c].body = comment[c].body
                 /\ comment'[c].status = comment[c].status
                 /\ Replies(c) = {} => Replies(c)' = {}
      BY <1>5, <1>8, <2>2
    <2>3. Counts(q).pc \notin {"insert", "write"}
      BY <1>7
    <2>. HIDE DEF r, left
    <2>. QED  BY <1>1, <1>7, <2>1, <2>2, <2>3, OthersKeep
  <1>13. /\ request'[q] = Counts(q)
         /\ \A p \in Request \ {q} : request'[p].pc = request[p].pc
    BY <1>1, AfterIs
  <1>14. ~together => \A p \in Request \ {q} : request'[p].pc = "idle" /\ request[p].pc = "idle"
    BY <1>1, <1>13 DEF Alone, CommentsInv
  <1>15. Alone'
    BY <1>1, <1>7, <1>8, <1>13, <1>14 DEF Alone
  <1>16. Counting'
    <2>1. ASSUME ~together, ~cut, ~r.recount
          PROVE  Approved' = Approved /\ commentCount = Cardinality(Approved)
      <3>1. r.op = "update" /\ Stands(r)
        BY <1>1, <1>2, <1>3, <2>1 DEF Writing, Alone, CommentsInv
      <3>2. \A c \in left : comment[c].status # "APROVADO"
        BY <2>1, <3>1 DEF Stands
      <3>3. \A c \in left : comment'[c].status # "APROVADO"
        BY <1>2, <1>4, <3>1, EditedWaits
      <3>4. \A c \in Comment : comment'[c].status = "APROVADO" <=> comment[c].status = "APROVADO"
        BY <1>5, <3>2, <3>3
      <3>5. Approved' = Approved
        BY <1>8, <3>4 DEF Approved, Posted
      <3>6. commentCount = Cardinality(Approved)
        BY <1>1, <1>14, <2>1 DEF Counting, CommentsInv
      <3>. QED  BY <3>5, <3>6
    <2>. QED  BY <1>1, <1>7, <1>13, <1>14, <2>1 DEF Counting
  <1>. QED  BY <1>9, <1>10, <1>11, <1>12, <1>15, <1>16 DEF CommentsInv

LEMMA EraseKeeps ==
  ASSUME CommentsTypeOK, CommentsInv, NEW q \in Request, Erase(q)
  PROVE  CommentsTypeOK' /\ CommentsInv'
  <1>. DEFINE r == request[q]
              gone == (r.ids \cap Posted) \cup UNION {Replies(c) : c \in r.ids}
              blank == [Unposted EXCEPT !.there = "no more"]
  <1>1. /\ r.pc = "write" /\ r.op = "hardDelete" /\ r.ids \subseteq Posted
        /\ comment' = [c \in Comment |-> IF c \in gone THEN blank ELSE comment[c]]
        /\ crossed' = (crossed \/ r.late)
        /\ After(q, gone, Counts(q))
        /\ UNCHANGED <<published, commentCount, begun, together, cut>>
    BY DEF Erase
  <1>2. r.late \in BOOLEAN /\ r.recount
    BY <1>1 DEF CommentsTypeOK, RequestType, CommentsInv, WritesAre, Writing
  <1>3. blank \in PostType /\ blank.there = "no more" /\ blank.parent = NoComment
    BY UnpostedTypes, StatusFacts DEF Unposted
  <1>4. /\ gone \subseteq Posted
        /\ \A d \in Posted : d \in gone <=> d \in r.ids \/ comment[d].parent \in r.ids
    <2>1. \A d : d \in gone <=> d \in r.ids \/ \E c \in r.ids : d \in Replies(c)
      BY <1>1
    <2>. HIDE DEF gone
    <2>. QED  BY <1>1, <2>1 DEF Replies
  <1>. HIDE DEF gone, blank
  <1>5. /\ \A c \in Comment \ gone : comment'[c] = comment[c]
        /\ \A c \in gone : c \in Comment /\ comment'[c] = blank
    BY <1>1, <1>4 DEF Posted
  <1>6. Posted' = Posted \ gone
    BY <1>3, <1>5 DEF Posted
  <1>7. /\ Counts(q) \in RequestType /\ ~Counts(q).late /\ Counts(q).pc = "count"
        /\ Counts(q).op = "hardDelete"
    BY <1>1, <1>2, CountsTypes
  <1>8. CommentsTypeOK'
    <2>1. comment' \in [Comment -> PostType]
      BY <1>1, <1>3 DEF CommentsTypeOK
    <2>2. request' \in [Request -> RequestType]
      BY <1>1, <1>7, AfterIs
    <2>3. crossed' \in BOOLEAN
      BY <1>1
    <2>. HIDE DEF r
    <2>. QED  BY <1>1, <2>1, <2>2, <2>3 DEF CommentsTypeOK
  <1>9. ThreadsHaveTwoLevels'
    <2>1. ASSUME NEW d \in Posted', comment'[d].parent # NoComment
          PROVE  comment'[d].parent \in Posted'
                 /\ comment'[comment'[d].parent].parent = NoComment
      <3>1. d \in Posted /\ d \notin gone /\ comment'[d] = comment[d]
        BY <1>5, <1>6 DEF Posted
      <3>2. comment[d].parent \in Posted /\ comment[comment[d].parent].parent = NoComment
        BY <2>1, <3>1 DEF CommentsInv, ThreadsHaveTwoLevels
      <3>3. comment[d].parent \notin r.ids /\ NoComment \notin r.ids
        BY <1>1, <1>4, <3>1, StatusFacts DEF Posted
      <3>4. comment[d].parent \notin gone
        BY <1>4, <3>2, <3>3
      <3>. QED  BY <1>5, <1>6, <3>1, <3>2, <3>4 DEF Posted
    <2>. QED  BY <2>1 DEF ThreadsHaveTwoLevels
  <1>10. ShownAsApproved'
    BY <1>1, <1>5, <1>6 DEF ShownAsApproved, CommentsInv, Approved, Posted
  <1>11. Steady' /\ WritesAre' /\ ParentsAreTop'
    <2>1. ASSUME NEW c \in Comment, TopParent(c)
          PROVE  TopParent(c)'
      <3>1. CASE c \in gone
        <4>1. comment'[c].there = "no more" /\ comment'[c].parent = NoComment
          BY <1>3, <1>5, <3>1
        <4>. QED  BY <4>1 DEF TopParent
      <3>2. CASE c \notin gone
        BY <1>5, <2>1, <3>2 DEF TopParent
      <3>. QED  BY <3>1, <3>2
    <2>2. ASSUME NEW c \in Comment, comment[c].there = "yes", c \notin gone
          PROVE  /\ comment'[c].there = "yes" /\ comment'[c].body = comment[c].body
                 /\ comment'[c].status = comment[c].status
                 /\ Replies(c) = {} => Replies(c)' = {}
      <3>1. comment'[c] = comment[c]
        BY <1>5, <2>2
      <3>2. Replies(c) = {} => Replies(c)' = {}
        BY <1>5, <1>6 DEF Replies, Posted
      <3>. QED  BY <2>2, <3>1, <3>2
    <2>3. Counts(q).pc \notin {"insert", "write"}
      BY <1>7
    <2>. HIDE DEF r
    <2>. QED  BY <1>1, <1>7, <2>1, <2>2, <2>3, OthersKeep
  <1>12. /\ request'[q] = Counts(q)
         /\ \A p \in Request \ {q} : request'[p].pc = request[p].pc
    BY <1>1, AfterIs
  <1>13. ~together => \A p \in Request \ {q} : request'[p].pc = "idle"
    BY <1>1, <1>12 DEF Alone, CommentsInv
  <1>14. Alone'
    BY <1>1, <1>7, <1>12, <1>13 DEF Alone
  <1>15. Counting'
    BY <1>1, <1>7, <1>12, <1>13 DEF Counting
  <1>. QED  BY <1>8, <1>9, <1>10, <1>11, <1>14, <1>15 DEF CommentsInv

-----------------------------------------------------------------------------
LEMMA StutterKeeps ==
  ASSUME CommentsTypeOK, CommentsInv, UNCHANGED cvars
  PROVE  CommentsTypeOK' /\ CommentsInv'
  <1>1. /\ UNCHANGED <<comment, published, commentCount, request, begun, crossed, together, cut>>
        /\ SameRows
    BY DEF cvars, SameRows
  <1>. QED  BY <1>1, RestKeeps DEF CommentsTypeOK

LEMMA ArticleGoesKeeps ==
  ASSUME CommentsTypeOK, CommentsInv, ArticleGoes
  PROVE  CommentsTypeOK' /\ CommentsInv'
  <1>1. /\ UNCHANGED <<comment, commentCount, request, begun, crossed, together, cut>>
        /\ SameRows /\ published' \in BOOLEAN
    BY DEF ArticleGoes, SameRows
  <1>. QED  BY <1>1, RestKeeps DEF CommentsTypeOK

LEMMA CommentsKeep ==
  CommentsTypeOK /\ CommentsInv /\ [CommentsNext]_cvars => CommentsTypeOK' /\ CommentsInv'
  <1>. SUFFICES ASSUME CommentsTypeOK, CommentsInv, [CommentsNext]_cvars
                PROVE  CommentsTypeOK' /\ CommentsInv'
    OBVIOUS
  <1>1. ASSUME NEW q \in Request, StartOf(q)
        PROVE  CommentsTypeOK' /\ CommentsInv'
    BY <1>1, StartsBegin, BeginKeeps
  <1>2. ASSUME NEW q \in Request, NEW c \in Comment, InsertComment(q, c)
        PROVE  CommentsTypeOK' /\ CommentsInv'
    BY <1>2, InsertKeeps
  <1>3. ASSUME NEW q \in Request,
               WriteRows(q) \/ Erase(q) \/ CountApproved(q) \/ StoreCount(q) \/ Stops(q)
        PROVE  CommentsTypeOK' /\ CommentsInv'
    BY <1>3, WriteKeeps, EraseKeeps, CountKeeps, StoreKeeps, StopKeeps
  <1>4. ASSUME NEW c \in Comment, Ages(c)
        PROVE  CommentsTypeOK' /\ CommentsInv'
    BY <1>4, AgesKeeps
  <1>5. CASE ArticleGoes
    BY <1>5, ArticleGoesKeeps
  <1>6. CASE UNCHANGED cvars
    BY <1>6, StutterKeeps
  <1>. QED  BY <1>1, <1>2, <1>3, <1>4, <1>5, <1>6 DEF CommentsNext, StartOf

(* The values every variable of the comments takes.                        *)
THEOREM CommentsTypes == CommentsSpec => []CommentsTypeOK
  BY CommentsBegin, CommentsKeep, PTL DEF CommentsSpec

(* Whatever is posted, moderated or erased meanwhile, a reply to a reply   *)
(* never reaches the database, and no reply outlives what it is under.     *)
THEOREM RepliesStayUnderTheirs == CommentsSpec => []ThreadsHaveTwoLevels
  <1>1. CommentsInv => ThreadsHaveTwoLevels
    BY DEF CommentsInv
  <1>. QED  BY <1>1, CommentsBegin, CommentsKeep, PTL DEF CommentsSpec

(* Unless a decision or an erasure lands on a row changed since it was     *)
(* read, what readers are shown is the text a moderator approved.          *)
THEOREM ShownIsWhatWasApproved == CommentsSpec => []ShownAsApproved
  <1>1. CommentsInv => ShownAsApproved
    BY DEF CommentsInv
  <1>. QED  BY <1>1, CommentsBegin, CommentsKeep, PTL DEF CommentsSpec

(* Requests that neither overlap nor stop between their write and their    *)
(* count leave the article with the right number.                          *)
THEOREM QuietCountsAreRight == CommentsSpec => []CountIsRight
  <1>1. CommentsInv => CountIsRight
    BY DEF CommentsInv, Counting, CountIsRight
  <1>. QED  BY <1>1, CommentsBegin, CommentsKeep, PTL DEF CommentsSpec

-----------------------------------------------------------------------------
(* What may leave the database.                                            *)

LEMMA OnlyErasureTakes ==
  ASSUME CommentsTypeOK, CommentsInv, [CommentsNext]_cvars, NEW c \in Comment,
         comment[c].there = "yes", comment'[c].there # "yes"
  PROVE  \E q \in Request : Erase(q)
  <1>1. ASSUME NEW q \in Request, StartOf(q)
        PROVE  FALSE
    BY <1>1, StartsBegin DEF Begins
  <1>2. ASSUME NEW q \in Request, NEW d \in Comment, InsertComment(q, d)
        PROVE  FALSE
    <2>1. d # c /\ comment'[c] = comment[c]
      BY <1>2, UnpostedTypes DEF InsertComment, CommentsTypeOK
    <2>. QED  BY <2>1
  <1>3. ASSUME NEW q \in Request, WriteRows(q)
        PROVE  FALSE
    <2>. DEFINE r == request[q]
    <2>1. r \in RequestType /\ Writing(r) /\ r.op # "hardDelete"
      BY <1>3 DEF WriteRows, CommentsTypeOK, CommentsInv, WritesAre
    <2>2. comment'[c] = comment[c] \/ comment'[c] = Written(r, c)
      BY <1>3 DEF WriteRows
    <2>. HIDE DEF r
    <2>. QED  BY <2>1, <2>2, WrittenIs
  <1>4. ASSUME NEW q \in Request, CountApproved(q) \/ StoreCount(q) \/ Stops(q)
        PROVE  FALSE
    BY <1>4 DEF CountApproved, StoreCount, Stops
  <1>5. ASSUME NEW d \in Comment, Ages(d)
        PROVE  FALSE
    <2>. DEFINE row == [comment[d] EXCEPT !.young = FALSE]
    <2>1. comment[d] \in PostType /\ comment' = [comment EXCEPT ![d] = row]
      BY <1>5 DEF Ages, CommentsTypeOK
    <2>2. row.there = comment[d].there
      BY <2>1 DEF PostType
    <2>. HIDE DEF row
    <2>. QED  BY <2>1, <2>2 DEF CommentsTypeOK
  <1>6. CASE ArticleGoes \/ UNCHANGED cvars
    BY <1>6 DEF ArticleGoes, cvars
  <1>. QED  BY <1>1, <1>2, <1>3, <1>4, <1>5, <1>6 DEF CommentsNext, StartOf

LEMMA ErasesWhatWasRemoved ==
  ASSUME CommentsTypeOK, CommentsInv, NEW q \in Request, Erase(q), NEW c \in Comment,
         comment[c].there = "yes", comment'[c].there # "yes"
  PROVE  comment[c].status = "ELIMINADO" \/ crossed'
  <1>. DEFINE r == request[q]
  <1>1. /\ r.pc = "write" /\ r.op = "hardDelete" /\ crossed' = (crossed \/ r.late)
        /\ c \in r.ids \/ \E d \in r.ids : c \in Replies(d)
    BY DEF Erase
  <1>2. CASE r.late
    BY <1>1, <1>2
  <1>3. CASE ~r.late
    <2>1. \A d \in r.ids : MayErase(d)
      BY <1>1, <1>3 DEF CommentsInv, Steady, Stands
    <2>. QED  BY <1>1, <2>1 DEF MayErase
  <1>. QED  BY <1>2, <1>3

(* Only what was removed before is erased, and nothing is erased with it;  *)
(* unless the erasure comes after a change to what it looked at.           *)
THEOREM ErasureFollowsRemoval == CommentsSpec => ErasedWasRemoved
  <1>. DEFINE Kept == \A c \in Comment :
                comment[c].there = "yes" /\ comment'[c].there # "yes" =>
                  comment[c].status = "ELIMINADO" \/ crossed'
  <1>1. CommentsTypeOK /\ CommentsInv /\ [CommentsNext]_cvars => [Kept]_cvars
    <2>. SUFFICES ASSUME CommentsTypeOK, CommentsInv, [CommentsNext]_cvars PROVE Kept
      OBVIOUS
    <2>. QED  BY OnlyErasureTakes, ErasesWhatWasRemoved
  <1>. QED  BY <1>1, CommentsBegin, CommentsKeep, PTL DEF CommentsSpec, ErasedWasRemoved

-----------------------------------------------------------------------------
(* The category tree.  What a request of the tree has read: a row whose    *)
(* depth is its path's, and which ends in the category it is about.        *)

EditType == [pc : {"idle", "insert", "parent", "measure", "move"},
             id : Cat \cup {Top}, to : Cat \cup {Top},
             read : RowType, base : RowType, fresh : BOOLEAN]

PathOf(row, c) == Len(row.path) = row.depth + 1 /\ Last(row.path) = c

UnderOK(to, base) ==
  IF to = Top THEN base = NoCat ELSE Len(base.path) = base.depth + 1

EditOK(x) ==
  /\ x.pc # "idle" => x.id \in Cat
  /\ x.pc \in {"insert", "measure", "move"} =>
       UnderOK(x.to, x.base)
  /\ x.pc \in {"parent", "measure", "move"} => PathOf(x.read, x.id)

TreeInv == DepthIsItsPath /\ \A e \in Editor : EditOK(edit[e])

LEMMA RowIs ==
  ASSUME NEW there \in {"not yet", "yes", "no more"}, NEW parent \in Cat \cup {Top},
         NEW path \in Seq(Cat), NEW depth \in Int, NEW row,
         row = [there |-> there, parent |-> parent, path |-> path, depth |-> depth]
  PROVE  /\ row \in RowType /\ row.there = there /\ row.parent = parent
         /\ row.path = path /\ row.depth = depth
  BY DEF RowType

LEMMA NoCatTypes ==
  /\ NoCat \in RowType /\ NoCat.there = "not yet"
  /\ NoCat.path = <<>> /\ Len(NoCat.path) = 0
  <1>. DEFINE s == <<>>
              z == 0
  <1>1. s \in Seq(Cat) /\ Len(s) = 0 /\ z \in Int
    OBVIOUS
  <1>2. NoCat = [there |-> "not yet", parent |-> Top, path |-> s, depth |-> z]
    BY DEF NoCat
  <1>. HIDE DEF s, z
  <1>3. NoCat \in RowType /\ NoCat.there = "not yet" /\ NoCat.path = s
    BY <1>1, <1>2 DEF RowType
  <1>. QED  BY <1>1, <1>3 DEF s

LEMMA UnderIs ==
  ASSUME NEW to, NEW base, UnderOK(to, base)
  PROVE  Len(base.path) = IF to = Top THEN 0 ELSE base.depth + 1
  <1>1. CASE to = Top
    BY <1>1, NoCatTypes DEF UnderOK
  <1>2. CASE to # Top
    BY <1>2 DEF UnderOK
  <1>. QED  BY <1>1, <1>2

LEMMA NoEditTypes == NoEdit \in EditType /\ NoEdit.pc = "idle" /\ EditOK(NoEdit)
  BY NoCatTypes DEF NoEdit, EditType, EditOK

LEMMA TreeBegins == TreeInit => TreeTypeOK /\ TreeInv
  <1>. SUFFICES ASSUME TreeInit PROVE TreeTypeOK /\ TreeInv
    OBVIOUS
  <1>1. \A c \in Cat : node[c] = NoCat
    BY DEF TreeInit
  <1>2. \A e \in Editor : edit[e] = NoEdit
    BY DEF TreeInit
  <1>3. TreeTypeOK
    BY NoCatTypes, NoEditTypes DEF TreeInit, TreeTypeOK, EditType
  <1>4. TreeInv
    BY <1>1, <1>2, NoCatTypes, NoEditTypes DEF TreeInv, DepthIsItsPath, CatThere
  <1>. QED  BY <1>3, <1>4

LEMMA JoinOf ==
  ASSUME NEW s \in Seq(Cat), NEW t \in Seq(Cat), Len(t) > 0
  PROVE  /\ s \o t \in Seq(Cat) /\ Len(s \o t) = Len(s) + Len(t)
         /\ (s \o t)[Len(s) + Len(t)] = t[Len(t)]
  OBVIOUS

(* A prefix given way to another: the end of the sequence stays.           *)
Splice(b, id, r, s) == Append(b, id) \o SubSeq(s, Len(r) + 1, Len(s))
Joinable(b, id, r, s, c) ==
  /\ b \in Seq(Cat) /\ r \in Seq(Cat) /\ s \in Seq(Cat)
  /\ id \in Cat /\ c \in Cat /\ c # id
  /\ IsPrefix(r, s) /\ Last(r) = id /\ Last(s) = c
Joined(b, id, r, s, c) ==
  /\ Splice(b, id, r, s) \in Seq(Cat)
  /\ Len(Splice(b, id, r, s)) = Len(b) + 1 + (Len(s) - Len(r))
  /\ Last(Splice(b, id, r, s)) = c
LEMMA Spliced ==
  ASSUME NEW b, NEW id, NEW r, NEW s, NEW c, Joinable(b, id, r, s, c)
  PROVE  Joined(b, id, r, s, c)
  <1>. USE DEF Joinable
  <1>. DEFINE h == Append(b, id)
              t == SubSeq(s, Len(r) + 1, Len(s))
  <1>1. Len(r) <= Len(s)
    BY DEF IsPrefix
  <1>2. Len(r) # Len(s)
    <2>1. SUFFICES ASSUME Len(r) = Len(s) PROVE FALSE
      OBVIOUS
    <2>2. SubSeq(r, 1, Len(r)) = SubSeq(s, 1, Len(s))
      BY <2>1 DEF IsPrefix
    <2>3. r = s
      BY <2>2
    <2>. QED  BY <2>3
  <1>3. h \in Seq(Cat) /\ Len(h) = Len(b) + 1
    OBVIOUS
  <1>4. t \in Seq(Cat) /\ Len(t) = Len(s) - Len(r) /\ t[Len(s) - Len(r)] = s[Len(s)]
    BY <1>1, <1>2
  <1>5. Len(s) - Len(r) \in Nat \ {0} /\ Len(b) \in Nat
    BY <1>1, <1>2
  <1>. HIDE DEF h, t
  <1>6. /\ h \o t \in Seq(Cat) /\ Len(h \o t) = Len(h) + Len(t)
        /\ (h \o t)[Len(h) + Len(t)] = t[Len(t)]
    <2>1. h \in Seq(Cat) /\ t \in Seq(Cat) /\ Len(t) > 0
      BY <1>3, <1>4, <1>5
    <2>. QED  BY <2>1, JoinOf
  <1>7. Last(h \o t) = c
    BY <1>4, <1>6 DEF Last
  <1>. QED  BY <1>3, <1>4, <1>6, <1>7 DEF h, t, Splice, Joined

(* The row of a category put under what was read of its parent.            *)
LEMMA PlacedIs ==
  ASSUME NEW id \in Cat, NEW to \in Cat \cup {Top}, NEW base \in RowType,
         UnderOK(to, base)
  PROVE  /\ Placed(id, to, base) \in RowType
         /\ Placed(id, to, base).there = "yes" /\ Placed(id, to, base).parent = to
         /\ PathOf(Placed(id, to, base), id)
  <1>. DEFINE above == base.path
              path == Append(above, id)
              depth == IF to = Top THEN 0 ELSE base.depth + 1
  <1>1. above \in Seq(Cat)
    BY DEF RowType
  <1>2. Len(above) = depth
    BY UnderIs
  <1>. HIDE DEF above, depth
  <1>3. path \in Seq(Cat) /\ Len(path) = depth + 1 /\ Last(path) = id /\ depth \in Int
    BY <1>1, <1>2 DEF Last
  <1>4. Placed(id, to, base) = [there |-> "yes", parent |-> to, path |-> path,
                                depth |-> depth]
    BY DEF Placed, above, depth
  <1>. DEFINE row == Placed(id, to, base)
  <1>. HIDE DEF path
  <1>5. row \in RowType /\ row.there = "yes" /\ row.parent = to
        /\ row.path = path /\ row.depth = depth
    <2>1. path \in Seq(Cat) /\ depth \in Int
      BY <1>3
    <2>2. row = [there |-> "yes", parent |-> to, path |-> path, depth |-> depth]
      BY <1>4
    <2>. HIDE DEF row
    <2>. QED  BY <2>1, <2>2 DEF RowType
  <1>. HIDE DEF row
  <1>6. PathOf(row, id)
    BY <1>3, <1>5 DEF PathOf
  <1>. QED  BY <1>5, <1>6 DEF row

(* The row of a category under one that moved.                             *)
LEMMA RewrittenIs ==
  ASSUME NEW e \in Editor, edit[e] \in EditType, EditOK(edit[e]), edit[e].pc = "move",
         NEW c \in Cat, c # edit[e].id, NEW row \in RowType, PathOf(row, c),
         IsPrefix(edit[e].read.path, row.path)
  PROVE  /\ Rewritten(row, e) \in RowType /\ PathOf(Rewritten(row, e), c)
         /\ Rewritten(row, e).there = row.there
         /\ Rewritten(row, e).parent = row.parent
  <1>. DEFINE id == edit[e].id
              b == edit[e].base.path
              r == edit[e].read.path
              s == row.path
              new == NewDepth(e)
              old == edit[e].read.depth
              path == Splice(b, id, r, s)
              was == row.depth
              depth == was + (new - old)
  <1>1. /\ id \in Cat /\ b \in Seq(Cat) /\ r \in Seq(Cat) /\ s \in Seq(Cat)
        /\ was \in Int /\ old \in Int /\ c \in Cat \ {id}
    BY DEF EditType, RowType, EditOK
  <1>2. /\ Len(r) = old + 1 /\ Last(r) = id /\ Len(s) = was + 1 /\ Last(s) = c
        /\ IsPrefix(r, s)
    BY DEF EditOK, PathOf
  <1>3. Len(b) = new
    BY UnderIs DEF EditOK, NewDepth, EditType
  <1>4. Rewritten(row, e) = [row EXCEPT !.path = path, !.depth = depth]
    BY DEF Rewritten, Splice
  <1>. HIDE DEF id, b, r, s, new, old, was
  <1>5. path \in Seq(Cat) /\ Len(path) = Len(b) + 1 + (Len(s) - Len(r)) /\ Last(path) = c
    <2>. HIDE DEF path
    <2>1. Joinable(b, id, r, s, c)
      BY <1>1, <1>2 DEF Joinable
    <2>2. Joined(b, id, r, s, c)
      BY <2>1, Spliced
    <2>. QED  BY <2>2 DEF path, Joined
  <1>. HIDE DEF path
  <1>6. Len(b) \in Nat
    BY <1>1
  <1>7. Len(path) = depth + 1 /\ depth \in Int
    BY <1>1, <1>2, <1>3, <1>5, <1>6
  <1>. HIDE DEF depth
  <1>. QED  BY <1>4, <1>5, <1>7 DEF RowType, PathOf

-----------------------------------------------------------------------------
(* What a step may do to the requests and to the rows.                     *)

EditsOK == edit \in [Editor -> EditType] /\ \A e \in Editor : EditOK(edit[e])
NodesOK == node \in [Cat -> RowType] /\ \A c \in CatThere : PathOf(node[c], c)

LEMMA TreeParts ==
  TreeTypeOK /\ TreeInv
    <=> EditsOK /\ NodesOK /\ follows \subseteq Cat /\ collided \in BOOLEAN
  BY DEF TreeTypeOK, TreeInv, DepthIsItsPath, EditsOK, NodesOK, EditType, PathOf

LEMMA OneEditChanges ==
  ASSUME EditsOK, NEW e \in Editor, NEW x \in EditType, EditOK(x),
         edit' = [edit EXCEPT ![e] = x]
  PROVE  EditsOK'
  <1>1. edit' \in [Editor -> EditType]
    BY DEF EditsOK
  <1>2. \A f \in Editor : edit'[f] = IF f = e THEN x ELSE edit[f]
    BY DEF EditsOK
  <1>. QED  BY <1>1, <1>2 DEF EditsOK, EditOK

LEMMA TheOthersAreTold ==
  ASSUME EditsOK, NEW e, edit' = Change(e)
  PROVE  EditsOK'
  <1>1. ASSUME NEW f \in Editor
        PROVE  /\ [edit[f] EXCEPT !.fresh = @ /\ edit[f].pc = "idle"] \in EditType
               /\ EditOK([edit[f] EXCEPT !.fresh = @ /\ edit[f].pc = "idle"])
    <2>. DEFINE x == edit[f]
                b == x.fresh /\ x.pc = "idle"
                y == [x EXCEPT !.fresh = b]
    <2>1. x \in EditType /\ EditOK(x) /\ b \in BOOLEAN
      BY DEF EditsOK
    <2>. HIDE DEF x, b
    <2>2. y \in EditType /\ y.pc = x.pc /\ y.id = x.id /\ y.to = x.to
          /\ y.base = x.base /\ y.read = x.read
      BY <2>1 DEF EditType
    <2>. HIDE DEF y
    <2>3. EditOK(y)
      BY <2>1, <2>2 DEF EditOK
    <2>. QED  BY <2>2, <2>3 DEF y, x, b
  <1>2. ASSUME NEW f \in Editor
        PROVE  edit'[f] \in EditType /\ EditOK(edit'[f])
    <2>1. edit'[f] = IF f = e THEN NoEdit
                     ELSE [edit[f] EXCEPT !.fresh = @ /\ edit[f].pc = "idle"]
      BY DEF Change
    <2>. QED  BY <1>1, <2>1, NoEditTypes
  <1>3. edit' = [f \in Editor |-> edit'[f]]
    BY DEF Change
  <1>4. edit' \in [Editor -> EditType]
    BY <1>2, <1>3
  <1>5. \A f \in Editor : EditOK(edit'[f])
    BY <1>2
  <1>. QED  BY <1>4, <1>5 DEF EditsOK, EditOK

LEMMA OneRequestEnds ==
  ASSUME EditsOK, NEW e \in Editor, edit' = Stop(e)
  PROVE  EditsOK'
  BY NoEditTypes, OneEditChanges DEF Stop

(* A request that goes on to its next step keeps what it has read.         *)
Onwards(x, pc, base) == [x EXCEPT !.pc = pc, !.base = base]
LEMMA OnwardsIs ==
  ASSUME NEW x \in EditType, NEW pc \in {"insert", "parent", "measure", "move"},
         NEW base \in RowType
  PROVE  /\ Onwards(x, pc, base) \in EditType
         /\ Onwards(x, pc, base).pc = pc /\ Onwards(x, pc, base).id = x.id
         /\ Onwards(x, pc, base).to = x.to /\ Onwards(x, pc, base).base = base
         /\ Onwards(x, pc, base).read = x.read
         /\ Onwards(x, pc, base).fresh = x.fresh
  BY DEF EditType, Onwards

Creates(x, id, to, base) ==
  [x EXCEPT !.pc = "insert", !.id = id, !.to = to, !.base = base]
LEMMA CreatesIs ==
  ASSUME NEW x \in EditType, NEW id \in Cat, NEW to \in Cat \cup {Top},
         NEW base \in RowType
  PROVE  /\ Creates(x, id, to, base) \in EditType
         /\ Creates(x, id, to, base).pc = "insert"
         /\ Creates(x, id, to, base).id = id
         /\ Creates(x, id, to, base).to = to
         /\ Creates(x, id, to, base).base = base
  BY DEF EditType, Creates

Moves(x, id, to, read) ==
  [x EXCEPT !.pc = "parent", !.id = id, !.to = to, !.read = read]
LEMMA MovesIs ==
  ASSUME NEW x \in EditType, NEW id \in Cat, NEW to \in Cat \cup {Top},
         NEW read \in RowType
  PROVE  /\ Moves(x, id, to, read) \in EditType
         /\ Moves(x, id, to, read).pc = "parent"
         /\ Moves(x, id, to, read).id = id
         /\ Moves(x, id, to, read).read = read
  BY DEF EditType, Moves

-----------------------------------------------------------------------------
(* One lemma per action: what it does to the requests and to the rows.     *)

LEMMA ReadRow ==
  ASSUME NodesOK, EditsOK
  PROVE  /\ \A c \in Cat : node[c] \in RowType
         /\ \A c \in CatThere : c \in Cat /\ PathOf(node[c], c)
         /\ \A e \in Editor : edit[e] \in EditType /\ EditOK(edit[e])
  BY DEF NodesOK, EditsOK, CatThere

LEMMA StartCreateKeeps ==
  ASSUME NodesOK, EditsOK, NEW e \in Editor, NEW c \in Cat, NEW p \in CatThere \cup {Top},
         StartCreateCat(e, c, p)
  PROVE  NodesOK' /\ EditsOK'
  <1>. DEFINE base == IF p = Top THEN NoCat ELSE node[p]
              x == Creates(NoEdit, c, p, base)
  <1>1. base \in RowType /\ UnderOK(p, base) /\ p \in Cat \cup {Top}
    BY ReadRow, NoCatTypes DEF UnderOK, PathOf
  <1>2. edit' = [edit EXCEPT ![e] = x] /\ UNCHANGED node
    BY DEF StartCreateCat, Creates
  <1>3. /\ x \in EditType /\ x.pc = "insert" /\ x.id = c /\ x.to = p /\ x.base = base
    BY <1>1, CreatesIs, NoEditTypes
  <1>. HIDE DEF base, x
  <1>4. EditOK(x)
    BY <1>1, <1>3 DEF EditOK
  <1>5. EditsOK'
    BY <1>2, <1>3, <1>4, OneEditChanges
  <1>. QED  BY <1>2, <1>5 DEF NodesOK, CatThere, PathOf

LEMMA StartMoveKeeps ==
  ASSUME NodesOK, EditsOK, NEW e \in Editor, NEW c \in Cat, NEW p \in CatThere \cup {Top},
         StartMove(e, c, p)
  PROVE  NodesOK' /\ EditsOK'
  <1>. DEFINE read == node[c]
              x == Moves(NoEdit, c, p, read)
  <1>1. read \in RowType /\ PathOf(read, c) /\ p \in Cat \cup {Top}
    BY ReadRow DEF StartMove
  <1>2. edit' = [edit EXCEPT ![e] = x] /\ UNCHANGED node
    BY DEF StartMove, Moves
  <1>3. x \in EditType /\ x.pc = "parent" /\ x.id = c /\ x.read = read
    BY <1>1, MovesIs, NoEditTypes
  <1>. HIDE DEF read, x
  <1>4. EditOK(x)
    BY <1>1, <1>3 DEF EditOK
  <1>5. EditsOK'
    BY <1>2, <1>3, <1>4, OneEditChanges
  <1>. QED  BY <1>2, <1>5 DEF NodesOK, CatThere, PathOf

LEMMA ReadParentKeeps ==
  ASSUME NodesOK, EditsOK, NEW e \in Editor, ReadParent(e)
  PROVE  NodesOK' /\ EditsOK'
  <1>. DEFINE x == edit[e]
              base == IF x.to = Top THEN NoCat ELSE node[x.to]
              y == Onwards(x, "measure", base)
  <1>1. x \in EditType /\ EditOK(x) /\ x.pc = "parent"
    BY ReadRow DEF ReadParent
  <1>2. base \in RowType /\ UnderOK(x.to, base)
    BY ReadRow, NoCatTypes DEF UnderOK, PathOf, ReadParent
  <1>3. edit' = [edit EXCEPT ![e] = y] /\ UNCHANGED node
    BY DEF ReadParent, Onwards
  <1>. HIDE DEF x, base
  <1>4. /\ y \in EditType /\ y.pc = "measure" /\ y.id = x.id /\ y.to = x.to
        /\ y.base = base /\ y.read = x.read
    BY <1>1, <1>2, OnwardsIs
  <1>. HIDE DEF y
  <1>5. EditOK(y)
    BY <1>1, <1>2, <1>4 DEF EditOK
  <1>6. EditsOK'
    BY <1>3, <1>4, <1>5, OneEditChanges
  <1>. QED  BY <1>3, <1>6 DEF NodesOK, CatThere, PathOf

LEMMA MeasureKeeps ==
  ASSUME NodesOK, EditsOK, NEW e \in Editor, Measure(e)
  PROVE  NodesOK' /\ EditsOK'
  <1>. DEFINE x == edit[e]
              base == x.base
              y == Onwards(x, "move", base)
  <1>1. x \in EditType /\ EditOK(x) /\ x.pc = "measure" /\ base \in RowType
    BY ReadRow DEF Measure, EditType
  <1>2. y = [x EXCEPT !.pc = "move"]
    BY <1>1 DEF EditType, Onwards
  <1>3. UNCHANGED node /\ (edit' = [edit EXCEPT ![e] = y] \/ edit' = Stop(e))
    BY <1>2 DEF Measure, Step
  <1>. HIDE DEF x, base
  <1>4. /\ y \in EditType /\ y.pc = "move" /\ y.id = x.id /\ y.to = x.to
        /\ y.base = base /\ y.read = x.read
    BY <1>1, OnwardsIs
  <1>. HIDE DEF y
  <1>5. EditOK(y)
    BY <1>1, <1>4 DEF EditOK, base
  <1>6. EditsOK'
    BY <1>3, <1>4, <1>5, OneEditChanges, OneRequestEnds
  <1>. QED  BY <1>3, <1>6 DEF NodesOK, CatThere, PathOf

LEMMA RefusalKeeps ==
  ASSUME NodesOK, EditsOK, NEW e \in Editor, RefuseParent(e) \/ RefuseWrite(e)
  PROVE  NodesOK' /\ EditsOK'
  <1>1. edit' = Stop(e) /\ UNCHANGED node
    BY DEF RefuseParent, RefuseWrite, RefuseCat
  <1>2. EditsOK'
    BY <1>1, OneRequestEnds
  <1>. QED  BY <1>1, <1>2 DEF NodesOK, CatThere, PathOf

(* The rows after a new category: its own, and the others as they were.    *)
LEMMA InsertIs ==
  ASSUME NodesOK, EditsOK, NEW e \in Editor, InsertCat(e)
  PROVE  /\ edit[e].id \in Cat
         /\ node' = [node EXCEPT ![edit[e].id] = node'[edit[e].id]]
         /\ LET row == node'[edit[e].id]
            IN  /\ row \in RowType /\ row.there = "yes" /\ row.parent = edit[e].to
                /\ PathOf(row, edit[e].id)
         /\ edit[e].to = Top \/ edit[e].to \in CatThere
  <1>. DEFINE id == edit[e].id
              row == Placed(id, edit[e].to, edit[e].base)
  <1>1. /\ id \in Cat /\ edit[e].to \in Cat \cup {Top} /\ edit[e].base \in RowType
        /\ UnderOK(edit[e].to, edit[e].base)
    BY ReadRow DEF EditType, EditOK, InsertCat
  <1>2. node' = [node EXCEPT ![id] = row]
    BY DEF InsertCat
  <1>3. row \in RowType /\ row.there = "yes" /\ row.parent = edit[e].to /\ PathOf(row, id)
    BY <1>1, PlacedIs
  <1>. HIDE DEF row
  <1>4. node'[id] = row
    BY <1>1, <1>2 DEF NodesOK
  <1>. QED  BY <1>1, <1>2, <1>3, <1>4 DEF InsertCat, ParentThere

LEMMA InsertCatKeeps ==
  ASSUME NodesOK, EditsOK, NEW e \in Editor, InsertCat(e)
  PROVE  NodesOK' /\ EditsOK'
  <1>. DEFINE id == edit[e].id
              row == node'[id]
  <1>1. /\ id \in Cat /\ node' = [node EXCEPT ![id] = row]
        /\ row \in RowType /\ PathOf(row, id)
    BY InsertIs
  <1>2. EditsOK'
    BY TheOthersAreTold DEF InsertCat
  <1>. HIDE DEF row, id
  <1>3. node' \in [Cat -> RowType]
    BY <1>1 DEF NodesOK
  <1>4. ASSUME NEW c \in CatThere' PROVE PathOf(node'[c], c)
    <2>1. c \in Cat /\ node'[c] = IF c = id THEN row ELSE node[c]
      BY <1>1 DEF CatThere, NodesOK
    <2>2. c # id => c \in CatThere
      BY <2>1 DEF CatThere
    <2>. QED  BY <1>1, <2>1, <2>2 DEF NodesOK
  <1>. QED  BY <1>2, <1>3, <1>4 DEF NodesOK, PathOf

(* The rows after a move: the same ones are there, under the same parents  *)
(* but for the one that moved.                                             *)
LEMMA MoveIs ==
  ASSUME NodesOK, EditsOK, NEW e \in Editor, Move(e)
  PROVE  /\ edit[e].id \in CatThere
         /\ edit[e].to = Top \/ edit[e].to \in CatThere
         /\ \A d \in Cat :
              /\ node'[d] \in RowType
              /\ node'[d].there = node[d].there
              /\ node'[d].parent = IF d = edit[e].id THEN edit[e].to ELSE node[d].parent
              /\ d \in CatThere => PathOf(node'[d], d)
  <1>. DEFINE x == edit[e]
  <1>1. /\ x.id \in Cat /\ x.to \in Cat \cup {Top} /\ x.base \in RowType
        /\ UnderOK(x.to, x.base) /\ x.id \in CatThere /\ x.pc = "move"
    BY ReadRow DEF EditType, EditOK, Move
  <1>2. x.to = Top \/ x.to \in CatThere
    BY DEF Move, ParentThere
  <1>3. ASSUME NEW d \in Cat
        PROVE  /\ node'[d] \in RowType
               /\ node'[d].there = node[d].there
               /\ node'[d].parent = IF d = x.id THEN x.to ELSE node[d].parent
               /\ d \in CatThere => PathOf(node'[d], d)
    <2>1. node'[d] = IF d = x.id THEN Placed(d, x.to, x.base)
                     ELSE IF d \in Within(x.read.path) THEN Rewritten(node[d], e)
                     ELSE node[d]
      BY DEF Move
    <2>. HIDE DEF x
    <2>2. CASE d = x.id
      <3>1. /\ node'[d] \in RowType /\ node'[d].there = "yes" /\ node'[d].parent = x.to
            /\ PathOf(node'[d], d)
        BY <1>1, <2>1, <2>2, PlacedIs
      <3>2. node[d].there = "yes"
        BY <1>1, <2>2 DEF CatThere
      <3>. QED  BY <2>2, <3>1, <3>2
    <2>3. CASE d # x.id /\ d \in Within(x.read.path)
      <3>. DEFINE row == node[d]
      <3>1. d \in CatThere /\ IsPrefix(x.read.path, row.path)
        BY <2>3 DEF Within
      <3>2. row \in RowType /\ PathOf(row, d) /\ edit[e] \in EditType /\ EditOK(edit[e])
        BY <3>1, ReadRow
      <3>3. node'[d] = Rewritten(row, e)
        BY <2>1, <2>3
      <3>. HIDE DEF row
      <3>4. /\ Rewritten(row, e) \in RowType /\ PathOf(Rewritten(row, e), d)
            /\ Rewritten(row, e).there = row.there /\ Rewritten(row, e).parent = row.parent
        BY <1>1, <2>3, <3>1, <3>2, RewrittenIs DEF x
      <3>. QED  BY <2>3, <3>3, <3>4 DEF row
    <2>4. CASE d # x.id /\ d \notin Within(x.read.path)
      BY <2>1, <2>4, ReadRow
    <2>. QED  BY <2>2, <2>3, <2>4
  <1>. QED  BY <1>1, <1>2, <1>3

LEMMA MoveKeeps ==
  ASSUME NodesOK, EditsOK, NEW e \in Editor, Move(e)
  PROVE  NodesOK' /\ EditsOK'
  <1>1. EditsOK'
    BY TheOthersAreTold DEF Move
  <1>2. node' = [d \in Cat |-> node'[d]]
    BY DEF Move
  <1>3. node' \in [Cat -> RowType]
    BY <1>2, MoveIs
  <1>4. ASSUME NEW c \in CatThere' PROVE PathOf(node'[c], c)
    <2>1. c \in CatThere
      BY MoveIs DEF CatThere
    <2>. QED  BY <2>1, MoveIs, ReadRow
  <1>. QED  BY <1>1, <1>3, <1>4 DEF NodesOK, PathOf

LEMMA RemoveKeeps ==
  ASSUME NodesOK, EditsOK, NEW c \in Cat, RemoveCat(c)
  PROVE  NodesOK' /\ EditsOK'
  <1>. DEFINE gone == [NoCat EXCEPT !.there = "no more"]
  <1>1. gone \in RowType /\ gone.there = "no more"
    BY NoCatTypes DEF RowType
  <1>2. node' = [node EXCEPT ![c] = gone]
    BY DEF RemoveCat
  <1>3. EditsOK'
    BY TheOthersAreTold DEF RemoveCat
  <1>. HIDE DEF gone
  <1>4. node' \in [Cat -> RowType]
    BY <1>1, <1>2 DEF NodesOK
  <1>5. ASSUME NEW d \in CatThere' PROVE PathOf(node'[d], d)
    <2>1. d \in Cat /\ node'[d] = (IF d = c THEN gone ELSE node[d]) /\ node'[d].there = "yes"
      BY <1>2 DEF CatThere, NodesOK
    <2>2. d # c /\ d \in CatThere
      BY <1>1, <2>1 DEF CatThere
    <2>. QED  BY <2>1, <2>2 DEF NodesOK
  <1>. QED  BY <1>3, <1>4, <1>5 DEF NodesOK, PathOf

LEMMA RootIsThere == \A c \in Cat : RootOf(c) \in CatThere => RootOf(c) \in Cat
  BY DEF CatThere

LEMMA TreeKeeps ==
  ASSUME TreeTypeOK, TreeInv, [TreeNext]_tvars
  PROVE  TreeTypeOK' /\ TreeInv'
  <1>1. NodesOK /\ EditsOK /\ follows \subseteq Cat /\ collided \in BOOLEAN
    BY TreeParts
  <1>2. follows' \subseteq Cat
    <2>1. CASE \E e \in Editor : \/ \E c \in Cat, p \in CatThere \cup {Top} :
                                       StartCreateCat(e, c, p) \/ StartMove(e, c, p)
                                 \/ InsertCat(e) \/ ReadParent(e) \/ RefuseParent(e)
                                 \/ Measure(e) \/ Move(e) \/ RefuseWrite(e)
      BY <1>1, <2>1 DEF StartCreateCat, StartMove, InsertCat, ReadParent, RefuseParent,
                        Measure, Move, RefuseWrite, RefuseCat
    <2>2. CASE \E c \in Cat : RemoveCat(c) \/ FollowCat(c) \/ UnfollowCat(c)
      BY <1>1, <2>2, RootIsThere DEF RemoveCat, FollowCat, UnfollowCat
    <2>3. CASE UNCHANGED tvars
      BY <1>1, <2>3 DEF tvars
    <2>. QED  BY <2>1, <2>2, <2>3 DEF TreeNext
  <1>3. collided' \in BOOLEAN
    <2>1. ASSUME NEW e \in Editor, InsertCat(e) \/ Move(e) PROVE collided' \in BOOLEAN
      BY <2>1 DEF InsertCat, Move
    <2>2. CASE UNCHANGED collided
      BY <1>1, <2>2
    <2>. QED  BY <2>1, <2>2 DEF TreeNext, tvars, StartCreateCat, StartMove, ReadParent,
                RefuseParent, Measure, RefuseWrite, RefuseCat, RemoveCat, FollowCat,
                UnfollowCat
  <1>4. NodesOK' /\ EditsOK'
    <2>1. ASSUME NEW e \in Editor, NEW c \in Cat, NEW p \in CatThere \cup {Top},
                 StartCreateCat(e, c, p) \/ StartMove(e, c, p)
          PROVE  NodesOK' /\ EditsOK'
      BY <1>1, <2>1, StartCreateKeeps, StartMoveKeeps
    <2>2. ASSUME NEW e \in Editor,
                 \/ InsertCat(e) \/ ReadParent(e) \/ RefuseParent(e)
                 \/ Measure(e) \/ Move(e) \/ RefuseWrite(e)
          PROVE  NodesOK' /\ EditsOK'
      BY <1>1, <2>2, InsertCatKeeps, ReadParentKeeps, RefusalKeeps, MeasureKeeps, MoveKeeps
    <2>3. ASSUME NEW c \in Cat, RemoveCat(c)
          PROVE  NodesOK' /\ EditsOK'
      BY <1>1, <2>3, RemoveKeeps
    <2>4. CASE UNCHANGED <<node, edit>>
      BY <1>1, <2>4 DEF NodesOK, EditsOK, CatThere, PathOf, EditOK
    <2>. QED  BY <2>1, <2>2, <2>3, <2>4 DEF TreeNext, tvars, FollowCat, UnfollowCat
  <1>. QED  BY <1>2, <1>3, <1>4
              DEF TreeTypeOK, TreeInv, DepthIsItsPath, EditsOK, NodesOK, EditType, PathOf

(* Types: what is followed is a category, rows and requests keep their     *)
(* shape.                                                                  *)
THEOREM TreeTypes == TreeSpec => []TreeTypeOK
  <1>1. TreeInit => TreeTypeOK /\ TreeInv
    BY TreeBegins
  <1>2. TreeTypeOK /\ TreeInv /\ [TreeNext]_tvars => TreeTypeOK' /\ TreeInv'
    BY TreeKeeps
  <1>. QED  BY <1>1, <1>2, PTL DEF TreeSpec

(* The depth of a category stays the length of its path, which ends in the *)
(* category, however moves, new categories and removals of several editors *)
(* fall between one another's steps: a move writes a path and a depth that *)
(* come of the same readings.                                              *)
THEOREM DepthsArePaths == TreeSpec => []DepthIsItsPath
  <1>1. TreeInit => TreeTypeOK /\ TreeInv
    BY TreeBegins
  <1>2. TreeTypeOK /\ TreeInv /\ [TreeNext]_tvars => TreeTypeOK' /\ TreeInv'
    BY TreeKeeps
  <1>3. TreeInv => DepthIsItsPath
    BY DEF TreeInv
  <1>. QED  BY <1>1, <1>2, <1>3, PTL DEF TreeSpec

-----------------------------------------------------------------------------
(* The foreign keys.                                                       *)

LEMMA NothingComesToHang ==
  ASSUME TreeTypeOK, TreeInv, NothingHangs, [TreeNext]_tvars
  PROVE  NothingHangs'
  <1>1. NodesOK /\ EditsOK
    BY TreeParts
  <1>2. ASSUME NEW e \in Editor, InsertCat(e) PROVE NothingHangs'
    <2>. DEFINE id == edit[e].id
                row == node'[id]
    <2>1. /\ id \in Cat /\ node' = [node EXCEPT ![id] = row]
          /\ row.there = "yes" /\ row.parent = edit[e].to
          /\ edit[e].to = Top \/ edit[e].to \in CatThere
      BY <1>1, <1>2, InsertIs
    <2>. HIDE DEF row, id
    <2>2. \A d \in Cat : node'[d] = IF d = id THEN row ELSE node[d]
      BY <1>1, <2>1 DEF NodesOK
    <2>3. CatThere \subseteq CatThere'
      BY <2>1, <2>2 DEF CatThere
    <2>4. ASSUME NEW d \in CatThere', node'[d].parent # Top
          PROVE  node'[d].parent \in CatThere'
      BY <2>1, <2>2, <2>3, <2>4 DEF NothingHangs, CatThere
    <2>5. follows' \subseteq CatThere'
      BY <1>2, <2>3 DEF InsertCat, NothingHangs
    <2>. QED  BY <2>4, <2>5 DEF NothingHangs
  <1>3. ASSUME NEW e \in Editor, Move(e) PROVE NothingHangs'
    <2>1. /\ edit[e].id \in CatThere
          /\ edit[e].to = Top \/ edit[e].to \in CatThere
          /\ \A d \in Cat :
               /\ node'[d].there = node[d].there
               /\ node'[d].parent = IF d = edit[e].id THEN edit[e].to ELSE node[d].parent
      BY <1>1, <1>3, MoveIs
    <2>2. CatThere' = CatThere
      BY <2>1 DEF CatThere
    <2>3. ASSUME NEW d \in CatThere, node'[d].parent # Top
          PROVE  node'[d].parent \in CatThere
      BY <2>1, <2>3 DEF NothingHangs, CatThere
    <2>4. follows' \subseteq CatThere
      BY <1>3 DEF Move, NothingHangs
    <2>. QED  BY <2>2, <2>3, <2>4 DEF NothingHangs
  <1>4. ASSUME NEW c \in Cat, RemoveCat(c) PROVE NothingHangs'
    <2>1. \A d \in Cat \ {c} : node'[d] = node[d]
      BY <1>1, <1>4 DEF RemoveCat, NodesOK
    <2>2. node'[c].there = "no more"
      BY <1>1, <1>4 DEF RemoveCat, NodesOK, NoCat
    <2>3. CatThere' = CatThere \ {c}
      BY <2>1, <2>2 DEF CatThere
    <2>4. \A d \in CatThere : node[d].parent # c
      BY <1>4 DEF RemoveCat, Removable, Children
    <2>5. follows' \subseteq CatThere'
      BY <1>4, <2>3 DEF RemoveCat, NothingHangs
    <2>6. ASSUME NEW d \in CatThere', node'[d].parent # Top
          PROVE  node'[d].parent \in CatThere'
      <3>1. d \in CatThere /\ d \in Cat \ {c}
        BY <2>3 DEF CatThere
      <3>2. node[d].parent # Top /\ node'[d].parent = node[d].parent
        BY <2>1, <2>6, <3>1
      <3>. QED  BY <2>3, <2>4, <3>1, <3>2 DEF NothingHangs
    <2>. QED  BY <2>5, <2>6 DEF NothingHangs
  <1>5. ASSUME NEW c \in Cat, FollowCat(c) \/ UnfollowCat(c) PROVE NothingHangs'
    BY <1>5 DEF FollowCat, UnfollowCat, NothingHangs, CatThere
  <1>6. CASE UNCHANGED <<node, follows>>
    BY <1>6 DEF NothingHangs, CatThere
  <1>. QED  BY <1>2, <1>3, <1>4, <1>5, <1>6 DEF TreeNext, tvars, StartCreateCat, StartMove,
              ReadParent, RefuseParent, Measure, RefuseWrite, RefuseCat

(* A category's parent, and the category of a follow, is always there: an  *)
(* editor's stale reading of a parent removed meanwhile is stopped at the  *)
(* write.                                                                  *)
THEOREM NothingIsLeftHanging == TreeSpec => []NothingHangs
  <1>1. TreeInit => NothingHangs
    BY NoCatTypes DEF TreeInit, NothingHangs, CatThere
  <1>2. TreeTypeOK /\ TreeInv /\ NothingHangs /\ [TreeNext]_tvars => NothingHangs'
    BY NothingComesToHang
  <1>3. TreeInit => TreeTypeOK /\ TreeInv
    BY TreeBegins
  <1>4. TreeTypeOK /\ TreeInv /\ [TreeNext]_tvars => TreeTypeOK' /\ TreeInv'
    BY TreeKeeps
  <1>. QED  BY <1>1, <1>2, <1>3, <1>4, PTL DEF TreeSpec

-----------------------------------------------------------------------------
(* Paths under paths.                                                      *)

LEMMA PrefixIs ==
  ASSUME NEW r \in Seq(Cat), NEW s \in Seq(Cat)
  PROVE  IsPrefix(r, s) <=> Len(r) <= Len(s) /\ \A i \in 1..Len(r) : r[i] = s[i]
  <1>1. CASE Len(r) <= Len(s)
    <2>. DEFINE t == SubSeq(s, 1, Len(r))
    <2>1. t \in Seq(Cat) /\ Len(t) = Len(r) /\ \A i \in 1..Len(r) : t[i] = s[i]
      BY <1>1
    <2>2. SubSeq(r, 1, Len(r)) = r
      OBVIOUS
    <2>. HIDE DEF t
    <2>3. r = t <=> \A i \in 1..Len(r) : r[i] = t[i]
      BY <2>1
    <2>. QED  BY <1>1, <2>1, <2>2, <2>3 DEF IsPrefix, t
  <1>2. CASE ~(Len(r) <= Len(s))
    BY <1>2 DEF IsPrefix
  <1>. QED  BY <1>1, <1>2

LEMMA PrefixOfLonger ==
  ASSUME NEW r \in Seq(Cat), NEW s \in Seq(Cat), NEW d \in Cat
  PROVE  IsPrefix(r, s) => IsPrefix(r, Append(s, d))
  <1>. DEFINE t == Append(s, d)
  <1>1. t \in Seq(Cat) /\ Len(t) = Len(s) + 1 /\ \A i \in 1..Len(s) : t[i] = s[i]
    OBVIOUS
  <1>. HIDE DEF t
  <1>2. IsPrefix(r, s) => IsPrefix(r, t)
    BY <1>1, PrefixIs
  <1>. QED  BY <1>2 DEF t

(* A prefix that ends elsewhere is a prefix of what is above.              *)
LEMMA PrefixOfAbove ==
  ASSUME NEW r \in Seq(Cat), NEW s \in Seq(Cat), NEW d \in Cat, Len(r) > 0,
         Last(r) # d, IsPrefix(r, Append(s, d))
  PROVE  IsPrefix(r, s)
  <1>. DEFINE t == Append(s, d)
  <1>1. /\ t \in Seq(Cat) /\ Len(t) = Len(s) + 1 /\ t[Len(s) + 1] = d
        /\ \A i \in 1..Len(s) : t[i] = s[i]
    OBVIOUS
  <1>. HIDE DEF t
  <1>2. Len(r) <= Len(t) /\ \A i \in 1..Len(r) : r[i] = t[i]
    BY <1>1, PrefixIs DEF t
  <1>3. r[Len(r)] # d /\ Len(r) \in 1..Len(r)
    BY DEF Last
  <1>4. Len(r) # Len(s) + 1
    BY <1>1, <1>2, <1>3
  <1>5. Len(r) <= Len(s)
    BY <1>1, <1>2, <1>4
  <1>6. \A i \in 1..Len(r) : r[i] = s[i]
    BY <1>1, <1>2, <1>5
  <1>. QED  BY <1>5, <1>6, PrefixIs

(* What hangs under a rewritten path hangs under it afterwards.            *)
LEMMA TailGrows ==
  ASSUME NEW s \in Seq(Cat), NEW d \in Cat, NEW n \in Nat, n <= Len(s)
  PROVE  SubSeq(Append(s, d), n + 1, Len(s) + 1) = Append(SubSeq(s, n + 1, Len(s)), d)
  <1>. DEFINE m == Len(s)
              t == Append(s, d)
              u == SubSeq(t, n + 1, m + 1)
              v == SubSeq(s, n + 1, m)
              w == Append(v, d)
  <1>1. m \in Nat /\ n <= m
    OBVIOUS
  <1>2. /\ t \in Seq(Cat) /\ Len(t) = m + 1 /\ t[m + 1] = d
        /\ \A i \in 1..m : t[i] = s[i]
    OBVIOUS
  <1>. HIDE DEF t
  <1>3. u \in Seq(Cat) /\ Len(u) = m + 1 - n /\ \A i \in 1..(m + 1 - n) : u[i] = t[n + i]
    BY <1>1, <1>2
  <1>4. v \in Seq(Cat) /\ Len(v) = m - n /\ \A i \in 1..(m - n) : v[i] = s[n + i]
    BY <1>1
  <1>. HIDE DEF u, v
  <1>5. /\ w \in Seq(Cat) /\ Len(w) = m - n + 1 /\ w[m - n + 1] = d
        /\ \A i \in 1..(m - n) : w[i] = v[i]
    BY <1>1, <1>4
  <1>. HIDE DEF w, m
  <1>6. ASSUME NEW i \in 1..(m + 1 - n) PROVE u[i] = w[i]
    <2>1. CASE i = m + 1 - n
      BY <1>1, <1>2, <1>3, <1>5, <2>1
    <2>2. CASE i # m + 1 - n
      BY <1>1, <1>2, <1>3, <1>4, <1>5, <2>2
    <2>. QED  BY <2>1, <2>2
  <1>7. Len(u) = m + 1 - n /\ Len(w) = m + 1 - n
    BY <1>1, <1>3, <1>5
  <1>8. u = w
    BY <1>3, <1>5, <1>6, <1>7
  <1>. QED  BY <1>8 DEF u, v, w, t, m

LEMMA AppendLater ==
  ASSUME NEW h \in Seq(Cat), NEW t \in Seq(Cat), NEW d \in Cat
  PROVE  h \o Append(t, d) = Append(h \o t, d)
  OBVIOUS

LEMMA SpliceGrows ==
  ASSUME NEW b \in Seq(Cat), NEW id \in Cat, NEW r \in Seq(Cat), NEW s \in Seq(Cat),
         NEW d \in Cat, IsPrefix(r, s)
  PROVE  Splice(b, id, r, Append(s, d)) = Append(Splice(b, id, r, s), d)
  <1>. DEFINE h == Append(b, id)
              t == SubSeq(s, Len(r) + 1, Len(s))
              n == Len(r)
  <1>1. h \in Seq(Cat) /\ t \in Seq(Cat) /\ n \in Nat /\ n <= Len(s)
    BY DEF IsPrefix
  <1>2. Len(Append(s, d)) = Len(s) + 1
    OBVIOUS
  <1>3. SubSeq(Append(s, d), n + 1, Len(s) + 1) = Append(t, d)
    BY <1>1, TailGrows
  <1>. HIDE DEF h, t, n
  <1>4. h \o Append(t, d) = Append(h \o t, d)
    BY <1>1, AppendLater
  <1>5. Splice(b, id, r, Append(s, d)) = h \o Append(t, d)
    BY <1>2, <1>3 DEF Splice, h, n
  <1>6. Splice(b, id, r, s) = h \o t
    BY DEF Splice, h, t
  <1>. QED  BY <1>4, <1>5, <1>6

LEMMA SpliceAll ==
  ASSUME NEW b \in Seq(Cat), NEW id \in Cat, NEW r \in Seq(Cat)
  PROVE  Splice(b, id, r, r) = Append(b, id) /\ IsPrefix(r, r)
  <1>1. IsPrefix(r, r)
    BY PrefixIs
  <1>2. SubSeq(r, Len(r) + 1, Len(r)) = <<>>
    OBVIOUS
  <1>. DEFINE h == Append(b, id)
  <1>3. h \in Seq(Cat)
    OBVIOUS
  <1>. HIDE DEF h
  <1>4. h \o <<>> = h
    BY <1>3
  <1>. QED  BY <1>1, <1>2, <1>4 DEF Splice, h

LEMMA RootPath ==
  ASSUME NEW r \in Seq(Cat), NEW d \in Cat, Len(r) > 0, Last(r) # d
  PROVE  ~IsPrefix(r, <<d>>)
  <1>1. <<d>> \in Seq(Cat) /\ Len(<<d>>) = 1 /\ <<d>>[1] = d
    OBVIOUS
  <1>2. r[Len(r)] # d
    BY DEF Last
  <1>. DEFINE t == <<d>>
  <1>3. t \in Seq(Cat) /\ Len(t) = 1 /\ t[1] = d
    BY <1>1
  <1>. HIDE DEF t
  <1>4. ~IsPrefix(r, t)
    BY <1>2, <1>3, PrefixIs
  <1>. QED  BY <1>4 DEF t

-----------------------------------------------------------------------------
(* Requests that do not overlap.  As long as none has written over what    *)
(* another changed, the rows are those of a tree, and a request nobody     *)
(* came in the way of finds what it read as it read it.                    *)

There(rows) == {c \in Cat : rows[c].there = "yes"}
PathStands(rows, c) ==
  IF rows[c].parent = Top THEN rows[c].path = <<c>>
  ELSE /\ rows[c].parent \in There(rows)
       /\ rows[c].path = Append(rows[rows[c].parent].path, c)
Sound(rows) ==
  \A c \in There(rows) : rows[c].depth <= MAX_DEPTH /\ PathStands(rows, c)

Depth(x) == IF x.to = Top THEN 0 ELSE x.base.depth + 1
FitsIn(rows, x) ==
  /\ Depth(x) <= MAX_DEPTH
  /\ \A d \in There(rows) :
       IsPrefix(x.read.path, rows[d].path)
         => Depth(x) + (rows[d].depth - x.read.depth) <= MAX_DEPTH
NodeStands(rows, x) == x.id \in There(rows) /\ x.read = rows[x.id]
BaseStands(rows, x) ==
  IF x.to = Top THEN x.base = NoCat ELSE x.to \in There(rows) /\ x.base = rows[x.to]
StillSo(rows, x) ==
  x.fresh /\ x.pc # "idle" =>
    /\ x.pc = "insert" => rows[x.id].there = "not yet" /\ Depth(x) <= MAX_DEPTH
    /\ x.pc # "insert" => NodeStands(rows, x)
    /\ x.pc # "parent" => BaseStands(rows, x)
    /\ x.pc \in {"measure", "move"} /\ x.to # Top => ~IsPrefix(x.read.path, x.base.path)
    /\ x.pc = "move" => FitsIn(rows, x)

Quiet == ~collided => Sound(node) /\ \A e \in Editor : StillSo(node, edit[e])

LEMMA QuietIsSound == Quiet => TreeIsSound
  BY DEF Quiet, Sound, PathStands, There, TreeIsSound, CatThere

LEMMA QuietNext ==
  (~collided' => Sound(node') /\ \A e \in Editor : StillSo(node', edit'[e])) => Quiet'
  BY DEF Quiet, Sound, PathStands, There, StillSo, NodeStands, BaseStands, FitsIn, Depth

LEMMA CatThereIs == CatThere = There(node)
  BY DEF CatThere, There

LEMMA FitsIs ==
  \A e \in Editor : NewDepth(e) = Depth(edit[e]) /\ (Fits(e) <=> FitsIn(node, edit[e]))
  BY CatThereIs DEF NewDepth, Depth, Fits, FitsIn, Within

LEMMA OneMoreReading ==
  ASSUME EditsOK, Quiet, NEW e \in Editor, NEW y, UNCHANGED <<node, collided>>,
         edit' = [edit EXCEPT ![e] = y], ~collided => StillSo(node, y)
  PROVE  Quiet'
  <1>1. \A f \in Editor : edit'[f] = IF f = e THEN y ELSE edit[f]
    BY DEF EditsOK
  <1>2. ~collided' => Sound(node') /\ \A f \in Editor : StillSo(node', edit'[f])
    BY <1>1 DEF Quiet
  <1>. QED  BY <1>2, QuietNext

LEMMA NoEditStands == \A rows : StillSo(rows, NoEdit)
  BY DEF NoEdit, StillSo

LEMMA OneReadingLess ==
  ASSUME EditsOK, Quiet, NEW e \in Editor, UNCHANGED <<node, collided>>, edit' = Stop(e)
  PROVE  Quiet'
  BY OneMoreReading, NoEditStands DEF Stop

(* After a write, what the others have read no longer counts.              *)
LEMMA NobodyStands ==
  ASSUME EditsOK, NEW e, edit' = Change(e), NEW rows, NEW f \in Editor
  PROVE  StillSo(rows, edit'[f])
  <1>1. CASE f = e
    BY <1>1, NoEditStands DEF Change
  <1>2. CASE f # e
    <2>. DEFINE x == edit[f]
                y == edit'[f]
    <2>1. y = [x EXCEPT !.fresh = x.fresh /\ x.pc = "idle"]
      BY <1>2 DEF Change
    <2>2. x \in EditType
      BY DEF EditsOK
    <2>. HIDE DEF x, y
    <2>3. y.pc = x.pc /\ (y.fresh <=> x.fresh /\ x.pc = "idle")
      BY <2>1, <2>2 DEF EditType
    <2>4. StillSo(rows, y)
      BY <2>3 DEF StillSo
    <2>. QED  BY <2>4 DEF y
  <1>. QED  BY <1>1, <1>2

LEMMA StartCreateStaysQuiet ==
  ASSUME NodesOK, EditsOK, Quiet, NEW e \in Editor, NEW c \in Cat,
         NEW p \in CatThere \cup {Top}, StartCreateCat(e, c, p)
  PROVE  Quiet'
  <1>. DEFINE base == IF p = Top THEN NoCat ELSE node[p]
              x == Creates(NoEdit, c, p, base)
  <1>1. base \in RowType /\ p \in Cat \cup {Top}
    BY ReadRow, NoCatTypes
  <1>2. edit' = [edit EXCEPT ![e] = x] /\ UNCHANGED <<node, collided>>
    BY DEF StartCreateCat, Creates
  <1>3. IF p = Top THEN base = NoCat ELSE p \in There(node) /\ base = node[p]
    BY CatThereIs
  <1>4. /\ node[c].there = "not yet"
        /\ p # Top => base.depth + 1 <= MAX_DEPTH
    BY DEF StartCreateCat
  <1>. HIDE DEF base
  <1>5. x.pc = "insert" /\ x.id = c /\ x.to = p /\ x.base = base
    BY <1>1, CreatesIs, NoEditTypes
  <1>. HIDE DEF x
  <1>6. Depth(x) <= MAX_DEPTH
    <2>1. CASE p = Top
      <3>1. Depth(x) = 0
        BY <1>5, <2>1 DEF Depth
      <3>. QED  BY <3>1, TreeAssumption
    <2>2. CASE p # Top
      BY <1>4, <1>5, <2>2 DEF Depth
    <2>. QED  BY <2>1, <2>2
  <1>7. StillSo(node, x)
    BY <1>3, <1>4, <1>5, <1>6 DEF StillSo, BaseStands
  <1>. QED  BY <1>2, <1>7, OneMoreReading

LEMMA StartMoveStaysQuiet ==
  ASSUME NodesOK, EditsOK, Quiet, NEW e \in Editor, NEW c \in Cat,
         NEW p \in CatThere \cup {Top}, StartMove(e, c, p)
  PROVE  Quiet'
  <1>. DEFINE read == node[c]
              x == Moves(NoEdit, c, p, read)
  <1>1. read \in RowType /\ p \in Cat \cup {Top} /\ c \in There(node)
    BY ReadRow, CatThereIs DEF StartMove
  <1>2. edit' = [edit EXCEPT ![e] = x] /\ UNCHANGED <<node, collided>>
    BY DEF StartMove, Moves
  <1>. HIDE DEF read
  <1>3. x.pc = "parent" /\ x.id = c /\ x.read = read
    BY <1>1, MovesIs, NoEditTypes
  <1>. HIDE DEF x
  <1>4. StillSo(node, x)
    BY <1>1, <1>3 DEF StillSo, NodeStands, read
  <1>. QED  BY <1>2, <1>4, OneMoreReading

LEMMA ReadParentStaysQuiet ==
  ASSUME NodesOK, EditsOK, Quiet, NEW e \in Editor, ReadParent(e)
  PROVE  Quiet'
  <1>. DEFINE x == edit[e]
              base == IF x.to = Top THEN NoCat ELSE node[x.to]
              y == Onwards(x, "measure", base)
  <1>1. x \in EditType /\ x.pc = "parent"
    BY ReadRow DEF ReadParent
  <1>2. base \in RowType
    BY ReadRow, NoCatTypes DEF ReadParent
  <1>3. edit' = [edit EXCEPT ![e] = y] /\ UNCHANGED <<node, collided>>
    BY DEF ReadParent, Onwards
  <1>4. IF x.to = Top THEN base = NoCat ELSE x.to \in There(node) /\ base = node[x.to]
    BY CatThereIs DEF ReadParent
  <1>5. x.to # Top => ~IsPrefix(x.read.path, base.path)
    BY DEF ReadParent, InOwnSubtree
  <1>6. ~collided => StillSo(node, x)
    BY DEF Quiet
  <1>. HIDE DEF x, base
  <1>7. /\ y.pc = "measure" /\ y.id = x.id /\ y.to = x.to
        /\ y.base = base /\ y.read = x.read /\ y.fresh = x.fresh
    BY <1>1, <1>2, OnwardsIs
  <1>. HIDE DEF y
  <1>8. ~collided => StillSo(node, y)
    BY <1>1, <1>4, <1>5, <1>6, <1>7 DEF StillSo, NodeStands, BaseStands
  <1>. QED  BY <1>3, <1>8, OneMoreReading

LEMMA MeasureStaysQuiet ==
  ASSUME NodesOK, EditsOK, Quiet, NEW e \in Editor, Measure(e)
  PROVE  Quiet'
  <1>1. CASE ~Fits(e)
    BY <1>1, OneReadingLess DEF Measure
  <1>2. CASE Fits(e)
    <2>. DEFINE x == edit[e]
                base == x.base
                y == Onwards(x, "move", base)
    <2>1. x \in EditType /\ x.pc = "measure" /\ base \in RowType
      BY ReadRow DEF Measure, EditType
    <2>2. y = [x EXCEPT !.pc = "move"]
      BY <2>1 DEF EditType, Onwards
    <2>3. edit' = [edit EXCEPT ![e] = y] /\ UNCHANGED <<node, collided>>
      BY <1>2, <2>2 DEF Measure, Step
    <2>4. ~collided => StillSo(node, x)
      BY DEF Quiet
    <2>5. FitsIn(node, x)
      BY <1>2, FitsIs
    <2>. HIDE DEF x, base
    <2>6. /\ y.pc = "move" /\ y.id = x.id /\ y.to = x.to
          /\ y.base = base /\ y.read = x.read /\ y.fresh = x.fresh
      BY <2>1, OnwardsIs
    <2>. HIDE DEF y
    <2>7. FitsIn(node, y)
      BY <2>5, <2>6 DEF FitsIn, Depth, base
    <2>8. ~collided => StillSo(node, y)
      BY <2>1, <2>4, <2>6, <2>7 DEF StillSo, NodeStands, BaseStands, base
    <2>. QED  BY <2>3, <2>8, OneMoreReading
  <1>. QED  BY <1>1, <1>2

(* A row stands as long as neither it nor its parent's changes.            *)
LEMMA RestStands ==
  ASSUME NEW rows, NEW next, NEW c \in Cat, PathStands(rows, c), next[c] = rows[c],
         rows[c].parent # Top =>
           rows[c].parent \in There(next) /\ next[rows[c].parent] = rows[rows[c].parent]
  PROVE  PathStands(next, c)
  BY DEF PathStands

LEMMA PlacedHas ==
  ASSUME NEW id, NEW x
  PROVE  /\ Placed(id, x.to, x.base).there = "yes"
         /\ Placed(id, x.to, x.base).parent = x.to
         /\ Placed(id, x.to, x.base).path = Append(x.base.path, id)
         /\ Placed(id, x.to, x.base).depth = Depth(x)
  BY DEF Placed, Depth

(* The row of a category put under a parent that is there stands.          *)
LEMMA PlacedStands ==
  ASSUME NEW rows, NEW next, NEW x, BaseStands(rows, x),
         x.to # Top => x.to \in There(next) /\ next[x.to] = rows[x.to],
         next[x.id] = Placed(x.id, x.to, x.base)
  PROVE  PathStands(next, x.id)
  <1>1. next[x.id].parent = x.to /\ next[x.id].path = Append(x.base.path, x.id)
    <2>1. /\ Placed(x.id, x.to, x.base).parent = x.to
          /\ Placed(x.id, x.to, x.base).path = Append(x.base.path, x.id)
      BY DEF Placed
    <2>. QED  BY <2>1
  <1>2. CASE x.to = Top
    <2>1. x.base.path = <<>>
      BY <1>2, NoCatTypes DEF BaseStands
    <2>2. Append(x.base.path, x.id) = <<x.id>>
      BY <2>1
    <2>. QED  BY <1>1, <1>2, <2>2 DEF PathStands
  <1>3. CASE x.to # Top
    BY <1>1, <1>3 DEF PathStands, BaseStands
  <1>. QED  BY <1>2, <1>3

LEMMA InsertStaysQuiet ==
  ASSUME NodesOK, EditsOK, Quiet, NEW e \in Editor, InsertCat(e)
  PROVE  Quiet'
  <1>1. \A f \in Editor : StillSo(node', edit'[f])
    BY NobodyStands DEF InsertCat
  <1>2. ASSUME ~collided' PROVE Sound(node')
    <2>. DEFINE x == edit[e]
    <2>1. ~collided /\ x.fresh /\ x.pc = "insert"
      BY <1>2 DEF InsertCat
    <2>2. Sound(node) /\ StillSo(node, x)
      BY <2>1 DEF Quiet
    <2>3. x.id \in Cat /\ node' = [node EXCEPT ![x.id] = Placed(x.id, x.to, x.base)]
      BY InsertIs DEF InsertCat
    <2>4. \A c \in Cat : node'[c] = IF c = x.id THEN Placed(x.id, x.to, x.base) ELSE node[c]
      BY <2>3 DEF NodesOK
    <2>. HIDE DEF x
    <2>5. node[x.id].there = "not yet" /\ Depth(x) <= MAX_DEPTH /\ BaseStands(node, x)
      BY <2>1, <2>2 DEF StillSo
    <2>6. ASSUME NEW c \in There(node) PROVE c \in There(node') /\ node'[c] = node[c] /\ c \in Cat
      BY <2>4, <2>5 DEF There
    <2>7. node'[x.id] = Placed(x.id, x.to, x.base)
      BY <2>3, <2>4
    <2>8. PathStands(node', x.id)
      BY <2>5, <2>6, <2>7, PlacedStands DEF BaseStands
    <2>9. node'[x.id].depth <= MAX_DEPTH
      BY <2>5, <2>7, PlacedHas
    <2>10. ASSUME NEW c \in There(node'), c # x.id
           PROVE  node'[c].depth <= MAX_DEPTH /\ PathStands(node', c)
      <3>1. c \in There(node) /\ c \in Cat /\ node'[c] = node[c]
        BY <2>4, <2>10 DEF There
      <3>2. PathStands(node, c) /\ node[c].depth <= MAX_DEPTH
        BY <2>2, <3>1 DEF Sound
      <3>3. node[c].parent # Top => node[c].parent \in There(node)
        BY <3>2 DEF PathStands
      <3>4. PathStands(node', c)
        BY <2>6, <3>1, <3>2, <3>3, RestStands
      <3>. QED  BY <3>1, <3>2, <3>4
    <2>. QED  BY <2>8, <2>9, <2>10 DEF Sound
  <1>. QED  BY <1>1, <1>2, QuietNext

LEMMA RemoveStaysQuiet ==
  ASSUME NodesOK, EditsOK, Quiet, NEW c \in Cat, RemoveCat(c)
  PROVE  Quiet'
  <1>1. \A f \in Editor : StillSo(node', edit'[f])
    BY NobodyStands DEF RemoveCat
  <1>2. ASSUME ~collided' PROVE Sound(node')
    <2>1. Sound(node)
      BY <1>2 DEF Quiet, RemoveCat
    <2>2. \A d \in Cat \ {c} : node'[d] = node[d]
      BY DEF RemoveCat, NodesOK
    <2>3. node'[c].there = "no more"
      BY DEF RemoveCat, NodesOK, NoCat
    <2>4. There(node') = There(node) \ {c}
      BY <2>2, <2>3 DEF There
    <2>5. \A d \in There(node) : node[d].parent # c
      BY CatThereIs DEF RemoveCat, Removable, Children
    <2>6. ASSUME NEW d \in There(node')
          PROVE  node'[d].depth <= MAX_DEPTH /\ PathStands(node', d)
      <3>1. d \in There(node) /\ d \in Cat \ {c} /\ node'[d] = node[d]
        BY <2>2, <2>4 DEF There
      <3>2. PathStands(node, d) /\ node[d].depth <= MAX_DEPTH
        BY <2>1, <3>1 DEF Sound
      <3>3. node[d].parent # Top =>
              node[d].parent \in There(node') /\ node[d].parent \in Cat \ {c}
        BY <2>4, <2>5, <3>1, <3>2 DEF PathStands, There
      <3>4. PathStands(node', d)
        BY <2>2, <3>1, <3>2, <3>3, RestStands
      <3>. QED  BY <3>1, <3>2, <3>4
    <2>. QED  BY <2>6 DEF Sound
  <1>. QED  BY <1>1, <1>2, QuietNext

(* What a move does to a row under the one that moves, and to the others.  *)
LEMMA RewrittenHas ==
  ASSUME NEW e \in Editor, NEW row \in RowType
  PROVE  /\ Rewritten(row, e).there = row.there
         /\ Rewritten(row, e).parent = row.parent
         /\ Rewritten(row, e).path
              = Splice(edit[e].base.path, edit[e].id, edit[e].read.path, row.path)
         /\ Rewritten(row, e).depth = row.depth + (Depth(edit[e]) - edit[e].read.depth)
  BY DEF Rewritten, RowType, Splice, Depth, NewDepth

LEMMA PathHasItsEnd ==
  ASSUME NEW c \in Cat
  PROVE  Len(<<c>>) > 0 /\ \A t \in Seq(Cat) : Len(Append(t, c)) > 0
  OBVIOUS

LEMMA MoveStaysQuiet ==
  ASSUME NodesOK, EditsOK, Quiet, NEW e \in Editor, Move(e)
  PROVE  Quiet'
  <1>1. \A f \in Editor : StillSo(node', edit'[f])
    BY NobodyStands DEF Move
  <1>2. ASSUME ~collided' PROVE Sound(node')
    <2>. DEFINE x == edit[e]
                r == x.read.path
                b == x.base.path
                id == x.id
    <2>1. ~collided /\ x.fresh /\ x.pc = "move"
      BY <1>2 DEF Move
    <2>2. Sound(node) /\ StillSo(node, x)
      BY <2>1 DEF Quiet
    <2>3. /\ id \in Cat /\ x.read \in RowType /\ x.base \in RowType
          /\ Last(r) = id
      BY <2>1, ReadRow DEF EditType, EditOK, PathOf
    <2>4. r \in Seq(Cat) /\ b \in Seq(Cat) /\ x.read.depth \in Int /\ x.base.depth \in Int
      BY <2>3 DEF RowType
    <2>5. There(node') = There(node)
      BY MoveIs DEF There
    <2>6. ASSUME NEW d \in There(node)
          PROVE  /\ d \in Cat /\ node[d] \in RowType /\ node[d].path \in Seq(Cat)
                 /\ node[d].depth \in Int /\ node[d].parent \in Cat \cup {Top}
                 /\ PathStands(node, d) /\ node[d].depth <= MAX_DEPTH
                 /\ node[d].parent # Top => node[d].parent \in There(node)
      <3>1. d \in Cat /\ node[d] \in RowType
        BY ReadRow DEF There
      <3>2. PathStands(node, d) /\ node[d].depth <= MAX_DEPTH
        BY <2>2 DEF Sound
      <3>3. node[d].parent # Top => node[d].parent \in There(node)
        BY <3>2 DEF PathStands
      <3>. QED  BY <3>1, <3>2, <3>3 DEF RowType
    <2>7. node'[id] = Placed(id, x.to, x.base)
      BY <2>3 DEF Move
    <2>8. \A d \in There(node) : d # id /\ IsPrefix(r, node[d].path)
                                  => node'[d] = Rewritten(node[d], e)
      BY DEF Move, Within, CatThere, There
    <2>9. \A d \in There(node) : d # id /\ ~IsPrefix(r, node[d].path) => node'[d] = node[d]
      BY <2>6 DEF Move, Within
    <2>10. ASSUME NEW d \in There(node), d # id, IsPrefix(r, node[d].path)
           PROVE  /\ node'[d].parent = node[d].parent
                  /\ node'[d].path = Splice(b, id, r, node[d].path)
                  /\ node'[d].depth = node[d].depth + (Depth(x) - x.read.depth)
      <3>. DEFINE row == node[d]
      <3>1. row \in RowType /\ node'[d] = Rewritten(row, e)
        BY <2>6, <2>8, <2>10
      <3>. HIDE DEF row
      <3>2. /\ Rewritten(row, e).parent = row.parent
            /\ Rewritten(row, e).path = Splice(b, id, r, row.path)
            /\ Rewritten(row, e).depth = row.depth + (Depth(x) - x.read.depth)
        BY <3>1, RewrittenHas
      <3>. QED  BY <3>1, <3>2 DEF row
    <2>. HIDE DEF x
    <2>11. /\ id \in There(node) /\ node[id].path = r /\ BaseStands(node, x)
           /\ FitsIn(node, x) /\ (x.to # Top => ~IsPrefix(r, b))
      BY <2>1, <2>2 DEF StillSo, NodeStands
    <2>. HIDE DEF r, b, id
    <2>12. Len(r) > 0
      <3>1. \/ r = <<id>>
            \/ /\ node[id].parent \in There(node)
               /\ r = Append(node[node[id].parent].path, id)
        BY <2>6, <2>11 DEF PathStands
      <3>. QED  BY <2>3, <2>4, <2>6, <3>1, PathHasItsEnd
    <2>13. IsPrefix(r, r)
      BY <2>3, <2>4, SpliceAll
    <2>14. ASSUME NEW d \in There(node), IsPrefix(r, node[d].path)
           PROVE  node'[d].path = Splice(b, id, r, node[d].path)
      <3>1. CASE d = id
        <4>1. node'[id].path = Append(b, id)
          BY <2>7, PlacedHas DEF b, id
        <4>2. Splice(b, id, r, r) = Append(b, id)
          BY <2>3, <2>4, SpliceAll
        <4>. QED  BY <2>11, <3>1, <4>1, <4>2
      <3>2. CASE d # id
        BY <2>10, <2>14, <3>2
      <3>. QED  BY <3>1, <3>2
    <2>15. \A d \in There(node) : ~IsPrefix(r, node[d].path) => node'[d] = node[d]
      BY <2>9, <2>11, <2>13
    <2>16. PathStands(node', id) /\ node'[id].depth <= MAX_DEPTH
      <3>1. x.to # Top => x.to \in There(node') /\ node'[x.to] = node[x.to]
        BY <2>5, <2>11, <2>15 DEF BaseStands, b
      <3>2. PathStands(node', x.id)
        BY <2>7, <2>11, <3>1, PlacedStands DEF id
      <3>3. node'[id].depth = Depth(x)
        BY <2>7, PlacedHas
      <3>. QED  BY <2>11, <3>2, <3>3 DEF FitsIn, id
    <2>17. ASSUME NEW d \in There(node), d # id, IsPrefix(r, node[d].path)
           PROVE  PathStands(node', d) /\ node'[d].depth <= MAX_DEPTH
      <3>. DEFINE p == node[d].parent
                  s == node[p].path
      <3>1. d \in Cat /\ PathStands(node, d) /\ node[d].depth \in Int
        BY <2>6
      <3>2. p # Top
        BY <2>3, <2>4, <2>12, <2>17, <3>1, RootPath DEF PathStands
      <3>3. p \in There(node) /\ node[d].path = Append(s, d)
        BY <3>1, <3>2 DEF PathStands
      <3>4. s \in Seq(Cat)
        BY <2>6, <3>3
      <3>5. node'[d].parent = p
        BY <2>10, <2>17
      <3>6. node'[d].path = Splice(b, id, r, Append(s, d))
        BY <2>14, <2>17, <3>3
      <3>7. p \in There(node) /\ IsPrefix(r, s) => node'[p].path = Splice(b, id, r, s)
        BY <2>14
      <3>. HIDE DEF p, s
      <3>8. IsPrefix(r, s)
        BY <2>3, <2>4, <2>12, <2>17, <3>1, <3>3, <3>4, PrefixOfAbove
      <3>9. Splice(b, id, r, Append(s, d)) = Append(Splice(b, id, r, s), d)
        BY <2>3, <2>4, <3>1, <3>4, <3>8, SpliceGrows
      <3>10. node'[d].path = Append(node'[p].path, d)
        BY <3>3, <3>6, <3>7, <3>8, <3>9
      <3>11. PathStands(node', d)
        BY <2>5, <3>2, <3>3, <3>5, <3>10 DEF PathStands
      <3>12. Depth(x) \in Int
        BY <2>4 DEF Depth
      <3>13. Depth(x) + (node[d].depth - x.read.depth) <= MAX_DEPTH
        BY <2>11, <2>17 DEF FitsIn, r
      <3>14. node'[d].depth = node[d].depth + (Depth(x) - x.read.depth)
        BY <2>10, <2>17
      <3>15. node'[d].depth = Depth(x) + (node[d].depth - x.read.depth)
        BY <2>4, <3>1, <3>12, <3>14
      <3>. QED  BY <3>11, <3>13, <3>15
    <2>18. ASSUME NEW d \in There(node), ~IsPrefix(r, node[d].path)
           PROVE  PathStands(node', d) /\ node'[d].depth <= MAX_DEPTH
      <3>. DEFINE p == node[d].parent
                  s == node[p].path
      <3>1. /\ d \in Cat /\ PathStands(node, d) /\ node[d].depth <= MAX_DEPTH
            /\ node'[d] = node[d]
        BY <2>6, <2>15, <2>18
      <3>2. ASSUME p # Top PROVE p \in There(node') /\ node'[p] = node[p]
        <4>1. p \in There(node) /\ node[d].path = Append(s, d)
          BY <3>1, <3>2 DEF PathStands
        <4>2. s \in Seq(Cat)
          BY <2>6, <4>1
        <4>. HIDE DEF s
        <4>3. ~IsPrefix(r, s)
          BY <2>4, <2>18, <3>1, <4>1, <4>2, PrefixOfLonger
        <4>. QED  BY <2>5, <2>15, <4>1, <4>3 DEF s
      <3>3. PathStands(node', d)
        BY <3>1, <3>2, RestStands
      <3>. QED  BY <3>1, <3>3
    <2>. QED  BY <2>5, <2>16, <2>17, <2>18 DEF Sound
  <1>. QED  BY <1>1, <1>2, QuietNext

LEMMA StaysQuiet ==
  ASSUME TreeTypeOK, TreeInv, Quiet, [TreeNext]_tvars
  PROVE  Quiet'
  <1>1. NodesOK /\ EditsOK
    BY TreeParts
  <1>2. ASSUME NEW e \in Editor, NEW c \in Cat, NEW p \in CatThere \cup {Top},
               StartCreateCat(e, c, p) \/ StartMove(e, c, p)
        PROVE  Quiet'
    BY <1>1, <1>2, StartCreateStaysQuiet, StartMoveStaysQuiet
  <1>3. ASSUME NEW e \in Editor, InsertCat(e) \/ ReadParent(e) \/ Measure(e) \/ Move(e)
        PROVE  Quiet'
    BY <1>1, <1>3, InsertStaysQuiet, ReadParentStaysQuiet, MeasureStaysQuiet, MoveStaysQuiet
  <1>4. ASSUME NEW e \in Editor, RefuseParent(e) \/ RefuseWrite(e)
        PROVE  Quiet'
    <2>1. edit' = Stop(e) /\ UNCHANGED <<node, collided>>
      BY <1>4 DEF RefuseParent, RefuseWrite, RefuseCat
    <2>. QED  BY <1>1, <2>1, OneReadingLess
  <1>5. ASSUME NEW c \in Cat, RemoveCat(c)
        PROVE  Quiet'
    BY <1>1, <1>5, RemoveStaysQuiet
  <1>6. ASSUME UNCHANGED <<node, edit, collided>>
        PROVE  Quiet'
    <2>1. ~collided' => Sound(node') /\ \A f \in Editor : StillSo(node', edit'[f])
      BY <1>6 DEF Quiet
    <2>. QED  BY <2>1, QuietNext
  <1>. QED  BY <1>2, <1>3, <1>4, <1>5, <1>6 DEF TreeNext, tvars, FollowCat, UnfollowCat

LEMMA QuietBegins == TreeInit => Quiet
  <1>. SUFFICES ASSUME TreeInit PROVE Quiet
    OBVIOUS
  <1>1. There(node) = {}
    BY NoCatTypes DEF TreeInit, There
  <1>2. \A e \in Editor : StillSo(node, edit[e])
    BY NoEditStands DEF TreeInit
  <1>. QED  BY <1>1, <1>2 DEF Quiet, Sound

(* As long as no request writes after another changed what it had read,    *)
(* the categories form a tree: every path leads from a root, parent by     *)
(* parent, to its category, and none is deeper than allowed, whatever      *)
(* subtree is moved wherever.                                              *)
THEOREM QuietTreesAreTrees == TreeSpec => []TreeIsSound
  <1>1. TreeInit => TreeTypeOK /\ TreeInv /\ Quiet
    BY TreeBegins, QuietBegins
  <1>2. TreeTypeOK /\ TreeInv /\ Quiet /\ [TreeNext]_tvars
          => TreeTypeOK' /\ TreeInv' /\ Quiet'
    BY TreeKeeps, StaysQuiet
  <1>3. Quiet => TreeIsSound
    BY QuietIsSound
  <1>. QED  BY <1>1, <1>2, <1>3, PTL DEF TreeSpec
=============================================================================
